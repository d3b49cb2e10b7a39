------------------------ MODULE LoanServicingProofs ------------------------
(* Theorems about a loan from its listing to its end, for any lenders,     *)
(* offers, amounts, prices, fees and bounds: the listing by itself         *)
(* (DebtContract), that it implements Fundraising, and the loan that       *)
(* follows it (LoanServicing).                                             *)
EXTENDS LoanServicing, SumProofs

-----------------------------------------------------------------------------
(* 1. The listing.                                                         *)
-----------------------------------------------------------------------------
(* What the listing's account holds while lenders may still take back what *)
(* they put in, or are refunded.                                           *)
AccountHoldsFunding ==
    IsOpen \/ contract.status = "Cancelled" => usdc = contract.funded_amount

UncreatedIsFresh ==
    contract.status = "Uncreated" => contract = NoContract /\ usdc = 0

Inductive ==
    /\ TypeOK
    /\ ListingHasRoom
    /\ ContributorsAreListed
    /\ IsFiniteSet(contract.contributions)
    /\ AccountHoldsFunding
    /\ UncreatedIsFresh

-----------------------------------------------------------------------------
LEMMA BpsIsNat ==
    ASSUME NEW amount \in Nat, NEW bps \in Nat
    PROVE  /\ BpsOf(amount, bps) \in Nat
           /\ bps <= BpsDenom => BpsOf(amount, bps) <= amount
  <1>1. amount * bps \in Nat  OBVIOUS
  <1>2. BpsDenom \in Nat \ {0}  BY ConstantsAreNumbers
  <1>3. BpsOf(amount, bps) \in Nat  BY <1>1, <1>2 DEF BpsOf
  <1>4. ASSUME bps <= BpsDenom PROVE BpsOf(amount, bps) <= amount
    <2>1. amount * bps <= amount * BpsDenom  BY <1>2, <1>4
    <2>2. (amount * BpsDenom) \div BpsDenom = amount  BY <1>2
    <2> QED  BY <1>1, <1>2, <2>1, <2>2 DEF BpsOf
  <1> QED  BY <1>3, <1>4

LEMMA OfferNumbers ==
    ASSUME TypeOK
    PROVE  /\ terms \in Offers /\ terms' = terms => terms' \in Offers
           /\ terms.target_amount \in Nat \ {0}
           /\ terms.max_lenders \in Nat \ {0}
           /\ terms.collateral_amount \in Nat
           /\ terms.partial_funding \in BOOLEAN
  BY OffersAreValid DEF TypeOK, ValidOffer

(* Activated and Cancelled change the status and amounts only.             *)
LEMMA ActivatedType ==
    ASSUME NEW c \in ContractType, now \in Nat
    PROVE  /\ Activated(c) \in ContractType
           /\ Activated(c).status = "Active"
           /\ Activated(c).contributions = c.contributions
           /\ Activated(c).num_contributions = c.num_contributions
  <1> DEFINE started == [c EXCEPT !.status = "Active",
                                  !.target_amount = c.funded_amount]
             owed == [started EXCEPT !.outstanding_balance = c.funded_amount]
  <1>1. "Active" \in Statuses /\ c.funded_amount \in Nat
    BY DEF Statuses, ContractType
  <1>2. /\ started \in ContractType
        /\ started.status = "Active"
        /\ started.contributions = c.contributions
        /\ started.num_contributions = c.num_contributions
    BY <1>1 DEF ContractType
  <1>3. Activated(c) = [owed EXCEPT !.last_interest_update = now,
                                    !.last_principal_payment = now]
    BY DEF Activated
  <1> HIDE DEF started
  <1>4. /\ owed \in ContractType
        /\ owed.status = "Active"
        /\ owed.contributions = c.contributions
        /\ owed.num_contributions = c.num_contributions
    BY <1>1, <1>2 DEF ContractType
  <1> HIDE DEF owed
  <1>5. Activated(c) \in ContractType  BY <1>3, <1>4, ZenonT(40) DEF ContractType
  <1>6. /\ Activated(c).status = "Active"
        /\ Activated(c).contributions = c.contributions
        /\ Activated(c).num_contributions = c.num_contributions
    BY <1>3, <1>4 DEF ContractType
  <1> QED  BY <1>5, <1>6

LEMMA CancelledType ==
    ASSUME NEW c \in ContractType
    PROVE  /\ Cancelled(c) \in ContractType
           /\ Cancelled(c).status = "Cancelled"
           /\ Cancelled(c).funded_amount = c.funded_amount
           /\ Cancelled(c).contributions = c.contributions
  <1>1. Cancelled(c) =
          [c EXCEPT !.status = "Cancelled", !.collateral_amount = 0]
    BY DEF Cancelled
  <1>2. "Cancelled" \in Statuses /\ 0 \in Nat  BY DEF Statuses
  <1>3. Cancelled(c) \in ContractType  BY <1>1, <1>2, ZenonT(40) DEF ContractType
  <1>4. /\ Cancelled(c).status = "Cancelled"
        /\ Cancelled(c).funded_amount = c.funded_amount
        /\ Cancelled(c).contributions = c.contributions
    BY <1>1 DEF ContractType
  <1> QED  BY <1>3, <1>4

(* Steps outside the contract.                                             *)
LEMMA ElsewhereInductive ==
    ASSUME Inductive, UNCHANGED <<terms, contract, contribution, usdc>>,
           TypeOK'
    PROVE  Inductive'
  BY DEF Inductive, ListingHasRoom, ContributorsAreListed, Contributors,
         AccountHoldsFunding, UncreatedIsFresh, IsOpen

(* A listing that starts: nothing is asked any more of the amounts.        *)
LEMMA StartInductive ==
    ASSUME Inductive, IsOpen, contract' = Activated(contract),
           UNCHANGED <<terms, contribution>>, TypeOK'
    PROVE  Inductive'
  <1>1. contract \in ContractType /\ now \in Nat  BY DEF Inductive, TypeOK
  <1>2. /\ contract'.status = "Active"
        /\ contract'.contributions = contract.contributions
        /\ contract'.num_contributions = contract.num_contributions
    BY <1>1, ActivatedType
  <1>3. ContributorsAreListed'
    BY <1>2 DEF Inductive, ContributorsAreListed, Contributors, IsOpen,
                OpenStatuses
  <1> QED
    BY <1>2, <1>3 DEF Inductive, ListingHasRoom, AccountHoldsFunding,
                      UncreatedIsFresh, IsOpen, OpenStatuses

(* A listing that is cancelled keeps what is to be refunded.               *)
LEMMA CancelInductive ==
    ASSUME Inductive, IsOpen, NEW c \in ContractType,
           c.funded_amount = contract.funded_amount,
           contract' = c, c.status = "Cancelled",
           c.contributions = contract.contributions,
           UNCHANGED <<terms, contribution, usdc>>, TypeOK'
    PROVE  Inductive'
  <1>1. usdc = contract.funded_amount
    BY DEF Inductive, AccountHoldsFunding
  <1> QED
    BY <1>1 DEF Inductive, ListingHasRoom, AccountHoldsFunding, IsOpen,
                UncreatedIsFresh, ContributorsAreListed, OpenStatuses

-----------------------------------------------------------------------------
LEMMA CreateInductive ==
    ASSUME Inductive, NEW paid \in BOOLEAN, CreateDebtContract(paid)
    PROVE  Inductive'
  <1> DEFINE fee == BpsOf(terms.target_amount, ListingFeeBps)
             share == IF terms.frontend /\ paid
                      THEN BpsOf(fee, FrontendShareBps) ELSE 0
  <1>0. TypeOK  BY DEF Inductive
  <1>1. /\ terms.target_amount \in Nat \ {0} /\ terms.max_lenders \in Nat \ {0}
        /\ terms.collateral_amount \in Nat
    BY <1>0, OfferNumbers
  <1>2. fee \in Nat /\ share \in Nat /\ share <= fee
    <2>1. ListingFeeBps \in Nat /\ FrontendShareBps \in Nat
          /\ FrontendShareBps <= BpsDenom
      BY ConstantsAreNumbers
    <2>2. fee \in Nat  BY <1>1, <2>1, BpsIsNat
    <2> HIDE DEF fee
    <2>3. /\ BpsOf(fee, FrontendShareBps) \in Nat
          /\ BpsOf(fee, FrontendShareBps) <= fee
      BY <2>1, <2>2, BpsIsNat
    <2> QED  BY <2>2, <2>3
  <1>3. contract' = [NoContract EXCEPT
                       !.status = "OpenNotFunded",
                       !.target_amount = terms.target_amount,
                       !.created_at = now,
                       !.expires_at = now + ListingLife,
                       !.listing_fee_paid = fee,
                       !.collateral_amount = terms.collateral_amount]
    BY DEF CreateDebtContract
  <1>4. treasuryUsdc' = treasuryUsdc + fee - share  BY DEF CreateDebtContract
  <1> HIDE DEF fee, share
  <1>5. contract' \in ContractType
    <2>1. "OpenNotFunded" \in Statuses  BY DEF Statuses, OpenStatuses
    <2>2. now \in Nat /\ now + ListingLife \in Nat
      BY <1>0, ConstantsAreNumbers DEF TypeOK
    <2>3. NoContract \in ContractType
      BY DEF NoContract, ContractType, Statuses
    <2> QED  BY <1>1, <1>2, <1>3, <2>1, <2>2, <2>3 DEF ContractType
  <1>6. /\ contract'.status = "OpenNotFunded" /\ contract'.contributions = {}
        /\ contract'.funded_amount = 0 /\ contract'.num_contributions = 0
        /\ contract'.target_amount = terms.target_amount
    BY <1>3 DEF NoContract
  <1>7. TypeOK'
    <2>1. treasuryUsdc' \in Nat  BY <1>0, <1>2, <1>4 DEF TypeOK
    <2>2. totalDebt' \in Nat /\ collateral' \in Nat
      BY <1>0, <1>1 DEF TypeOK, CreateDebtContract
    <2> QED  BY <1>0, <1>5, <2>1, <2>2 DEF TypeOK, CreateDebtContract
  <1>8. /\ Contributors = {} /\ contribution' = contribution
        /\ usdc' = 0 /\ terms' = terms
    <2>1. contract = NoContract /\ usdc = 0
      BY DEF Inductive, UncreatedIsFresh, CreateDebtContract
    <2>2. contract.contributions = {} /\ contract.status = "Uncreated"
      BY <2>1 DEF NoContract
    <2> QED
      BY <2>1, <2>2 DEF Inductive, ContributorsAreListed, CreateDebtContract
  <1>9. ContributorsAreListed' /\ IsFiniteSet(contract'.contributions)
    BY <1>6, <1>8, FS_EmptySet DEF ContributorsAreListed, Contributors
  <1>10. ListingHasRoom'
    BY <1>1, <1>6, <1>8 DEF ListingHasRoom
  <1> QED
    BY <1>6, <1>7, <1>8, <1>9, <1>10
       DEF Inductive, AccountHoldsFunding, UncreatedIsFresh

LEMMA ContributeInductive ==
    ASSUME Inductive, NEW l \in Lenders, NEW amount \in Nat,
           ContributeToContract(l, amount)
    PROVE  Inductive'
  <1> DEFINE funded == WithContribution(contract, l, amount)
  <1>0. TypeOK /\ IsOpen /\ MayContribute(l, amount)
    BY DEF Inductive, ContributeToContract, MayContribute
  <1>1. /\ contract \in ContractType /\ now \in Nat /\ usdc \in Nat
        /\ terms.max_lenders \in Nat /\ terms.partial_funding \in BOOLEAN
        /\ usdc = contract.funded_amount
    BY <1>0, OfferNumbers DEF TypeOK, Inductive, AccountHoldsFunding
  <1>2. funded = [contract EXCEPT
                    !.funded_amount = contract.funded_amount + amount,
                    !.num_contributions = contract.num_contributions + 1,
                    !.contributions = contract.contributions \union {l}]
    BY DEF WithContribution
  <1> HIDE DEF funded
  <1>3. /\ funded \in ContractType
        /\ funded.status = contract.status
        /\ funded.target_amount = contract.target_amount
        /\ funded.funded_amount = contract.funded_amount + amount
        /\ funded.num_contributions = contract.num_contributions + 1
        /\ funded.contributions = contract.contributions \union {l}
    <2> DEFINE sum == contract.funded_amount + amount
               lenders == contract.contributions \union {l}
    <2>1. /\ sum \in Nat /\ contract.num_contributions + 1 \in Nat
          /\ lenders \in SUBSET Lenders
      BY <1>1 DEF ContractType
    <2>2. funded = [contract EXCEPT
                      !.funded_amount = sum,
                      !.num_contributions = contract.num_contributions + 1,
                      !.contributions = lenders]
      BY <1>2
    <2> HIDE DEF sum, lenders
    <2>3. funded \in ContractType  BY <1>1, <2>1, <2>2 DEF ContractType
    <2>4. /\ funded.status = contract.status
          /\ funded.target_amount = contract.target_amount
          /\ funded.funded_amount = sum
          /\ funded.num_contributions = contract.num_contributions + 1
          /\ funded.contributions = lenders
      BY <1>1, <2>2 DEF ContractType
    <2> QED  BY <2>3, <2>4 DEF sum, lenders
  <1>4. contribution' \in [Lenders -> ContributionType]
        /\ Contributors' = Contributors \union {l}
    <2>1. contribution' = [contribution EXCEPT ![l] =
                             [exists |-> TRUE, contribution_amount |-> amount,
                              is_refunded |-> FALSE,
                              last_contributed_at |-> now]]
      BY DEF ContributeToContract
    <2>2. contribution \in [Lenders -> ContributionType]  BY <1>0 DEF TypeOK
    <2>3. contribution' \in [Lenders -> ContributionType]
      BY <1>1, <2>1, <2>2 DEF ContributionType
    <2>4. /\ contribution'[l].exists /\ ~contribution'[l].is_refunded
          /\ \A k \in Lenders \ {l} : contribution'[k] = contribution[k]
      BY <2>1, <2>2
    <2> QED  BY <2>3, <2>4 DEF Contributors
  <1>5. escrow' \in [Lenders -> EscrowType]
    <2>1. escrow' = [escrow EXCEPT ![l] =
                       [NoEscrow EXCEPT !.exists = TRUE, !.usdc = escrow[l].usdc]]
      BY DEF ContributeToContract
    <2>2. escrow \in [Lenders -> EscrowType]  BY <1>0 DEF TypeOK
    <2>3. [NoEscrow EXCEPT !.exists = TRUE, !.usdc = escrow[l].usdc] \in EscrowType
      BY <2>2 DEF NoEscrow, EscrowType
    <2> QED  BY <2>1, <2>2, <2>3
  <1>6. /\ funded.contributions = Contributors'
        /\ funded.num_contributions = Cardinality(funded.contributions)
        /\ IsFiniteSet(funded.contributions)
    <2>1. /\ contract.contributions = Contributors
          /\ contract.num_contributions = Cardinality(contract.contributions)
          /\ IsFiniteSet(contract.contributions)
      BY <1>0 DEF Inductive, ContributorsAreListed, IsOpen, OpenStatuses
    <2>2. l \notin contract.contributions
      BY <1>0, <2>1 DEF MayContribute, Contributors
    <2> QED  BY <1>3, <1>4, <2>1, <2>2, FS_AddElement
  <1>7. CASE funded.funded_amount >= funded.target_amount
    <2>1. contract' = Activated(funded) /\ usdc' = usdc + amount - funded.funded_amount
          /\ MayActivate(funded, usdc + amount)
      BY <1>7 DEF ContributeToContract, funded
    <2>2. /\ contract' \in ContractType
          /\ contract'.status = "Active"
          /\ contract'.contributions = funded.contributions
          /\ contract'.num_contributions = funded.num_contributions
      BY <1>1, <1>3, <2>1, ActivatedType
    <2>3. usdc' \in Nat
      BY <1>1, <1>3, <2>1 DEF MayActivate, ContractType
    <2>4. TypeOK'
      BY <1>0, <1>4, <1>5, <2>2, <2>3 DEF TypeOK, ContributeToContract
    <2>5. ContributorsAreListed' /\ IsFiniteSet(contract'.contributions)
      BY <1>6, <2>2 DEF ContributorsAreListed
    <2> QED
      BY <2>2, <2>4, <2>5
         DEF Inductive, ListingHasRoom, AccountHoldsFunding, UncreatedIsFresh,
             IsOpen, OpenStatuses
  <1>8. CASE ~(funded.funded_amount >= funded.target_amount)
    <2> DEFINE status == IF funded.status = "OpenNotFunded"
                         THEN "OpenPartiallyFunded" ELSE funded.status
    <2>1. contract' = [funded EXCEPT !.status = status] /\ usdc' = usdc + amount
      BY <1>8 DEF ContributeToContract, funded
    <2>2. status = "OpenPartiallyFunded"
      BY <1>0, <1>3 DEF IsOpen, OpenStatuses
    <2> HIDE DEF status
    <2>3. /\ contract' \in ContractType
          /\ contract'.status = "OpenPartiallyFunded"
          /\ contract'.target_amount = funded.target_amount
          /\ contract'.funded_amount = funded.funded_amount
          /\ contract'.contributions = funded.contributions
          /\ contract'.num_contributions = funded.num_contributions
      <3>1. "OpenPartiallyFunded" \in Statuses  BY DEF Statuses, OpenStatuses
      <3> QED  BY <1>3, <2>1, <2>2, <3>1 DEF ContractType
    <2>4. TypeOK'
      <3>1. usdc' \in Nat  BY <1>1, <2>1
      <3> QED  BY <1>0, <1>4, <1>5, <2>3, <3>1 DEF TypeOK, ContributeToContract
    <2>5. ContributorsAreListed' /\ IsFiniteSet(contract'.contributions)
      BY <1>6, <2>3 DEF ContributorsAreListed
    <2>6. contract'.funded_amount < contract'.target_amount
      BY <1>3, <1>8, <2>3 DEF ContractType
    (* A contribution that leaves something missing leaves a place, too.   *)
    <2>7. contract'.num_contributions < terms'.max_lenders
      <3>1. terms' = terms  BY DEF ContributeToContract
      <3>2. terms.partial_funding
        BY <1>0, <1>1, <1>3, <1>8 DEF MayContribute, FillsListing, ContractType
      <3>3. contract.num_contributions + 1 >= terms.max_lenders =>
                amount = contract.target_amount - contract.funded_amount
        BY <1>0, <3>2 DEF MayContribute, FillsListing
      <3>4. amount # contract.target_amount - contract.funded_amount
        BY <1>1, <1>3, <1>8 DEF ContractType
      <3> QED
        BY <1>1, <1>3, <2>3, <3>1, <3>3, <3>4 DEF ContractType
    <2> QED
      BY <1>1, <1>3, <2>1, <2>3, <2>4, <2>5, <2>6, <2>7
         DEF Inductive, ListingHasRoom, AccountHoldsFunding, UncreatedIsFresh
  <1> QED  BY <1>7, <1>8

(* What withdrawals and refunds may do to an escrow.                       *)
LEMMA ResetEscrowType ==
    ASSUME TypeOK, NEW l \in Lenders
    PROVE  [escrow EXCEPT ![l] = [NoEscrow EXCEPT !.usdc = escrow[l].usdc]]
             \in [Lenders -> EscrowType]
  <1>1. escrow \in [Lenders -> EscrowType]  BY DEF TypeOK
  <1>2. [NoEscrow EXCEPT !.usdc = escrow[l].usdc] \in EscrowType
    BY <1>1 DEF NoEscrow, EscrowType
  <1> QED  BY <1>1, <1>2

LEMMA WithdrawInductive ==
    ASSUME Inductive, NEW l \in Lenders, WithdrawContribution(l)
    PROVE  Inductive'
  <1> DEFINE amount == contribution[l].contribution_amount
             funded == contract.funded_amount - amount
             status == IF funded = 0 THEN "OpenNotFunded"
                       ELSE "OpenPartiallyFunded"
             number == contract.num_contributions - 1
             lenders == contract.contributions \ {l}
  <1>0. TypeOK /\ IsOpen  BY DEF Inductive, WithdrawContribution
  <1>1. /\ contract \in ContractType /\ usdc \in Nat
        /\ contribution \in [Lenders -> ContributionType]
        /\ terms.max_lenders \in Nat
        /\ usdc = contract.funded_amount
    BY <1>0, OfferNumbers DEF TypeOK, Inductive, AccountHoldsFunding
  <1>2. /\ amount \in Nat /\ funded \in Nat /\ number \in Nat
        /\ lenders \in SUBSET Lenders
    BY <1>1 DEF ContractType, ContributionType, WithdrawContribution
  <1>3. status \in OpenStatuses  BY DEF OpenStatuses
  <1>4. contract' = [contract EXCEPT !.funded_amount = funded,
                                     !.num_contributions = number,
                                     !.contributions = lenders,
                                     !.status = status]
    BY DEF WithdrawContribution
  <1>5. l \in contract.contributions  BY DEF WithdrawContribution
  <1>6. usdc' = funded  BY <1>1 DEF WithdrawContribution
  <1>7. escrow' \in [Lenders -> EscrowType]
    BY <1>0, ResetEscrowType DEF WithdrawContribution
  <1>8. /\ contribution' \in [Lenders -> ContributionType]
        /\ Contributors' = Contributors \ {l}
    <2>1. contribution' = [contribution EXCEPT ![l] = NoContribution]
      BY DEF WithdrawContribution
    <2>2. NoContribution \in ContributionType /\ ~NoContribution.exists
      BY DEF NoContribution, ContributionType
    <2> QED  BY <1>1, <2>1, <2>2 DEF Contributors
  <1> HIDE DEF funded, status, number, lenders
  <1>9. contract' \in ContractType
    <2>1. status \in Statuses  BY <1>3 DEF Statuses
    <2> QED  BY <1>1, <1>2, <1>4, <2>1 DEF ContractType
  <1>10. /\ contract'.status = status
         /\ contract'.funded_amount = funded
         /\ contract'.num_contributions = number
         /\ contract'.contributions = lenders
         /\ contract'.target_amount = contract.target_amount
    BY <1>1, <1>4 DEF ContractType
  <1>11. TypeOK'
    BY <1>0, <1>2, <1>6, <1>7, <1>8, <1>9 DEF TypeOK, WithdrawContribution
  <1>12. ContributorsAreListed' /\ IsFiniteSet(contract'.contributions)
    <2>1. /\ contract.contributions = Contributors
          /\ contract.num_contributions = Cardinality(contract.contributions)
          /\ IsFiniteSet(contract.contributions)
      BY <1>0 DEF Inductive, ContributorsAreListed, IsOpen, OpenStatuses
    <2>2. IsFiniteSet(lenders) /\ Cardinality(lenders) = number
      BY <1>5, <2>1, FS_RemoveElement DEF lenders, number
    <2> QED
      BY <1>8, <1>10, <2>1, <2>2 DEF ContributorsAreListed, lenders
  <1>13. ListingHasRoom'
    <2>1. /\ contract.funded_amount < contract.target_amount
          /\ contract.num_contributions < terms.max_lenders
      BY <1>0 DEF Inductive, ListingHasRoom
    <2>2. funded <= contract.funded_amount /\ number < contract.num_contributions
      BY <1>1, <1>2 DEF funded, number, ContractType
    <2>3. terms' = terms  BY DEF WithdrawContribution
    <2> QED
      BY <1>1, <1>2, <1>10, <2>1, <2>2, <2>3 DEF ListingHasRoom, ContractType
  <1> QED
    BY <1>3, <1>6, <1>10, <1>11, <1>12, <1>13
       DEF Inductive, AccountHoldsFunding, UncreatedIsFresh, OpenStatuses

LEMMA RefundInductive ==
    ASSUME Inductive, NEW l \in Lenders, NEW closeEscrow \in BOOLEAN,
           RefundLender(l, closeEscrow)
    PROVE  Inductive'
  <1> DEFINE funded == contract.funded_amount
                         - contribution[l].contribution_amount
  <1>0. TypeOK /\ contract.status = "Cancelled"  BY DEF Inductive, RefundLender
  <1>1. /\ contract \in ContractType /\ usdc \in Nat
        /\ contribution \in [Lenders -> ContributionType]
        /\ usdc = contract.funded_amount
    BY <1>0 DEF TypeOK, Inductive, AccountHoldsFunding
  <1>2. funded \in Nat
    BY <1>1 DEF ContractType, ContributionType, RefundLender
  <1>3. /\ contract' = [contract EXCEPT !.funded_amount = funded]
        /\ usdc' = funded
    BY <1>1 DEF RefundLender
  <1> HIDE DEF funded
  <1>4. /\ contract' \in ContractType
        /\ contract'.status = "Cancelled"
        /\ contract'.funded_amount = funded
        /\ contract'.contributions = contract.contributions
    BY <1>0, <1>1, <1>2, <1>3 DEF ContractType
  <1>5. contribution' \in [Lenders -> ContributionType]
    <2>1. contribution' = [contribution EXCEPT ![l].is_refunded = TRUE]
      BY DEF RefundLender
    <2> QED  BY <1>1, <2>1 DEF ContributionType
  <1>6. escrow' \in [Lenders -> EscrowType]
    <2>1. CASE closeEscrow
      BY <1>0, <2>1, ResetEscrowType DEF RefundLender
    <2>2. CASE ~closeEscrow
      BY <1>0, <2>2 DEF RefundLender, TypeOK
    <2> QED  BY <2>1, <2>2
  <1>7. TypeOK'
    BY <1>0, <1>2, <1>3, <1>4, <1>5, <1>6 DEF TypeOK, RefundLender
  <1> QED
    BY <1>3, <1>4, <1>7
       DEF Inductive, ListingHasRoom, ContributorsAreListed, IsOpen,
           OpenStatuses, AccountHoldsFunding, UncreatedIsFresh

-----------------------------------------------------------------------------
LEMMA CollateralReturned ==
    ASSUME TypeOK, CollateralCovers
    PROVE  collateral - contract.collateral_amount \in Nat
  BY DEF TypeOK, ContractType, CollateralCovers

LEMMA CancelContractInductive ==
    ASSUME Inductive, CancelContract PROVE Inductive'
  <1>0. TypeOK /\ IsOpen /\ contract' = Cancelled(contract)
    BY DEF Inductive, CancelContract
  <1>1. /\ contract \in ContractType
        /\ Cancelled(contract) \in ContractType
        /\ Cancelled(contract).status = "Cancelled"
        /\ Cancelled(contract).funded_amount = contract.funded_amount
        /\ Cancelled(contract).contributions = contract.contributions
    BY <1>0, CancelledType DEF TypeOK
  <1>2. collateral' \in Nat  BY <1>0, CollateralReturned DEF CancelContract
  <1>3. TypeOK'  BY <1>0, <1>1, <1>2 DEF TypeOK, CancelContract
  <1> QED  BY <1>0, <1>1, <1>3, CancelInductive DEF CancelContract

LEMMA ExpireInductive ==
    ASSUME Inductive, ExpireContract PROVE Inductive'
  <1>0. TypeOK /\ IsOpen
        /\ UNCHANGED <<now, isPaused, terms, contribution, escrow, approved,
                       totalDebt>>
    BY DEF Inductive, ExpireContract
  <1>1. contract \in ContractType /\ now \in Nat /\ usdc \in Nat
    BY <1>0 DEF TypeOK
  <1>2. CASE ActivateExpired
    <2>1. contract' = Activated(contract) /\ contract' \in ContractType
      BY <1>1, <1>2, ActivatedType DEF ActivateExpired
    <2>2. usdc' \in Nat
      BY <1>1, <1>2 DEF ActivateExpired, MayActivate, ContractType
    <2>3. TypeOK'  BY <1>0, <1>2, <2>1, <2>2 DEF TypeOK, ActivateExpired
    <2> QED  BY <1>0, <2>1, <2>3, StartInductive
  <1>3. CASE CancelExpired
    <2> DEFINE cancelled == Cancelled(contract)
               ended == [cancelled EXCEPT !.listing_fee_paid = 0]
    <2>1. /\ cancelled \in ContractType
          /\ cancelled.status = "Cancelled"
          /\ cancelled.funded_amount = contract.funded_amount
          /\ cancelled.contributions = contract.contributions
      BY <1>1, CancelledType
    <2>2. contract' = ended /\ usdc' = usdc  BY <1>3 DEF CancelExpired
    <2> HIDE DEF cancelled
    <2>3. /\ ended \in ContractType
          /\ ended.status = "Cancelled"
          /\ ended.funded_amount = contract.funded_amount
          /\ ended.contributions = contract.contributions
      BY <2>1 DEF ContractType
    <2> HIDE DEF ended
    <2>4. collateral' \in Nat
      BY <1>0, <1>3, CollateralReturned DEF CancelExpired
    <2>5. ListingFeeRefund \in Int
      <3>1. contract.listing_fee_paid \in Nat /\ FrontendShareBps \in Nat
        BY <1>1, ConstantsAreNumbers DEF ContractType
      <3>2. BpsOf(contract.listing_fee_paid, FrontendShareBps) \in Nat
        BY <3>1, BpsIsNat
      <3> QED  BY <3>1, <3>2 DEF ListingFeeRefund
    <2>6. treasuryUsdc' \in Nat
      BY <1>0, <1>3, <2>5 DEF TypeOK, CancelExpired
    <2>7. TypeOK'  BY <1>0, <2>2, <2>3, <2>4, <2>6 DEF TypeOK
    <2> QED  BY <1>0, <2>2, <2>3, <2>7, CancelInductive
  <1> QED  BY <1>2, <1>3 DEF ExpireContract

LEMMA CloseListingInductive ==
    ASSUME Inductive, CloseListing PROVE Inductive'
  <1>0. TypeOK /\ IsOpen  BY DEF Inductive, CloseListing, IsOpen, OpenStatuses
  <1>1. contract \in ContractType /\ now \in Nat /\ usdc \in Nat
    BY <1>0 DEF TypeOK
  <1>2. contract' = Activated(contract) /\ contract' \in ContractType
    BY <1>1, ActivatedType DEF CloseListing
  <1>3. usdc' \in Nat  BY <1>1 DEF CloseListing, MayActivate, ContractType
  <1>4. TypeOK'  BY <1>0, <1>2, <1>3 DEF TypeOK, CloseListing
  <1> QED  BY <1>0, <1>2, <1>4, StartInductive DEF CloseListing

-----------------------------------------------------------------------------
LEMMA InitInductive == Init => Inductive
  <1> SUFFICES ASSUME Init PROVE Inductive
    OBVIOUS
  <1>1. NoContract \in ContractType  BY DEF NoContract, ContractType, Statuses
  <1>2. /\ NoContribution \in ContributionType /\ NoEscrow \in EscrowType
        /\ ~NoContribution.exists
    BY DEF NoContribution, ContributionType, NoEscrow, EscrowType
  <1>3. TypeOK
    BY <1>1, <1>2, ConstantsAreNumbers DEF Init, TypeOK
  <1>4. Contributors = {}  BY <1>2 DEF Init, Contributors
  <1>5. /\ contract = NoContract /\ usdc = 0 /\ contract.status = "Uncreated"
        /\ contract.contributions = {} /\ contract.num_contributions = 0
    BY DEF Init, NoContract
  <1> QED
    BY <1>3, <1>4, <1>5, FS_EmptySet
       DEF Inductive, ListingHasRoom, ContributorsAreListed,
           AccountHoldsFunding, UncreatedIsFresh, IsOpen, OpenStatuses

LEMMA BorrowerInductive ==
    ASSUME Inductive, BorrowerStep PROVE Inductive'
  <1>0. TypeOK  BY DEF Inductive
  <1>1. ASSUME NEW paid \in BOOLEAN, CreateDebtContract(paid) PROVE Inductive'
    BY <1>1, CreateInductive
  <1>2. ASSUME NEW l \in Lenders, ApproveFunder(l) \/ RevokeFunder(l)
        PROVE  Inductive'
    <2>1. TypeOK'
      BY <1>0, <1>2 DEF ApproveFunder, RevokeFunder, TypeOK
    <2> QED
      BY <1>2, <2>1, ElsewhereInductive DEF ApproveFunder, RevokeFunder
  <1>3. CASE CancelContract  BY <1>3, CancelContractInductive
  <1>4. CASE CloseListing  BY <1>4, CloseListingInductive
  <1> QED  BY <1>1, <1>2, <1>3, <1>4 DEF BorrowerStep

LEMMA LenderInductive ==
    ASSUME Inductive, LenderStep PROVE Inductive'
  <1> PICK l \in Lenders :
        \/ \E amount \in Amounts : ContributeToContract(l, amount)
        \/ WithdrawContribution(l)
        \/ \E closeEscrow \in BOOLEAN : RefundLender(l, closeEscrow)
    BY DEF LenderStep
  <1>1. ASSUME NEW amount \in Amounts, ContributeToContract(l, amount)
        PROVE  Inductive'
    BY <1>1, ContributeInductive, ConstantsAreNumbers
  <1>2. CASE WithdrawContribution(l)  BY <1>2, WithdrawInductive
  <1>3. ASSUME NEW closeEscrow \in BOOLEAN, RefundLender(l, closeEscrow)
        PROVE  Inductive'
    BY <1>3, RefundInductive
  <1> QED  BY <1>1, <1>2, <1>3

LEMMA PlatformInductive ==
    ASSUME Inductive, PlatformStep PROVE Inductive'
  <1>0. TypeOK  BY DEF Inductive
  <1>1. CASE ExpireContract  BY <1>1, ExpireInductive
  <1>2. CASE TogglePause
    <2>1. TypeOK'  BY <1>0, <1>2 DEF TogglePause, TypeOK
    <2> QED  BY <1>2, <2>1, ElsewhereInductive DEF TogglePause
  <1>3. ASSUME NEW amount \in Amounts, WithdrawFromTreasury(amount)
        PROVE  Inductive'
    <2>1. amount \in Nat  BY ConstantsAreNumbers
    <2>2. TypeOK'  BY <1>0, <1>3, <2>1 DEF WithdrawFromTreasury, TypeOK
    <2> QED  BY <1>3, <2>2, ElsewhereInductive DEF WithdrawFromTreasury
  <1>4. CASE Tick
    <2>1. TypeOK'  BY <1>0, <1>4 DEF Tick, TypeOK
    <2> QED  BY <1>4, <2>1, ElsewhereInductive DEF Tick
  <1> QED  BY <1>1, <1>2, <1>3, <1>4 DEF PlatformStep

LEMMA NextInductive == Inductive /\ [ListingNext]_vars => Inductive'
  <1> SUFFICES ASSUME Inductive, [ListingNext]_vars PROVE Inductive'
    OBVIOUS
  <1>1. CASE BorrowerStep  BY <1>1, BorrowerInductive
  <1>2. CASE LenderStep  BY <1>2, LenderInductive
  <1>3. CASE PlatformStep  BY <1>3, PlatformInductive
  <1>4. CASE UNCHANGED vars
    <2>1. TypeOK'  BY <1>4 DEF vars, Inductive, TypeOK
    <2> QED  BY <1>4, <2>1, ElsewhereInductive DEF vars
  <1> QED  BY <1>1, <1>2, <1>3, <1>4 DEF ListingNext

(* The reachable states of a listing satisfy the inductive invariant.      *)
THEOREM ListingInvariant == ListingSpec => []Inductive
  BY InitInductive, NextInductive, PTL DEF ListingSpec

(* Every account of a listing is always well formed, and neither its token *)
(* accounts nor the treasury's are ever overdrawn.                         *)
THEOREM ListingTypes == ListingSpec => []TypeOK
  BY ListingInvariant, PTL DEF Inductive

(* As long as a listing is open it can be filled: the rule for the last    *)
(* lender's amount never leaves a gap without a place.                     *)
THEOREM OpenListingsHaveRoom == ListingSpec => []ListingHasRoom
  BY ListingInvariant, PTL DEF Inductive

(* The list of contributors and its count, which the handlers keep by hand,*)
(* are those of the lenders with money in the contract, for any number of  *)
(* lenders.                                                                *)
THEOREM ContributorsAreAlwaysListed == ListingSpec => []ContributorsAreListed
  BY ListingInvariant, PTL DEF Inductive

(* Until the loan starts, and after a cancellation, the contract's account *)
(* holds funded_amount, whoever contributes, withdraws and is refunded.    *)
THEOREM FundingIsHeld == ListingSpec => []AccountHoldsFunding
  BY ListingInvariant, PTL DEF Inductive

-----------------------------------------------------------------------------
(* What the contributions of some lenders come to.                         *)
AmountTotal(c, S) == MapThenSumSet(LAMBDA l : c[l].contribution_amount, S)

AmountsOf(c, S) == [l \in S |-> c[l].contribution_amount]

LEMMA AmountTotalIs ==
    ASSUME NEW S, IsFiniteSet(S), NEW c
    PROVE  AmountTotal(c, S) = Total(AmountsOf(c, S), S)
  <1> DEFINE f == AmountsOf(c, S)
             Step(g, s) == IF s = {} THEN 0
                           ELSE c[Picked(s)].contribution_amount
                                  + g[s \ {Picked(s)}]
             IsStep(g) == g = [s \in SUBSET S |-> Step(g, s)]
  <1>1. AmountTotal(c, S) = (CHOOSE g : IsStep(g))[S]
    BY DEF AmountTotal, MapThenSumSet, MapThenFoldSet, Picked
  <1>2. \A g : \A s \in SUBSET S : NextSum(f, g, s) = Step(g, s)
    BY DEF NextSum, Picked, AmountsOf
  <1> HIDE DEF f, Step
  <1>3. \A g : IsSum(f, S, g) <=> IsStep(g)  BY <1>2 DEF IsSum
  <1>4. PICK g : IsSum(f, S, g)  BY SumExists
  <1>5. \E h : IsStep(h)  BY <1>3, <1>4
  <1> HIDE DEF IsStep
  <1>6. IsStep(CHOOSE h : IsStep(h))  BY <1>5
  <1>7. IsSum(f, S, CHOOSE h : IsStep(h))  BY <1>3, <1>6
  <1> QED  BY <1>1, <1>7, TotalIs DEF f

LEMMA AmountsAreNumbers ==
    ASSUME NEW c \in [Lenders -> ContributionType], NEW S, S \subseteq Lenders
    PROVE  \A l \in S : /\ AmountsOf(c, S)[l] = c[l].contribution_amount
                        /\ c[l].contribution_amount \in Nat
  BY DEF AmountsOf, ContributionType

LEMMA AmountTotalType ==
    ASSUME NEW c \in [Lenders -> ContributionType],
           NEW S, S \subseteq Lenders, IsFiniteSet(S)
    PROVE  AmountTotal(c, S) \in Nat
  <1>1. \A l \in S : AmountsOf(c, S)[l] \in Nat  BY AmountsAreNumbers
  <1>2. Total(AmountsOf(c, S), S) \in Nat  BY <1>1, TotalType
  <1> QED  BY <1>2, AmountTotalIs

LEMMA AmountTotalAgrees ==
    ASSUME NEW S, IsFiniteSet(S), NEW c, NEW d,
           \A l \in S : c[l].contribution_amount = d[l].contribution_amount
    PROVE  AmountTotal(c, S) = AmountTotal(d, S)
  <1>1. AmountsOf(c, S) = AmountsOf(d, S)  BY DEF AmountsOf
  <1> QED  BY <1>1, AmountTotalIs

(* A lender leaves, and takes no more along than was there.                *)
LEMMA AmountLeaves ==
    ASSUME NEW c \in [Lenders -> ContributionType],
           NEW S, S \subseteq Lenders, IsFiniteSet(S), NEW l \in S,
           NEW d, \A k \in S \ {l} :
                     d[k].contribution_amount = c[k].contribution_amount
    PROVE  /\ AmountTotal(d, S \ {l}) =
                AmountTotal(c, S) - c[l].contribution_amount
           /\ c[l].contribution_amount <= AmountTotal(c, S)
  <1> DEFINE f == AmountsOf(c, S)
             R == S \ {l}
  <1>1. \A k \in S : f[k] \in Nat  BY AmountsAreNumbers
  <1>2. f[l] = c[l].contribution_amount  BY AmountsAreNumbers
  <1>3. AmountTotal(c, S) = Total(f, S)  BY AmountTotalIs
  <1>4. IsFiniteSet(R) /\ R \subseteq S  BY FS_RemoveElement
  <1>5. \A k \in R : AmountsOf(d, R)[k] = f[k]  BY DEF AmountsOf
  <1> HIDE DEF f
  <1>6. Total(f, S) = f[l] + Total(f, R)  BY <1>1, TotalRemove
  <1>7. \A k \in R : f[k] \in Nat  BY <1>1, <1>4
  <1> HIDE DEF R
  <1>8. Total(f, R) \in Nat  BY <1>4, <1>7, TotalType
  <1>9. Total(AmountsOf(d, R), R) = Total(f, R)  BY <1>4, <1>5, TotalAgrees
  <1>10. AmountTotal(d, R) = Total(f, R)  BY <1>4, <1>9, AmountTotalIs
  <1>11. f[l] \in Nat  BY <1>1
  <1>12. /\ AmountTotal(d, R) = AmountTotal(c, S) - f[l]
         /\ f[l] <= AmountTotal(c, S)
    BY <1>3, <1>6, <1>8, <1>10, <1>11
  <1> QED  BY <1>2, <1>12 DEF R

LEMMA AmountJoins ==
    ASSUME NEW c \in [Lenders -> ContributionType],
           NEW S, S \subseteq Lenders, IsFiniteSet(S), NEW l \in Lenders \ S,
           NEW d \in [Lenders -> ContributionType],
           \A k \in S : d[k].contribution_amount = c[k].contribution_amount
    PROVE  AmountTotal(d, S \union {l}) =
             AmountTotal(c, S) + d[l].contribution_amount
  <1> DEFINE more == S \union {l}
  <1>1. IsFiniteSet(more) /\ more \subseteq Lenders /\ l \in more
        /\ more \ {l} = S
    BY FS_AddElement
  <1> HIDE DEF more
  <1>2. \A k \in more \ {l} : c[k].contribution_amount = d[k].contribution_amount
    BY <1>1
  <1>3. AmountTotal(c, more \ {l}) =
          AmountTotal(d, more) - d[l].contribution_amount
    BY <1>1, <1>2, AmountLeaves
  <1>4. AmountTotal(d, more) \in Nat  BY <1>1, AmountTotalType
  <1>5. d[l].contribution_amount \in Nat  BY DEF ContributionType
  <1>6. AmountTotal(d, more) = AmountTotal(c, S) + d[l].contribution_amount
    <2> DEFINE sum == AmountTotal(d, more)
               rest == AmountTotal(c, S)
               part == d[l].contribution_amount
    <2>1. rest = sum - part  BY <1>1, <1>3
    <2> HIDE DEF sum, rest, part
    <2>2. sum = rest + part  BY <1>4, <1>5, <2>1 DEF sum, part
    <2> QED  BY <2>2 DEF sum, rest, part
  <1> QED  BY <1>6 DEF more

-----------------------------------------------------------------------------
(* In every state, cancelled and refunded or not, funded_amount is what the*)
(* lenders who are still in the contract have put in.                      *)
FundingBooks ==
    /\ IsFiniteSet(Contributors)
    /\ contract.funded_amount = AmountTotal(contribution, Contributors)

StakesArePositive ==
    \A l \in Contributors : contribution[l].contribution_amount > 0

LEMMA TotalOfIs ==
    /\ TotalOf(Contributors) = AmountTotal(contribution, Contributors)
    /\ TotalOf(Contributors)' = AmountTotal(contribution', Contributors')
  BY DEF TotalOf, AmountTotal, MapThenSumSet, MapThenFoldSet

LEMMA BooksStay ==
    ASSUME FundingBooks, contribution' = contribution,
           contract'.funded_amount = contract.funded_amount
    PROVE  FundingBooks'
  BY DEF FundingBooks, Contributors

LEMMA ContributionIsBooked ==
    ASSUME Inductive, FundingBooks, NEW l \in Lenders, NEW amount \in Nat,
           ContributeToContract(l, amount)
    PROVE  FundingBooks'
  <1>1. /\ contribution \in [Lenders -> ContributionType]
        /\ contribution' \in [Lenders -> ContributionType]
        /\ contract \in ContractType
    <2>1. Inductive'  BY ContributeInductive
    <2> QED  BY <2>1 DEF Inductive, TypeOK
  <1>2. contribution' = [contribution EXCEPT ![l] =
                           [exists |-> TRUE, contribution_amount |-> amount,
                            is_refunded |-> FALSE, last_contributed_at |-> now]]
    BY DEF ContributeToContract
  <1>3. /\ contribution'[l].exists /\ ~contribution'[l].is_refunded
        /\ contribution'[l].contribution_amount = amount
        /\ \A k \in Lenders \ {l} : contribution'[k] = contribution[k]
    BY <1>1, <1>2
  <1>4. l \notin Contributors
    BY DEF ContributeToContract, MayContribute, Contributors
  <1>5. Contributors' = Contributors \union {l} /\ Contributors \subseteq Lenders
    BY <1>3 DEF Contributors
  <1>6. \A k \in Contributors : contribution'[k].contribution_amount =
                                  contribution[k].contribution_amount
    BY <1>3, <1>4, <1>5
  <1>7. AmountTotal(contribution', Contributors \union {l}) =
          AmountTotal(contribution, Contributors) + amount
    BY <1>1, <1>3, <1>4, <1>5, <1>6, AmountJoins DEF FundingBooks
  <1>8. contract'.funded_amount = contract.funded_amount + amount
    <2> DEFINE funded == WithContribution(contract, l, amount)
    <2>1. funded.funded_amount = contract.funded_amount + amount
      BY <1>1 DEF WithContribution, ContractType
    <2>2. CASE contract' = Activated(funded)
      BY <1>1, <2>1, <2>2 DEF Activated, WithContribution, ContractType
    <2>3. CASE contract' = [funded EXCEPT !.status =
                              IF @ = "OpenNotFunded"
                              THEN "OpenPartiallyFunded" ELSE @]
      BY <1>1, <2>1, <2>3 DEF WithContribution, ContractType
    <2> QED  BY <2>2, <2>3 DEF ContributeToContract
  <1>9. IsFiniteSet(Contributors')  BY <1>5, FS_AddElement DEF FundingBooks
  <1> QED  BY <1>5, <1>7, <1>8, <1>9 DEF FundingBooks

(* A lender's contribution is taken back or refunded.                      *)
LEMMA LeavingIsBooked ==
    ASSUME TypeOK, FundingBooks, NEW l \in Contributors,
           \A k \in Lenders \ {l} : contribution'[k] = contribution[k],
           l \notin Contributors',
           contract'.funded_amount =
             contract.funded_amount - contribution[l].contribution_amount
    PROVE  FundingBooks'
  <1>1. Contributors' = Contributors \ {l} /\ Contributors \subseteq Lenders
    BY DEF Contributors
  <1>2. IsFiniteSet(Contributors')  BY <1>1, FS_RemoveElement DEF FundingBooks
  <1>3. \A k \in Contributors \ {l} :
           contribution'[k].contribution_amount =
             contribution[k].contribution_amount
    BY <1>1
  <1>4. AmountTotal(contribution', Contributors \ {l}) =
          AmountTotal(contribution, Contributors)
            - contribution[l].contribution_amount
    BY <1>1, <1>3, AmountLeaves DEF FundingBooks, TypeOK
  <1> QED  BY <1>1, <1>2, <1>4 DEF FundingBooks

LEMMA ListingIsBooked ==
    ASSUME Inductive, FundingBooks, [ListingNext]_vars
    PROVE  FundingBooks'
  <1>0. TypeOK /\ contract \in ContractType /\ now \in Nat
        /\ contribution \in [Lenders -> ContributionType]
    BY DEF Inductive, TypeOK
  <1>1. ASSUME NEW paid \in BOOLEAN, CreateDebtContract(paid)
        PROVE  FundingBooks'
    BY <1>1, BooksStay
       DEF CreateDebtContract, NoContract, Inductive, UncreatedIsFresh
  <1>2. ASSUME UNCHANGED <<contract, contribution>> PROVE FundingBooks'
    BY <1>2, BooksStay
  <1>3. CASE CancelContract
    BY <1>0, <1>3, CancelledType, BooksStay DEF CancelContract
  <1>4. ASSUME contract' = Activated(contract), UNCHANGED contribution
        PROVE  FundingBooks'
    BY <1>0, <1>4, BooksStay DEF Activated, ContractType
  <1>5. CASE ExpireContract
    <2>1. CASE ActivateExpired
      BY <1>4, <1>5, <2>1 DEF ExpireContract, ActivateExpired
    <2>2. CASE CancelExpired
      <3>1. contract'.funded_amount = contract.funded_amount
        BY <1>0, <2>2 DEF CancelExpired, Cancelled, ContractType
      <3> QED  BY <1>5, <3>1, BooksStay DEF ExpireContract
    <2> QED  BY <1>5, <2>1, <2>2 DEF ExpireContract
  <1>6. ASSUME NEW l \in Lenders, NEW amount \in Amounts,
               ContributeToContract(l, amount)
        PROVE  FundingBooks'
    BY <1>6, ContributionIsBooked, ConstantsAreNumbers
  <1>7. ASSUME NEW l \in Lenders, WithdrawContribution(l)
        PROVE  FundingBooks'
    <2>1. l \in Contributors
      BY <1>7 DEF WithdrawContribution, Inductive, ContributorsAreListed,
                  IsOpen, OpenStatuses
    <2>2. /\ l \notin Contributors'
          /\ \A k \in Lenders \ {l} : contribution'[k] = contribution[k]
      BY <1>0, <1>7 DEF WithdrawContribution, NoContribution, Contributors
    <2>3. contract'.funded_amount =
            contract.funded_amount - contribution[l].contribution_amount
      BY <1>0, <1>7 DEF WithdrawContribution, ContractType
    <2> QED  BY <1>0, <2>1, <2>2, <2>3, LeavingIsBooked
  <1>8. ASSUME NEW l \in Lenders, NEW closeEscrow \in BOOLEAN,
               RefundLender(l, closeEscrow)
        PROVE  FundingBooks'
    <2>1. l \in Contributors  BY <1>8 DEF RefundLender, Contributors
    <2>2. contribution' = [contribution EXCEPT ![l].is_refunded = TRUE]
      BY <1>8 DEF RefundLender
    <2>3. /\ l \notin Contributors'
          /\ \A k \in Lenders \ {l} : contribution'[k] = contribution[k]
      BY <1>0, <2>2 DEF ContributionType, Contributors
    <2>4. contract'.funded_amount =
            contract.funded_amount - contribution[l].contribution_amount
      BY <1>0, <1>8 DEF RefundLender, ContractType
    <2> QED  BY <1>0, <2>1, <2>3, <2>4, LeavingIsBooked
  <1>9. CASE BorrowerStep
    BY <1>1, <1>2, <1>3, <1>4, <1>9
       DEF BorrowerStep, ApproveFunder, RevokeFunder, CloseListing
  <1>10. CASE LenderStep  BY <1>6, <1>7, <1>8, <1>10 DEF LenderStep
  <1>11. CASE PlatformStep
    BY <1>2, <1>5, <1>11
       DEF PlatformStep, TogglePause, WithdrawFromTreasury, Tick
  <1>12. CASE UNCHANGED vars  BY <1>2, <1>12 DEF vars
  <1> QED  BY <1>9, <1>10, <1>11, <1>12 DEF ListingNext

LEMMA ListingKeepsStakes ==
    ASSUME TypeOK, StakesArePositive, [ListingNext]_vars
    PROVE  StakesArePositive'
  <1>0. contribution \in [Lenders -> ContributionType]  BY DEF TypeOK
  <1>1. ASSUME NEW l \in Lenders, NEW amount \in Amounts,
               ContributeToContract(l, amount)
        PROVE  StakesArePositive'
    <2>1. /\ contribution' = [contribution EXCEPT ![l] =
                [exists |-> TRUE, contribution_amount |-> amount,
                 is_refunded |-> FALSE, last_contributed_at |-> now]]
          /\ amount > 0
      BY <1>1 DEF ContributeToContract, MayContribute
    <2> QED  BY <1>0, <2>1 DEF StakesArePositive, Contributors
  <1>2. ASSUME NEW l \in Lenders, WithdrawContribution(l)
        PROVE  StakesArePositive'
    <2>1. contribution' = [contribution EXCEPT ![l] = NoContribution]
      BY <1>2 DEF WithdrawContribution
    <2> QED
      BY <1>0, <2>1 DEF StakesArePositive, Contributors, NoContribution
  <1>3. ASSUME NEW l \in Lenders, NEW closeEscrow \in BOOLEAN,
               RefundLender(l, closeEscrow)
        PROVE  StakesArePositive'
    <2>1. contribution' = [contribution EXCEPT ![l].is_refunded = TRUE]
      BY <1>3 DEF RefundLender
    <2> QED
      BY <1>0, <2>1 DEF StakesArePositive, Contributors, ContributionType
  <1>4. ASSUME contribution' = contribution PROVE StakesArePositive'
    BY <1>4 DEF StakesArePositive, Contributors
  <1>5. CASE BorrowerStep
    BY <1>4, <1>5 DEF BorrowerStep, CreateDebtContract, ApproveFunder,
                      RevokeFunder, CancelContract, CloseListing
  <1>6. CASE LenderStep  BY <1>1, <1>2, <1>3, <1>6 DEF LenderStep
  <1>7. CASE PlatformStep
    BY <1>4, <1>7 DEF PlatformStep, ExpireContract, TogglePause,
                      WithdrawFromTreasury, Tick
  <1>8. CASE UNCHANGED vars  BY <1>4, <1>8 DEF vars
  <1> QED  BY <1>5, <1>6, <1>7, <1>8 DEF ListingNext

LEMMA InitIsBooked == Init => FundingBooks
  <1> SUFFICES ASSUME Init PROVE FundingBooks
    OBVIOUS
  <1>1. Contributors = {} /\ contract.funded_amount = 0
    BY DEF Init, Contributors, NoContribution, NoContract
  <1>2. AmountTotal(contribution, {}) = 0
    BY AmountTotalIs, TotalEmpty, FS_EmptySet
  <1> QED  BY <1>1, <1>2, FS_EmptySet DEF FundingBooks

(* A listing's books are kept by every instruction, for any lenders.       *)
THEOREM ListingBooks == ListingSpec => []FundingBooks
  <1>1. Inductive /\ FundingBooks /\ [ListingNext]_vars => FundingBooks'
    BY ListingIsBooked
  <1> QED  BY <1>1, InitIsBooked, ListingInvariant, PTL DEF ListingSpec

(* Whoever contributes, withdraws, cancels and is refunded in whatever     *)
(* order: while a listing is open, and after it is cancelled, its account  *)
(* holds exactly what the lenders still in it have put in.                 *)
THEOREM ListingIsBacked == ListingSpec => []FundingIsBacked
  <1>1. Inductive /\ FundingBooks => FundingIsBacked
    BY TotalOfIs DEF Inductive, AccountHoldsFunding, FundingBooks, FundingIsBacked
  <1> QED  BY <1>1, ListingInvariant, ListingBooks, PTL

-----------------------------------------------------------------------------
(* What the start of a loan is.                                            *)
LoanStarts ==
    LET lent == AmountTotal(contribution', contract'.contributions)
    IN  /\ contract'.outstanding_balance = lent
        /\ contract'.target_amount = lent
        /\ usdc' = 0
        /\ \/ lent = contract.target_amount
           \/ /\ terms.allow_partial_fill
              /\ lent * BpsDenom >=
                   contract.target_amount * terms.min_partial_fill_bps

LEMMA ActivatedAmounts ==
    ASSUME NEW c \in ContractType
    PROVE  /\ Activated(c).outstanding_balance = c.funded_amount
           /\ Activated(c).target_amount = c.funded_amount
           /\ Activated(c).funded_amount = c.funded_amount
  BY DEF Activated, ContractType

(* A listing that starts with c on its books, all of which the borrower    *)
(* gets.                                                                   *)
LEMMA ActivationLends ==
    ASSUME Inductive', FundingBooks', NEW c \in ContractType, now \in Nat,
           contract' = Activated(c), usdc' = 0,
           \/ c.funded_amount = contract.target_amount
           \/ /\ terms.allow_partial_fill
              /\ c.funded_amount * BpsDenom >=
                   contract.target_amount * terms.min_partial_fill_bps
    PROVE  LoanStarts
  <1>1. contract'.contributions = Contributors'
    BY ActivatedType DEF Inductive, ContributorsAreListed
  <1>2. contract'.funded_amount =
          AmountTotal(contribution', contract'.contributions)
    BY <1>1 DEF FundingBooks
  <1>3. c.funded_amount = AmountTotal(contribution', contract'.contributions)
    BY <1>2, ActivatedAmounts
  <1> QED  BY <1>3, ActivatedAmounts DEF LoanStarts

LEMMA ListingStepStarts ==
    ASSUME Inductive, FundingBooks, [ListingNext]_vars,
           IsOpen, contract'.status = "Active"
    PROVE  LoanStarts
  <1>0. /\ TypeOK /\ contract \in ContractType /\ now \in Nat /\ usdc \in Nat
        /\ usdc = contract.funded_amount
        /\ contract.funded_amount \in Nat /\ contract.target_amount \in Nat
        /\ contract.status # "Active"
    BY DEF Inductive, TypeOK, AccountHoldsFunding, ContractType, IsOpen,
           OpenStatuses
  <1>1. Inductive' /\ FundingBooks'  BY NextInductive, ListingIsBooked
  <1>2. ASSUME terms.allow_partial_fill, MetFillThreshold,
               contract' = Activated(contract),
               usdc' = usdc - contract.funded_amount
        PROVE  LoanStarts
    <2>1. usdc' = 0  BY <1>0, <1>2
    <2> QED  BY <1>0, <1>1, <1>2, <2>1, ActivationLends DEF MetFillThreshold
  <1>3. ASSUME NEW l \in Lenders, NEW amount \in Amounts,
               ContributeToContract(l, amount)
        PROVE  LoanStarts
    <2> DEFINE funded == WithContribution(contract, l, amount)
    <2>1. amount \in Nat  BY ConstantsAreNumbers
    <2>2. /\ funded \in ContractType
          /\ funded.status = contract.status
          /\ funded.target_amount = contract.target_amount
          /\ funded.funded_amount = contract.funded_amount + amount
      <3> DEFINE sum == contract.funded_amount + amount
                 number == contract.num_contributions + 1
                 lenders == contract.contributions \union {l}
      <3>1. sum \in Nat /\ number \in Nat /\ lenders \in SUBSET Lenders
        BY <1>0, <2>1 DEF ContractType
      <3>2. funded = [contract EXCEPT !.funded_amount = sum,
                                      !.num_contributions = number,
                                      !.contributions = lenders]
        BY DEF WithContribution
      <3> HIDE DEF sum, number, lenders, funded
      <3>3. funded \in ContractType  BY <1>0, <3>1, <3>2 DEF ContractType
      <3>4. /\ funded.status = contract.status
            /\ funded.target_amount = contract.target_amount
            /\ funded.funded_amount = sum
        BY <1>0, <3>2 DEF ContractType
      <3> QED  BY <3>3, <3>4 DEF sum
    <2>3. contract.funded_amount + amount <= contract.target_amount
      BY <1>3 DEF ContributeToContract, MayContribute
    <2> HIDE DEF funded
    <2>4. CASE funded.funded_amount >= funded.target_amount
      <3>1. /\ contract' = Activated(funded)
            /\ usdc' = usdc + amount - funded.funded_amount
        BY <1>3, <2>4 DEF ContributeToContract, funded
      <3>2. usdc' = 0 /\ funded.funded_amount = contract.target_amount
        BY <1>0, <2>1, <2>2, <2>3, <2>4, <3>1
      <3> QED  BY <1>0, <1>1, <2>2, <3>1, <3>2, ActivationLends
    <2>5. CASE ~(funded.funded_amount >= funded.target_amount)
      <3>1. contract' = [funded EXCEPT !.status =
                           IF @ = "OpenNotFunded"
                           THEN "OpenPartiallyFunded" ELSE @]
        BY <1>3, <2>5 DEF ContributeToContract, funded
      <3>2. contract'.status # "Active"
        BY <1>0, <2>2, <3>1 DEF ContractType
      <3> QED  BY <3>2
    <2> QED  BY <2>4, <2>5
  <1>4. ASSUME NEW l \in Lenders, WithdrawContribution(l) PROVE FALSE
    BY <1>0, <1>4 DEF WithdrawContribution, ContractType
  <1>5. CASE ExpireContract
    <2>1. CASE ActivateExpired
      BY <1>2, <2>1 DEF ActivateExpired, ShouldActivateOnExpiry
    <2>2. CASE CancelExpired
      <3>1. contract'.status = "Cancelled"
        BY <1>0, <2>2 DEF CancelExpired, Cancelled, ContractType
      <3> QED  BY <3>1
    <2> QED  BY <1>5, <2>1, <2>2 DEF ExpireContract
  <1>6. CASE BorrowerStep
    <2>1. CASE CancelContract
      <3>1. contract'.status = "Cancelled"
        BY <1>0, <2>1, CancelledType DEF CancelContract
      <3> QED  BY <3>1
    <2>2. CASE CloseListing  BY <1>2, <2>2 DEF CloseListing
    <2>3. ASSUME NEW paid \in BOOLEAN, CreateDebtContract(paid) PROVE FALSE
      BY <2>3 DEF CreateDebtContract, IsOpen, OpenStatuses
    <2> QED
      BY <1>0, <1>6, <2>1, <2>2, <2>3
         DEF BorrowerStep, ApproveFunder, RevokeFunder
  <1>7. CASE LenderStep
    BY <1>0, <1>3, <1>4, <1>7
       DEF LenderStep, RefundLender, IsOpen, OpenStatuses
  <1>8. CASE PlatformStep
    BY <1>0, <1>5, <1>8 DEF PlatformStep, TogglePause, WithdrawFromTreasury, Tick
  <1>9. CASE UNCHANGED vars  BY <1>0, <1>9 DEF vars
  <1> QED  BY <1>6, <1>7, <1>8, <1>9 DEF ListingNext

(* However a loan starts, with the last contribution, by close_listing or  *)
(* at expiry, and however many lenders there are: it is for what they put  *)
(* in, the borrower is paid all of it, and it is what was asked for or at  *)
(* least the threshold.                                                    *)
THEOREM LoanStartsAsLent == ListingSpec => LoanIsWhatWasLent
  <1> DEFINE Starts == IsOpen /\ contract'.status = "Active" => LoanStarts
  <1>1. Inductive /\ FundingBooks /\ [ListingNext]_vars => [Starts]_vars
    BY ListingStepStarts
  <1>2. [][Starts]_vars => LoanIsWhatWasLent
    <2>1. [Starts]_vars =>
            [(IsOpen /\ contract'.status = "Active") =>
               LET lent == MapThenSumSet(
                             LAMBDA l : contribution'[l].contribution_amount,
                             contract'.contributions)
               IN  /\ contract'.outstanding_balance = lent
                   /\ contract'.target_amount = lent
                   /\ usdc' = 0
                   /\ \/ lent = contract.target_amount
                      \/ /\ terms.allow_partial_fill
                         /\ lent * BpsDenom >=
                              contract.target_amount
                                * terms.min_partial_fill_bps]_vars
      BY DEF LoanStarts, AmountTotal, MapThenSumSet, MapThenFoldSet
    <2> QED  BY <2>1, PTL DEF LoanIsWhatWasLent
  <1> QED  BY <1>1, <1>2, ListingInvariant, ListingBooks, PTL DEF ListingSpec

-----------------------------------------------------------------------------
(* Moves between statuses, one step at a time.                             *)
StatusMoves ==
    contract'.status # contract.status =>
        contract'.status \in ValidTransitions(contract.status)

LEMMA OpenMoves ==
    ASSUME IsOpen, contract'.status \in OpenStatuses \union {"Active", "Cancelled"}
    PROVE  StatusMoves
  BY DEF StatusMoves, ValidTransitions, IsOpen, OpenStatuses

LEMMA ListingStepMoves == Inductive /\ [ListingNext]_vars => StatusMoves
  <1> SUFFICES ASSUME Inductive, [ListingNext]_vars PROVE StatusMoves
    OBVIOUS
  <1>0. TypeOK /\ contract \in ContractType /\ now \in Nat
    BY DEF Inductive, TypeOK
  <1>1. ASSUME NEW paid \in BOOLEAN, CreateDebtContract(paid) PROVE StatusMoves
    <2>1. contract'.status = "OpenNotFunded" /\ contract.status = "Uncreated"
      BY <1>1 DEF CreateDebtContract, NoContract
    <2> QED  BY <2>1 DEF StatusMoves, ValidTransitions
  <1>2. CASE CancelContract
    <2>1. IsOpen /\ contract'.status = "Cancelled"
      BY <1>0, <1>2, CancelledType DEF CancelContract
    <2> QED  BY <2>1, OpenMoves
  <1>3. CASE CloseListing
    <2>1. IsOpen /\ contract'.status = "Active"
      BY <1>0, <1>3, ActivatedType DEF CloseListing, IsOpen, OpenStatuses
    <2> QED  BY <2>1, OpenMoves
  <1>4. CASE ExpireContract
    <2>1. CASE ActivateExpired
      <3>1. IsOpen /\ contract'.status = "Active"
        BY <1>0, <1>4, <2>1, ActivatedType DEF ExpireContract, ActivateExpired
      <3> QED  BY <3>1, OpenMoves
    <2>2. CASE CancelExpired
      <3>1. contract' = [Cancelled(contract) EXCEPT !.listing_fee_paid = 0]
            /\ IsOpen
        BY <1>4, <2>2 DEF ExpireContract, CancelExpired
      <3>2. Cancelled(contract) \in ContractType
            /\ Cancelled(contract).status = "Cancelled"
        BY <1>0, CancelledType
      <3>3. contract'.status = "Cancelled"  BY <3>1, <3>2 DEF ContractType
      <3> QED  BY <3>1, <3>3, OpenMoves
    <2> QED  BY <1>4, <2>1, <2>2 DEF ExpireContract
  <1>5. ASSUME NEW l \in Lenders, NEW amount \in Amounts,
               ContributeToContract(l, amount)
        PROVE  StatusMoves
    <2> DEFINE funded == WithContribution(contract, l, amount)
    <2>1. IsOpen  BY <1>5 DEF ContributeToContract, MayContribute
    <2>2. funded.status = contract.status
      BY <1>0 DEF WithContribution, ContractType
    <2>3. CASE contract' = Activated(funded)
      <3>1. contract'.status = "Active"
        BY <1>0, <2>3 DEF Activated, WithContribution, ContractType
      <3> QED  BY <2>1, <3>1, OpenMoves
    <2>4. CASE contract' = [funded EXCEPT !.status =
                              IF @ = "OpenNotFunded"
                              THEN "OpenPartiallyFunded" ELSE @]
      <3>1. contract'.status \in OpenStatuses
        BY <1>0, <2>1, <2>2, <2>4
           DEF WithContribution, ContractType, IsOpen, OpenStatuses
      <3> QED  BY <2>1, <3>1, OpenMoves
    <2> QED  BY <1>5, <2>3, <2>4 DEF ContributeToContract
  <1>6. ASSUME NEW l \in Lenders, WithdrawContribution(l) PROVE StatusMoves
    <2>1. IsOpen /\ contract'.status \in OpenStatuses
      BY <1>0, <1>6 DEF WithdrawContribution, ContractType, OpenStatuses
    <2> QED  BY <2>1, OpenMoves
  <1>7. ASSUME NEW l \in Lenders, NEW closeEscrow \in BOOLEAN,
               RefundLender(l, closeEscrow)
        PROVE  StatusMoves
    BY <1>0, <1>7 DEF RefundLender, StatusMoves, ContractType
  <1>8. ASSUME UNCHANGED contract PROVE StatusMoves
    BY <1>8 DEF StatusMoves
  <1>9. CASE BorrowerStep
    BY <1>1, <1>2, <1>3, <1>8, <1>9 DEF BorrowerStep, ApproveFunder, RevokeFunder
  <1>10. CASE LenderStep  BY <1>5, <1>6, <1>7, <1>10 DEF LenderStep
  <1>11. CASE PlatformStep
    BY <1>4, <1>8, <1>11
       DEF PlatformStep, TogglePause, WithdrawFromTreasury, Tick
  <1>12. CASE UNCHANGED vars  BY <1>8, <1>12 DEF vars
  <1> QED  BY <1>9, <1>10, <1>11, <1>12 DEF ListingNext

(* However listings are funded, cancelled, closed and expire, the status   *)
(* makes only the moves ContractStatus::valid_transitions lists, which no  *)
(* handler asks.                                                           *)
THEOREM ListingMovesAsDocumented == ListingSpec => StatusMovesAsDocumented
  <1>1. Inductive /\ [ListingNext]_vars => [StatusMoves]_vars
    BY ListingStepMoves
  <1>2. [][StatusMoves]_vars => StatusMovesAsDocumented
    BY PTL DEF StatusMovesAsDocumented, StatusMoves
  <1> QED  BY <1>1, <1>2, ListingInvariant, PTL DEF ListingSpec

-----------------------------------------------------------------------------
(* 2. A listing implements Fundraising.                                    *)
-----------------------------------------------------------------------------
(* What the refinement needs besides the invariant of the listing: the     *)
(* goal on the books is the one the borrower set, and no stake is empty.   *)
BooksNameTheGoal ==
    IsOpen => contract.target_amount = terms.target_amount

Strong == Inductive /\ BooksNameTheGoal /\ StakesArePositive

Stakes == [l \in Lenders |-> IF l \in Contributors
                             THEN contribution[l].contribution_amount
                             ELSE 0]

-----------------------------------------------------------------------------
(* Rounding up: the threshold in units is met when the threshold in basis  *)
(* points is.                                                              *)
LEMMA RoundedUpIsLeast ==
    ASSUME NEW a \in Nat, NEW b \in Nat, NEW d \in Nat \ {0}, a * d >= b
    PROVE  /\ (b + d - 1) \div d \in Nat
           /\ (b + d - 1) \div d <= a
  <1> DEFINE q == (b + d - 1) \div d
             r == (b + d - 1) % d
  <1>1. b + d - 1 \in Nat  OBVIOUS
  <1>2. q \in Nat /\ r \in 0 .. (d - 1) /\ b + d - 1 = d * q + r
    BY <1>1
  <1> HIDE DEF q, r
  <1>3. SUFFICES ASSUME q >= a + 1 PROVE FALSE
    BY <1>2 DEF q
  <1>4. d * q >= d * (a + 1)  BY <1>2, <1>3
  <1>5. d * (a + 1) = a * d + d  OBVIOUS
  <1>6. d * q \in Nat /\ a * d \in Nat  BY <1>2
  <1> QED  BY <1>2, <1>4, <1>5, <1>6

LEMMA LeastFillIsMet ==
    ASSUME TypeOK, NEW a \in Nat, terms.allow_partial_fill,
           a * BpsDenom >= terms.target_amount * terms.min_partial_fill_bps
    PROVE  LeastFill <= a
  <1> DEFINE wanted == terms.target_amount * terms.min_partial_fill_bps
  <1>1. terms.target_amount \in Nat /\ terms.min_partial_fill_bps \in Nat
    BY OffersAreValid, ConstantsAreNumbers DEF TypeOK, ValidOffer
  <1>2. BpsDenom \in Nat \ {0}  BY ConstantsAreNumbers
  <1>3. wanted \in Nat /\ a * BpsDenom >= wanted  BY <1>1
  <1>4. LeastFill = (wanted + BpsDenom - 1) \div BpsDenom  BY DEF LeastFill
  <1> HIDE DEF wanted
  <1> QED  BY <1>2, <1>3, <1>4, RoundedUpIsLeast

LEMMA LeastFillIsPossible ==
    ASSUME terms \in Offers
    PROVE  LeastFill \in 0 .. terms.target_amount
  <1> DEFINE wanted == terms.target_amount * terms.min_partial_fill_bps
  <1>1. terms.target_amount \in Nat /\ BpsDenom \in Nat \ {0}
    BY OffersAreValid, ConstantsAreNumbers DEF ValidOffer
  <1>2. CASE terms.allow_partial_fill
    <2>1. terms.min_partial_fill_bps \in 1 .. BpsDenom
      BY <1>2, OffersAreValid DEF ValidOffer
    <2>2. wanted \in Nat /\ terms.target_amount * BpsDenom >= wanted
      BY <1>1, <2>1
    <2>3. LeastFill = (wanted + BpsDenom - 1) \div BpsDenom
      BY <1>2 DEF LeastFill
    <2> HIDE DEF wanted
    <2>4. /\ (wanted + BpsDenom - 1) \div BpsDenom \in Nat
          /\ (wanted + BpsDenom - 1) \div BpsDenom <= terms.target_amount
      BY <1>1, <2>2, RoundedUpIsLeast
    <2> QED  BY <1>1, <2>3, <2>4
  <1>3. CASE ~terms.allow_partial_fill
    BY <1>1, <1>3 DEF LeastFill
  <1> QED  BY <1>2, <1>3

LEMMA PhaseOfStatus ==
    /\ contract.status = "Uncreated" => Phase = "unlisted"
    /\ IsOpen => Phase = "open"
    /\ contract.status = "Cancelled" => Phase = "cancelled"
    /\ contract.status = "Active" => Phase = "lent"
  BY DEF Phase, IsOpen, OpenStatuses

LEMMA NextPhaseOfStatus ==
    /\ IsOpen' => Phase' = "open"
    /\ contract'.status = "Cancelled" => Phase' = "cancelled"
    /\ contract'.status = "Active" => Phase' = "lent"
  BY DEF Phase, IsOpen, OpenStatuses

(* What a lender's step does to the stakes.                                *)
LEMMA StakesChange ==
    ASSUME NEW l \in Lenders, NEW amount,
           \A k \in Lenders \ {l} : contribution'[k] = contribution[k],
           IF l \in Contributors'
           THEN contribution'[l].contribution_amount = amount
           ELSE amount = 0
    PROVE  Stakes' = [Stakes EXCEPT ![l] = amount]
  BY DEF Stakes, Contributors

LEMMA StakesStay ==
    ASSUME UNCHANGED contribution
    PROVE  Stakes' = Stakes /\ Contributors' = Contributors
  BY DEF Stakes, Contributors

LEMMA GoalStays ==
    ASSUME UNCHANGED terms
    PROVE  terms.target_amount' = terms.target_amount /\ LeastFill' = LeastFill
  BY DEF LeastFill

-----------------------------------------------------------------------------
(* One lemma per kind of step: what the refinement needs is preserved, and *)
(* the step is one of Fundraising.                                         *)
LEMMA CreateLists ==
    ASSUME Strong, NEW paid \in BOOLEAN, CreateDebtContract(paid)
    PROVE  BooksNameTheGoal' /\ StakesArePositive' /\ Raising!List
  <1>1. /\ UNCHANGED <<terms, contribution, usdc>>
        /\ contract.status = "Uncreated"
        /\ contract'.status = "OpenNotFunded"
        /\ contract'.target_amount = terms.target_amount
        /\ contract'.outstanding_balance = 0
    BY DEF CreateDebtContract, NoContract
  <1>2. contract.outstanding_balance = 0
    BY <1>1 DEF Strong, Inductive, UncreatedIsFresh, NoContract
  <1>3. Phase = "unlisted" /\ Phase' = "open"
    BY <1>1, PhaseOfStatus, NextPhaseOfStatus DEF IsOpen, OpenStatuses
  <1>4. BooksNameTheGoal'  BY <1>1 DEF BooksNameTheGoal
  <1>5. StakesArePositive'
    BY <1>1, StakesStay DEF Strong, StakesArePositive
  <1>6. Raising!List
    BY <1>1, <1>2, <1>3, StakesStay, GoalStays DEF Raising!List, Stakes
  <1> QED  BY <1>4, <1>5, <1>6

(* The loan starts, with what is on the books, which is what is held.      *)
LEMMA ActivationStarts ==
    ASSUME Strong, IsOpen, terms.allow_partial_fill, MetFillThreshold,
           contract' = Activated(contract),
           usdc' = usdc - contract.funded_amount,
           UNCHANGED <<terms, contribution>>
    PROVE  BooksNameTheGoal' /\ StakesArePositive' /\ Raising!Start
  <1>1. /\ TypeOK /\ contract \in ContractType /\ now \in Nat /\ usdc \in Nat
        /\ usdc = contract.funded_amount
        /\ contract.target_amount = terms.target_amount
    BY DEF Strong, Inductive, TypeOK, AccountHoldsFunding, BooksNameTheGoal
  <1>2. /\ contract'.status = "Active"
        /\ contract'.outstanding_balance = contract.funded_amount
    BY <1>1 DEF Activated, ContractType
  <1>3. Phase = "open" /\ Phase' = "lent"
    BY <1>2, PhaseOfStatus, NextPhaseOfStatus
  <1>4. usdc > 0 /\ usdc >= LeastFill
    <2>1. usdc * BpsDenom >= terms.target_amount * terms.min_partial_fill_bps
      BY <1>1 DEF MetFillThreshold
    <2>2. LeastFill <= usdc  BY <1>1, <2>1, LeastFillIsMet
    <2>3. LeastFill \in Nat
      BY <1>1, LeastFillIsPossible DEF TypeOK
    <2> QED  BY <1>1, <2>2, <2>3 DEF MetFillThreshold
  <1>5. usdc' = 0  BY <1>1
  <1>6. BooksNameTheGoal'
    BY <1>2 DEF BooksNameTheGoal, IsOpen, OpenStatuses
  <1>7. StakesArePositive'  BY StakesStay DEF Strong, StakesArePositive
  <1>8. Raising!Start
    BY <1>1, <1>2, <1>3, <1>4, <1>5, StakesStay, GoalStays
       DEF Raising!Start, Stakes
  <1> QED  BY <1>6, <1>7, <1>8

LEMMA CancellationCancels ==
    ASSUME Strong, IsOpen, contract'.status = "Cancelled",
           contract'.outstanding_balance = contract.outstanding_balance,
           UNCHANGED <<terms, contribution, usdc>>
    PROVE  BooksNameTheGoal' /\ StakesArePositive' /\ Raising!Cancel
  <1>1. Phase = "open" /\ Phase' = "cancelled"
    BY PhaseOfStatus, NextPhaseOfStatus
  <1>2. BooksNameTheGoal'  BY DEF BooksNameTheGoal, IsOpen, OpenStatuses
  <1>3. StakesArePositive'  BY StakesStay DEF Strong, StakesArePositive
  <1>4. Raising!Cancel
    BY <1>1, StakesStay, GoalStays DEF Raising!Cancel, Stakes
  <1> QED  BY <1>2, <1>3, <1>4

LEMMA ContributionStakes ==
    ASSUME Strong, NEW l \in Lenders, NEW amount \in Nat,
           ContributeToContract(l, amount)
    PROVE  /\ BooksNameTheGoal' /\ StakesArePositive'
           /\ amount \in 1 .. terms.target_amount
           /\ Raising!Stake(l, amount)
  <1> DEFINE funded == WithContribution(contract, l, amount)
  <1>1. /\ contract \in ContractType /\ usdc \in Nat
        /\ contribution \in [Lenders -> ContributionType]
        /\ IsOpen /\ MayContribute(l, amount)
        /\ UNCHANGED terms
    BY DEF Strong, Inductive, TypeOK, ContributeToContract, MayContribute
  <1>2. /\ usdc = contract.funded_amount
        /\ contract.target_amount = terms.target_amount
    BY <1>1 DEF Strong, Inductive, AccountHoldsFunding, BooksNameTheGoal
  <1>3. /\ ~contribution[l].exists
        /\ amount > 0
        /\ contract.funded_amount + amount <= contract.target_amount
        /\ terms.target_amount \in Nat
    BY <1>1, <1>2 DEF MayContribute, ContractType
  <1>4. /\ usdc + amount <= terms.target_amount
        /\ amount \in 1 .. terms.target_amount
    BY <1>1, <1>2, <1>3
  <1>5. contribution' = [contribution EXCEPT ![l] =
                           [exists |-> TRUE, contribution_amount |-> amount,
                            is_refunded |-> FALSE, last_contributed_at |-> now]]
    BY DEF ContributeToContract
  <1>6. /\ contribution'[l].exists /\ ~contribution'[l].is_refunded
        /\ contribution'[l].contribution_amount = amount
        /\ \A k \in Lenders \ {l} : contribution'[k] = contribution[k]
    BY <1>1, <1>5
  <1>7. l \in Contributors' /\ l \notin Contributors
    BY <1>3, <1>6 DEF Contributors
  <1>8. Stakes' = [Stakes EXCEPT ![l] = amount] /\ Stakes[l] = 0
    BY <1>6, <1>7, StakesChange DEF Stakes
  <1>9. StakesArePositive'
    BY <1>3, <1>6 DEF Strong, StakesArePositive, Contributors
  <1>10. /\ funded.target_amount = terms.target_amount
         /\ funded.funded_amount = usdc + amount
         /\ funded.outstanding_balance = contract.outstanding_balance
         /\ funded.status = contract.status
    BY <1>1, <1>2 DEF WithContribution, ContractType
  <1>11. Phase = "open"  BY <1>1, PhaseOfStatus
  <1>12. CASE usdc + amount = terms.target_amount
    <2>1. /\ contract' = Activated(funded)
          /\ usdc' = usdc + amount - funded.funded_amount
      BY <1>1, <1>4, <1>10, <1>12 DEF ContributeToContract
    <2>2. /\ contract'.status = "Active"
          /\ contract'.outstanding_balance = terms.target_amount
      BY <1>1, <1>10, <1>12, <2>1 DEF Activated, WithContribution, ContractType
    <2>3. usdc' = 0  BY <1>1, <1>3, <1>10, <2>1
    <2>4. Phase' = "lent"  BY <2>2, NextPhaseOfStatus
    <2>5. BooksNameTheGoal'
      BY <2>2 DEF BooksNameTheGoal, IsOpen, OpenStatuses
    <2>6. Raising!Stake(l, amount)
      BY <1>1, <1>3, <1>4, <1>8, <1>11, <1>12, <2>2, <2>3, <2>4, GoalStays
         DEF Raising!Stake, Stakes
    <2> QED  BY <1>4, <1>9, <2>5, <2>6
  <1>13. CASE usdc + amount # terms.target_amount
    <2>1. /\ contract' = [funded EXCEPT !.status =
                            IF @ = "OpenNotFunded"
                            THEN "OpenPartiallyFunded" ELSE @]
          /\ usdc' = usdc + amount
      BY <1>1, <1>3, <1>4, <1>10, <1>13 DEF ContributeToContract
    <2>2. /\ contract'.status \in OpenStatuses
          /\ contract'.outstanding_balance = contract.outstanding_balance
          /\ contract'.target_amount = terms.target_amount
      BY <1>1, <1>2, <1>10, <2>1
         DEF WithContribution, ContractType, IsOpen, OpenStatuses
    <2>3. Phase' = "open"  BY <2>2, NextPhaseOfStatus DEF IsOpen
    <2>4. BooksNameTheGoal'  BY <1>1, <2>2 DEF BooksNameTheGoal
    <2>5. Raising!Stake(l, amount)
      BY <1>1, <1>3, <1>4, <1>8, <1>11, <1>13, <2>1, <2>2, <2>3, GoalStays
         DEF Raising!Stake, Stakes
    <2> QED  BY <1>4, <1>9, <2>4, <2>5
  <1> QED  BY <1>12, <1>13

LEMMA WithdrawalUnstakes ==
    ASSUME Strong, NEW l \in Lenders, WithdrawContribution(l)
    PROVE  BooksNameTheGoal' /\ StakesArePositive' /\ Raising!Unstake(l)
  <1>1. /\ contract \in ContractType /\ usdc \in Nat
        /\ contribution \in [Lenders -> ContributionType]
        /\ IsOpen /\ UNCHANGED terms
        /\ usdc' = usdc - contribution[l].contribution_amount
        /\ contribution' = [contribution EXCEPT ![l] = NoContribution]
    BY DEF Strong, Inductive, TypeOK, WithdrawContribution
  <1>2. l \in Contributors
    BY <1>1 DEF Strong, Inductive, ContributorsAreListed, IsOpen, OpenStatuses,
                WithdrawContribution
  <1>3. contribution[l].contribution_amount > 0
    BY <1>2 DEF Strong, StakesArePositive
  <1>4. /\ contract'.status \in OpenStatuses
        /\ contract'.outstanding_balance = contract.outstanding_balance
        /\ contract'.target_amount = contract.target_amount
    BY <1>1 DEF WithdrawContribution, ContractType, OpenStatuses
  <1>5. /\ ~contribution'[l].exists
        /\ \A k \in Lenders \ {l} : contribution'[k] = contribution[k]
    BY <1>1 DEF NoContribution
  <1>6. /\ Stakes' = [Stakes EXCEPT ![l] = 0]
        /\ Stakes[l] = contribution[l].contribution_amount
    BY <1>2, <1>5, StakesChange DEF Stakes, Contributors
  <1>7. Phase = "open" /\ Phase' = "open"
    BY <1>1, <1>4, PhaseOfStatus, NextPhaseOfStatus DEF IsOpen
  <1>8. BooksNameTheGoal'
    BY <1>1, <1>4 DEF Strong, BooksNameTheGoal
  <1>9. StakesArePositive'
    BY <1>5 DEF Strong, StakesArePositive, Contributors
  <1>10. Raising!Unstake(l)
    BY <1>1, <1>3, <1>4, <1>6, <1>7, GoalStays DEF Raising!Unstake, Stakes
  <1> QED  BY <1>8, <1>9, <1>10

LEMMA RefundRefunds ==
    ASSUME Strong, NEW l \in Lenders, NEW closeEscrow \in BOOLEAN,
           RefundLender(l, closeEscrow)
    PROVE  BooksNameTheGoal' /\ StakesArePositive' /\ Raising!Refund(l)
  <1>1. /\ contract \in ContractType
        /\ contribution \in [Lenders -> ContributionType]
        /\ contract.status = "Cancelled" /\ UNCHANGED terms
        /\ usdc' = usdc - contribution[l].contribution_amount
        /\ contribution' = [contribution EXCEPT ![l].is_refunded = TRUE]
        /\ l \in Contributors
    BY DEF Strong, Inductive, TypeOK, RefundLender, Contributors
  <1>2. contribution[l].contribution_amount > 0
    BY <1>1 DEF Strong, StakesArePositive
  <1>3. /\ contract'.status = "Cancelled"
        /\ contract'.outstanding_balance = contract.outstanding_balance
    BY <1>1 DEF RefundLender, ContractType
  <1>4. /\ contribution'[l].is_refunded
        /\ \A k \in Lenders \ {l} : contribution'[k] = contribution[k]
    BY <1>1 DEF ContributionType
  <1>5. /\ Stakes' = [Stakes EXCEPT ![l] = 0]
        /\ Stakes[l] = contribution[l].contribution_amount
    BY <1>1, <1>4, StakesChange DEF Stakes, Contributors
  <1>6. Phase = "cancelled" /\ Phase' = "cancelled"
    BY <1>1, <1>3, PhaseOfStatus, NextPhaseOfStatus
  <1>7. BooksNameTheGoal'
    BY <1>3 DEF BooksNameTheGoal, IsOpen, OpenStatuses
  <1>8. StakesArePositive'
    BY <1>4 DEF Strong, StakesArePositive, Contributors
  <1>9. Raising!Refund(l)
    BY <1>1, <1>2, <1>3, <1>5, <1>6, GoalStays DEF Raising!Refund, Stakes
  <1> QED  BY <1>7, <1>8, <1>9

(* Steps that the abstract listing does not see.                           *)
LEMMA ElsewhereStutters ==
    ASSUME Strong, UNCHANGED <<terms, contract, contribution, usdc>>
    PROVE  /\ BooksNameTheGoal' /\ StakesArePositive'
           /\ UNCHANGED Raising!fundVars
  <1>1. BooksNameTheGoal'  BY DEF Strong, BooksNameTheGoal, IsOpen
  <1>2. StakesArePositive'  BY StakesStay DEF Strong, StakesArePositive
  <1>3. Phase' = Phase  BY DEF Phase, IsOpen
  <1>4. UNCHANGED Raising!fundVars
    BY <1>3, StakesStay, GoalStays DEF Raising!fundVars, Stakes
  <1> QED  BY <1>1, <1>2, <1>4

-----------------------------------------------------------------------------
LEMMA InitRaises == Init => Strong /\ Raising!Init
  <1> SUFFICES ASSUME Init PROVE Strong /\ Raising!Init
    OBVIOUS
  <1>1. Inductive  BY InitInductive
  <1>2. /\ contract.status = "Uncreated" /\ contract.outstanding_balance = 0
        /\ usdc = 0 /\ terms \in Offers
    BY DEF Init, NoContract
  <1>3. Contributors = {}  BY DEF Init, Contributors, NoContribution
  <1>4. BooksNameTheGoal /\ StakesArePositive
    BY <1>2, <1>3 DEF BooksNameTheGoal, StakesArePositive, IsOpen, OpenStatuses
  <1>5. /\ Phase = "unlisted"
        /\ terms.target_amount \in Nat
        /\ LeastFill \in 0 .. terms.target_amount
    BY <1>2, PhaseOfStatus, LeastFillIsPossible, OffersAreValid DEF ValidOffer
  <1>6. Raising!Init  BY <1>2, <1>3, <1>5 DEF Raising!Init
  <1> QED  BY <1>1, <1>4, <1>6 DEF Strong

LEMMA StepRaises ==
    ASSUME Strong, [ListingNext]_vars
    PROVE  Strong' /\ [Raising!Next]_(Raising!fundVars)
  <1>0. Inductive'  BY NextInductive DEF Strong
  <1> DEFINE Goal == /\ BooksNameTheGoal' /\ StakesArePositive'
                     /\ [Raising!Next]_(Raising!fundVars)
  <1> SUFFICES Goal  BY <1>0 DEF Strong
  <1>1. ASSUME NEW paid \in BOOLEAN, CreateDebtContract(paid) PROVE Goal
    BY <1>1, CreateLists DEF Raising!Next
  <1>2. ASSUME UNCHANGED <<terms, contract, contribution, usdc>> PROVE Goal
    BY <1>2, ElsewhereStutters
  <1>3. CASE CancelContract
    <2>1. /\ IsOpen /\ contract'.status = "Cancelled"
          /\ contract'.outstanding_balance = contract.outstanding_balance
          /\ UNCHANGED <<terms, contribution, usdc>>
      BY <1>3 DEF CancelContract, Cancelled, Strong, Inductive, TypeOK,
                  ContractType
    <2> QED  BY <2>1, CancellationCancels DEF Raising!Next
  <1>4. CASE CloseListing
    <2>1. IsOpen  BY <1>4 DEF CloseListing, IsOpen, OpenStatuses
    <2> QED
      BY <1>4, <2>1, ActivationStarts DEF CloseListing, Raising!Next
  <1>5. CASE ExpireContract
    <2>1. CASE ActivateExpired
      BY <1>5, <2>1, ActivationStarts
         DEF ExpireContract, ActivateExpired, ShouldActivateOnExpiry,
             Raising!Next
    <2>2. CASE CancelExpired
      <3>1. /\ IsOpen /\ contract'.status = "Cancelled"
            /\ contract'.outstanding_balance = contract.outstanding_balance
            /\ UNCHANGED <<terms, contribution, usdc>>
        BY <1>5, <2>2 DEF ExpireContract, CancelExpired, Cancelled, Strong,
                          Inductive, TypeOK, ContractType
      <3> QED  BY <3>1, CancellationCancels DEF Raising!Next
    <2> QED  BY <1>5, <2>1, <2>2 DEF ExpireContract
  <1>6. ASSUME NEW l \in Lenders, NEW amount \in Amounts,
               ContributeToContract(l, amount)
        PROVE  Goal
    <2>1. amount \in Nat  BY ConstantsAreNumbers
    <2> QED  BY <1>6, <2>1, ContributionStakes DEF Raising!Next
  <1>7. ASSUME NEW l \in Lenders, WithdrawContribution(l) PROVE Goal
    BY <1>7, WithdrawalUnstakes DEF Raising!Next
  <1>8. ASSUME NEW l \in Lenders, NEW closeEscrow \in BOOLEAN,
               RefundLender(l, closeEscrow)
        PROVE  Goal
    BY <1>8, RefundRefunds DEF Raising!Next
  <1> HIDE DEF Goal
  <1>9. CASE BorrowerStep
    BY <1>1, <1>2, <1>3, <1>4, <1>9
       DEF BorrowerStep, ApproveFunder, RevokeFunder
  <1>10. CASE LenderStep  BY <1>6, <1>7, <1>8, <1>10 DEF LenderStep
  <1>11. CASE PlatformStep
    BY <1>2, <1>5, <1>11
       DEF PlatformStep, TogglePause, WithdrawFromTreasury, Tick
  <1>12. CASE UNCHANGED vars  BY <1>2, <1>12 DEF vars
  <1> QED  BY <1>9, <1>10, <1>11, <1>12 DEF ListingNext

(* A listing implements Fundraising: whatever lenders, borrower and bot do *)
(* in whatever order, the stakes become one loan, of all of them and of no *)
(* less than the borrower wanted, or go back to who brought them, once.    *)
THEOREM ListingRaisesFunds == ListingSpec => RaisesFunds
  <1>1. Init => Strong /\ Raising!Init  BY InitRaises
  <1>2. Strong /\ [ListingNext]_vars =>
          Strong' /\ [Raising!Next]_(Raising!fundVars)
    BY StepRaises
  <1> QED
    BY <1>1, <1>2, PTL DEF ListingSpec, RaisesFunds, Raising!Spec

-----------------------------------------------------------------------------
(* 3. The loan.                                                            *)
-----------------------------------------------------------------------------
(* Before the loan starts no escrow holds anything and nothing is recalled.*)
NothingPaidBefore ==
    OnLoan \/ contract.status \in {"Completed", "Liquidated"}
    \/ /\ ~contract.recall_requested
       /\ \A l \in Lenders : escrow[l].usdc = 0

ContributorsHaveEscrows ==
    IsOpen \/ OnLoan => \A l \in contract.contributions : escrow[l].exists

LoanInductive ==
    /\ Inductive
    /\ FundingBooks
    /\ StakesArePositive
    /\ EscrowsHoldTheirAmount
    /\ RecallNamesALender
    /\ CollateralIsHeld
    /\ NoDebtIsLeftBehind
    /\ NothingPaidBefore
    /\ ContributorsHaveEscrows
    /\ contract.last_principal_payment <= now

-----------------------------------------------------------------------------
(* Shares of an amount.                                                    *)
LEMMA ShareFits ==
    ASSUME NEW part \in Nat, NEW whole \in Nat \ {0}, part <= whole,
           NEW amount \in Nat
    PROVE  /\ Share(part, whole, amount) \in Nat
           /\ Share(part, whole, amount) <= amount
           /\ Share(part, whole, amount) * whole <= part * amount
  <1> DEFINE q == (part * amount) \div whole
  <1>1. part * amount \in Nat  OBVIOUS
  <1>2. q \in Nat /\ q * whole <= part * amount  BY <1>1, DivisionBounds
  <1>3. part * amount <= amount * whole
    <2>1. part * amount <= whole * amount  OBVIOUS
    <2>2. whole * amount = amount * whole  OBVIOUS
    <2> QED  BY <2>1, <2>2
  <1> HIDE DEF q
  <1>4. q * whole <= amount * whole
    <2>1. q * whole \in Nat /\ amount * whole \in Nat  BY <1>2
    <2> QED  BY <1>1, <1>2, <1>3, <2>1
  <1>5. q <= amount  BY <1>2, <1>4, ProductOrder
  <1> QED  BY <1>2, <1>5 DEF Share, q

LEMMA WholeShare ==
    ASSUME NEW whole \in Nat \ {0}, NEW amount \in Nat
    PROVE  Share(whole, whole, amount) = amount
  BY DEF Share

(* The shares of some lenders, each rounded down.                          *)
RoundedTotal(c, whole, amount, S) ==
    MapThenSumSet(LAMBDA k : Share(c[k].contribution_amount, whole, amount), S)

RoundedOf(c, whole, amount, S) ==
    [k \in S |-> Share(c[k].contribution_amount, whole, amount)]

LEMMA RoundedTotalIs ==
    ASSUME NEW S, IsFiniteSet(S), NEW c, NEW whole, NEW amount
    PROVE  RoundedTotal(c, whole, amount, S) =
             Total(RoundedOf(c, whole, amount, S), S)
  <1> DEFINE f == RoundedOf(c, whole, amount, S)
             Step(g, s) == IF s = {} THEN 0
                           ELSE Share(c[Picked(s)].contribution_amount,
                                      whole, amount)
                                  + g[s \ {Picked(s)}]
             IsStep(g) == g = [s \in SUBSET S |-> Step(g, s)]
  <1>1. RoundedTotal(c, whole, amount, S) = (CHOOSE g : IsStep(g))[S]
    BY DEF RoundedTotal, MapThenSumSet, MapThenFoldSet, Picked
  <1>2. \A g : \A s \in SUBSET S : NextSum(f, g, s) = Step(g, s)
    BY DEF NextSum, Picked, RoundedOf
  <1> HIDE DEF f, Step
  <1>3. \A g : IsSum(f, S, g) <=> IsStep(g)  BY <1>2 DEF IsSum
  <1>4. PICK g : IsSum(f, S, g)  BY SumExists
  <1>5. \E h : IsStep(h)  BY <1>3, <1>4
  <1> HIDE DEF IsStep
  <1>6. IsStep(CHOOSE h : IsStep(h))  BY <1>5
  <1>7. IsSum(f, S, CHOOSE h : IsStep(h))  BY <1>3, <1>6
  <1> QED  BY <1>1, <1>7, TotalIs DEF f

LenderSharesOf(amount, last, S) == [l \in S |-> LenderShare(l, last, amount)]

LEMMA SharesOfIs ==
    ASSUME NEW last, NEW amount, IsFiniteSet(contract.contributions)
    PROVE  SharesOf(amount, last) =
             Total(LenderSharesOf(amount, last, contract.contributions),
                   contract.contributions)
  <1> DEFINE S == contract.contributions
             f == LenderSharesOf(amount, last, S)
             Step(g, s) == IF s = {} THEN 0
                           ELSE LenderShare(Picked(s), last, amount)
                                  + g[s \ {Picked(s)}]
             IsStep(g) == g = [s \in SUBSET S |-> Step(g, s)]
  <1>0. IsFiniteSet(S)  OBVIOUS
  <1>1. SharesOf(amount, last) = (CHOOSE g : IsStep(g))[S]
    BY DEF SharesOf, MapThenSumSet, MapThenFoldSet, Picked
  <1> HIDE DEF S
  <1>2. \A g : \A s \in SUBSET S : NextSum(f, g, s) = Step(g, s)
    BY DEF NextSum, Picked, LenderSharesOf
  <1> HIDE DEF f, Step
  <1>3. \A g : IsSum(f, S, g) <=> IsStep(g)  BY <1>2 DEF IsSum
  <1>4. PICK g : IsSum(f, S, g)  BY <1>0, SumExists
  <1>5. \E h : IsStep(h)  BY <1>3, <1>4
  <1> HIDE DEF IsStep
  <1>6. IsStep(CHOOSE h : IsStep(h))  BY <1>5
  <1>7. IsSum(f, S, CHOOSE h : IsStep(h))  BY <1>3, <1>6
  <1>8. SharesOf(amount, last) = Total(f, S)  BY <1>0, <1>1, <1>7, TotalIs
  <1> QED  BY <1>8 DEF f, S

(* The last lender gets what the others leave of the amount.               *)
LEMMA LenderShareIs ==
    ASSUME NEW l, NEW last, NEW amount
    PROVE  LenderShare(l, last, amount) =
             IF l = last
             THEN MinusSaturating(amount,
                    RoundedTotal(contribution, contract.funded_amount, amount,
                                 contract.contributions \ {last}))
             ELSE Share(contribution[l].contribution_amount,
                        contract.funded_amount, amount)
  BY DEF LenderShare, RoundedTotal, MapThenSumSet, MapThenFoldSet

(* Whichever lender is passed last, nothing of an amount that is           *)
(* distributed is lost, and no more is: as long as the stakes add up.      *)
StakesAddUp ==
    /\ contract.contributions \subseteq Lenders
    /\ IsFiniteSet(contract.contributions)
    /\ contribution \in [Lenders -> ContributionType]
    /\ contract.funded_amount \in Nat \ {0}
    /\ contract.funded_amount =
          AmountTotal(contribution, contract.contributions)

LEMMA SharesOfStakesAddUp ==
    ASSUME StakesAddUp, NEW last \in contract.contributions,
           NEW amount \in Nat
    PROVE  /\ \A l \in contract.contributions :
                 LenderShare(l, last, amount) \in Nat
           /\ SharesOf(amount, last) = amount
  <1> DEFINE S == contract.contributions
             R == S \ {last}
             f == AmountsOf(contribution, S)
             whole == contract.funded_amount
             h == RoundedOf(contribution, whole, amount, R)
             e == LenderSharesOf(amount, last, S)
  <1>1. /\ IsFiniteSet(S) /\ S \subseteq Lenders
        /\ whole \in Nat \ {0} /\ whole = AmountTotal(contribution, S)
        /\ contribution \in [Lenders -> ContributionType]
    BY DEF StakesAddUp
  <1>2. IsFiniteSet(R) /\ R \subseteq S /\ R \subseteq Lenders
    BY <1>1, FS_RemoveElement
  <1>3. whole = Total(f, S)  BY <1>1, AmountTotalIs
  <1>4. \A l \in S : f[l] = contribution[l].contribution_amount /\ f[l] \in Nat
    BY <1>1, AmountsAreNumbers
  <1>5. Total(f, R) \in Nat /\ Total(f, R) <= whole
    <2>1. last \in S  OBVIOUS
    <2>2. \A l \in R : f[l] \in Nat  BY <1>4
    <2> HIDE DEF S, f, R, whole
    <2>3. Total(f, S) = f[last] + Total(f, S \ {last})
      BY <1>1, <1>4, <2>1, TotalRemove
    <2>4. Total(f, R) \in Nat  BY <1>2, <2>2, TotalType
    <2> QED  BY <1>3, <1>4, <2>1, <2>3, <2>4 DEF R
  <1>6. /\ \A l \in R : h[l] \in Nat
        /\ Total(h, R) \in Nat /\ Total(h, R) <= amount
    <2>1. \A l \in R : h[l] = (f[l] * amount) \div whole
      BY <1>4 DEF RoundedOf, Share
    <2>2. \A l \in R : f[l] \in Nat  BY <1>4
    <2> HIDE DEF S, f, R, whole, h
    <2> QED  BY <1>1, <1>2, <1>5, <2>1, <2>2, SharesFit
  <1>7. LenderShare(last, last, amount) = amount - Total(h, R)
    <2>1. LenderShare(last, last, amount) =
            MinusSaturating(amount,
              RoundedTotal(contribution, whole, amount, R))
      BY LenderShareIs
    <2>2. RoundedTotal(contribution, whole, amount, R) = Total(h, R)
      BY <1>2, RoundedTotalIs
    <2> QED  BY <1>6, <2>1, <2>2 DEF MinusSaturating
  <1>8. \A l \in R : e[l] = h[l]
    BY LenderShareIs DEF LenderSharesOf, RoundedOf
  <1>9. e[last] = amount - Total(h, R)  BY <1>7 DEF LenderSharesOf
  <1>10. \A l \in S : e[l] = LenderShare(l, last, amount)
    BY DEF LenderSharesOf
  <1>11. SharesOf(amount, last) = Total(e, S)  BY <1>1, SharesOfIs
  <1>12. \A l \in S : e[l] \in Nat
    <2>1. e[last] \in Nat  BY <1>6, <1>9
    <2> QED  BY <1>6, <1>8, <2>1
  <1>13. last \in S /\ R = S \ {last}  OBVIOUS
  <1> HIDE DEF S, R, h, e
  <1>14. Total(e, S) = e[last] + Total(e, R)
    BY <1>1, <1>12, <1>13, TotalRemove
  <1>15. Total(e, R) = Total(h, R)  BY <1>2, <1>8, TotalAgrees
  <1>16. SharesOf(amount, last) = amount
    BY <1>6, <1>9, <1>11, <1>14, <1>15
  <1> QED  BY <1>10, <1>12, <1>16 DEF S

LEMMA SharesAddUp ==
    ASSUME Inductive, FundingBooks, OnLoan, contract.funded_amount > 0,
           NEW last \in contract.contributions, NEW amount \in Nat
    PROVE  /\ \A l \in contract.contributions :
                 LenderShare(l, last, amount) \in Nat
           /\ SharesOf(amount, last) = amount
  <1>1. StakesAddUp
    BY DEF StakesAddUp, Inductive, FundingBooks, TypeOK, ContractType,
           ContributorsAreListed, OnLoan
  <1> QED  BY <1>1, SharesOfStakesAddUp

-----------------------------------------------------------------------------
(* What interest, schedules and payments leave alone.                      *)
SameLenders(c, d) ==
    /\ d.status = c.status
    /\ d.target_amount = c.target_amount
    /\ d.funded_amount = c.funded_amount
    /\ d.num_contributions = c.num_contributions
    /\ d.contributions = c.contributions
    /\ d.collateral_amount = c.collateral_amount
    /\ d.recall_requested = c.recall_requested
    /\ d.recall_requested_by = c.recall_requested_by

LEMMA SameLendersIsTransitive ==
    ASSUME NEW c, NEW d, NEW e, SameLenders(c, d), SameLenders(d, e)
    PROVE  SameLenders(c, e)
  BY DEF SameLenders

LEMMA TermsAreNumbers ==
    ASSUME TypeOK
    PROVE  /\ terms.interest_rate \in Nat /\ terms.term_days \in Nat
           /\ terms.principal_frequency \in Nat
           /\ terms.principal_frequency > 0 => terms.term_days > 0
           /\ terms.collateral_amount \in Nat
           /\ terms.ltv_floor_bps \in Nat
           /\ terms' = terms => terms' \in Offers
  BY OffersAreValid DEF TypeOK, ValidOffer

LEMMA LesserIs ==
    ASSUME NEW a \in Nat, NEW b \in Nat
    PROVE  Lesser(a, b) \in Nat /\ Lesser(a, b) <= a /\ Lesser(a, b) <= b
  BY DEF Lesser

LEMMA QuotientType ==
    ASSUME NEW a \in Nat, NEW d \in Nat \ {0}
    PROVE  a \div d \in Nat
  BY DivisionBounds

LEMMA InterestType ==
    ASSUME TypeOK, NEW principal \in Nat, NEW elapsed \in Nat
    PROVE  Interest(principal, elapsed) \in Nat
  <1>1. terms.interest_rate \in Nat  BY TermsAreNumbers
  <1>2. principal * terms.interest_rate * elapsed \in Nat  BY <1>1
  <1> QED
    BY <1>2, QuotientType, ServicingConstantsAreNumbers DEF Interest

LEMMA WithInterestType ==
    ASSUME TypeOK, NEW c \in ContractType
    PROVE  /\ WithInterest(c) \in ContractType
           /\ SameLenders(c, WithInterest(c))
           /\ WithInterest(c).last_principal_payment = c.last_principal_payment
           /\ WithInterest(c).total_principal_paid = c.total_principal_paid
  <1> DEFINE elapsed == now - c.last_interest_update
             balance == Lesser(c.outstanding_balance
                                 + Interest(c.outstanding_balance, elapsed),
                               c.target_amount * BalanceCap)
             accrued == c.accrued_interest + Interest(c.target_amount, elapsed)
  <1>1. now \in Nat /\ elapsed \in Int  BY DEF TypeOK, ContractType
  <1>2. CASE elapsed <= 0
    <2>1. WithInterest(c) = c  BY <1>2 DEF WithInterest
    <2> QED  BY <2>1 DEF SameLenders
  <1>3. CASE ~(elapsed <= 0)
    <2>1. /\ c.outstanding_balance \in Nat /\ c.target_amount \in Nat
          /\ c.accrued_interest \in Nat /\ elapsed \in Nat
      BY <1>1, <1>3 DEF ContractType
    <2>2. /\ Interest(c.outstanding_balance, elapsed) \in Nat
          /\ Interest(c.target_amount, elapsed) \in Nat
      BY <2>1, InterestType
    <2>3. balance \in Nat /\ accrued \in Nat
      <3>1. c.target_amount * BalanceCap \in Nat
        BY <2>1, ServicingConstantsAreNumbers
      <3>2. c.outstanding_balance + Interest(c.outstanding_balance, elapsed)
              \in Nat
        BY <2>1, <2>2
      <3>3. accrued \in Nat  BY <2>1, <2>2
      <3> HIDE DEF elapsed
      <3>4. balance \in Nat  BY <3>1, <3>2, LesserIs
      <3> QED  BY <3>3, <3>4
    <2>4. \/ WithInterest(c) = [c EXCEPT !.outstanding_balance = balance,
                                         !.last_interest_update = now]
          \/ WithInterest(c) = [c EXCEPT !.accrued_interest = accrued,
                                         !.last_interest_update = now]
      BY <1>3 DEF WithInterest
    <2> HIDE DEF elapsed, balance, accrued
    <2>5. WithInterest(c) \in ContractType
      BY <1>1, <2>3, <2>4, ZenonT(40) DEF ContractType
    <2>6. /\ SameLenders(c, WithInterest(c))
          /\ WithInterest(c).last_principal_payment = c.last_principal_payment
          /\ WithInterest(c).total_principal_paid = c.total_principal_paid
      BY <2>4 DEF ContractType, SameLenders
    <2> QED  BY <2>5, <2>6
  <1> QED  BY <1>2, <1>3

(* Whole periods only are paid for, so that the date of the last payment   *)
(* never lies ahead.                                                       *)
LEMMA PeriodsType ==
    ASSUME TypeOK, NEW c \in ContractType, c.last_principal_payment <= now
    PROVE  /\ PeriodsElapsed(c) \in Nat
           /\ PeriodsElapsed(c) > 0 => terms.principal_frequency > 0
           /\ PeriodsElapsed(c) * terms.principal_frequency * Day \in Nat
           /\ c.last_principal_payment
                + PeriodsElapsed(c) * terms.principal_frequency * Day <= now
  <1> DEFINE gone == now - c.last_principal_payment
             period == terms.principal_frequency * Day
             n == PeriodsElapsed(c)
  <1>1. /\ gone \in Nat /\ terms.principal_frequency \in Nat
        /\ Day \in Nat \ {0} /\ now \in Nat
        /\ c.last_principal_payment \in Nat
    BY TermsAreNumbers, ServicingConstantsAreNumbers DEF TypeOK, ContractType
  <1>2. CASE terms.principal_frequency = 0
    <2>1. n = 0  BY <1>2 DEF PeriodsElapsed
    <2> HIDE DEF n
    <2>2. n * terms.principal_frequency * Day = 0  BY <1>1, <2>1
    <2> QED  BY <1>1, <2>1, <2>2 DEF n
  <1>3. CASE terms.principal_frequency # 0
    <2>1. period \in Nat \ {0}
      <3>1. \A a, b \in Nat \ {0} : a * b \in Nat \ {0}  OBVIOUS
      <3> QED  BY <1>1, <1>3, <3>1
    <2>2. n = gone \div period  BY <1>3 DEF PeriodsElapsed
    <2> HIDE DEF gone, period, n
    <2>3. n \in Nat /\ n * period <= gone  BY <1>1, <2>1, <2>2, DivisionBounds
    <2>4. n * period = n * terms.principal_frequency * Day
      BY <1>1, <2>3 DEF period
    <2>5. n * period \in Nat  BY <2>1, <2>3
    <2>6. c.last_principal_payment + n * period <= now
      BY <1>1, <2>3, <2>5 DEF gone
    <2> QED  BY <1>1, <1>3, <2>3, <2>4, <2>5, <2>6 DEF n
  <1> QED  BY <1>2, <1>3

LEMMA ScheduledPrincipalType ==
    ASSUME TypeOK, NEW c \in ContractType, c.last_principal_payment <= now,
           PeriodsElapsed(c) > 0
    PROVE  ScheduledPrincipal(c) \in Nat
  <1> DEFINE days == PeriodsElapsed(c) * terms.principal_frequency
             due == (c.target_amount * days) \div terms.term_days
             expected == Lesser(due, c.target_amount)
  <1>1. /\ PeriodsElapsed(c) \in Nat /\ terms.principal_frequency \in Nat
        /\ terms.term_days \in Nat \ {0}
        /\ c.target_amount \in Nat /\ c.total_principal_paid \in Nat
    BY PeriodsType, TermsAreNumbers DEF ContractType
  <1>2. days \in Nat  BY <1>1
  <1>3. ScheduledPrincipal(c) =
          MinusSaturating(expected, c.total_principal_paid)
    BY DEF ScheduledPrincipal
  <1> HIDE DEF days
  <1>4. c.target_amount * days \in Nat  BY <1>1, <1>2
  <1>5. due \in Nat  BY <1>1, <1>4, QuotientType
  <1> HIDE DEF due
  <1>6. expected \in Nat  BY <1>1, <1>5, LesserIs
  <1> HIDE DEF expected
  <1> QED  BY <1>1, <1>3, <1>6 DEF MinusSaturating

LEMMA WithScheduleType ==
    ASSUME TypeOK, NEW c \in ContractType, c.last_principal_payment <= now,
           ScheduleFits(c)
    PROVE  /\ WithSchedule(c) \in ContractType
           /\ SameLenders(c, WithSchedule(c))
           /\ WithSchedule(c).last_principal_payment <= now
  <1>1. CASE PeriodsElapsed(c) = 0
    <2>1. WithSchedule(c) = c  BY <1>1 DEF WithSchedule
    <2> QED  BY <2>1 DEF SameLenders
  <1>2. CASE PeriodsElapsed(c) # 0
    <2> DEFINE due == ScheduledPrincipal(c)
               balance == c.outstanding_balance - due
               paid == c.total_principal_paid + due
               date == c.last_principal_payment
                         + PeriodsElapsed(c) * terms.principal_frequency * Day
    <2>1. PeriodsElapsed(c) > 0  BY <1>2, PeriodsType
    <2>2. due \in Nat /\ due <= c.outstanding_balance
      BY <2>1, ScheduledPrincipalType DEF ScheduleFits
    <2>3. /\ c.outstanding_balance \in Nat /\ c.total_principal_paid \in Nat
          /\ c.last_principal_payment \in Nat
      BY DEF ContractType
    <2>4. date \in Nat /\ date <= now
      <3>1. PeriodsElapsed(c) * terms.principal_frequency * Day \in Nat
        BY PeriodsType
      <3> QED  BY <2>3, <3>1, PeriodsType
    <2>5. WithSchedule(c) = [c EXCEPT !.outstanding_balance = balance,
                                      !.total_principal_paid = paid,
                                      !.last_principal_payment = date]
      BY <1>2 DEF WithSchedule
    <2> HIDE DEF due
    <2>6. balance \in Nat /\ paid \in Nat  BY <2>2, <2>3
    <2> HIDE DEF balance, paid, date
    <2>7. WithSchedule(c) \in ContractType
      BY <2>4, <2>5, <2>6, ZenonT(40) DEF ContractType
    <2>8. /\ SameLenders(c, WithSchedule(c))
          /\ WithSchedule(c).last_principal_payment = date
      BY <2>5 DEF ContractType, SameLenders
    <2> QED  BY <2>4, <2>7, <2>8
  <1> QED  BY <1>1, <1>2

(* Interest and schedule together.                                         *)
LEMMA UpdatedType ==
    ASSUME TypeOK, contract.last_principal_payment <= now,
           ScheduleFits(WithInterest(contract))
    PROVE  LET c == WithSchedule(WithInterest(contract))
           IN  /\ c \in ContractType
               /\ SameLenders(contract, c)
               /\ c.last_principal_payment <= now
  <1> DEFINE d == WithInterest(contract)
             c == WithSchedule(d)
  <1>1. contract \in ContractType  BY DEF TypeOK
  <1>2. /\ d \in ContractType /\ SameLenders(contract, d)
        /\ d.last_principal_payment <= now /\ ScheduleFits(d)
    BY <1>1, WithInterestType
  <1> HIDE DEF d
  <1>3. /\ c \in ContractType /\ SameLenders(d, c)
        /\ c.last_principal_payment <= now
    BY <1>2, WithScheduleType
  <1> HIDE DEF c
  <1>4. SameLenders(contract, c)  BY <1>2, <1>3, SameLendersIsTransitive
  <1> QED  BY <1>3, <1>4 DEF c, d

(* A payment is split into interest, principal and fee without a remainder,*)
(* and takes no more off the books than is owed.                           *)
LEMMA PaymentType ==
    ASSUME TypeOK, contract.last_principal_payment <= now, NEW amount \in Nat,
           ScheduleFits(WithInterest(contract))
    PROVE  /\ Payment(amount).paid \in Nat /\ Payment(amount).interest \in Nat
           /\ Payment(amount).effective \in Nat /\ Payment(amount).fee \in Nat
           /\ Payment(amount).paid = Payment(amount).interest
                + Payment(amount).fee + Payment(amount).effective
           /\ Payment(amount).contract \in ContractType
           /\ SameLenders(contract, Payment(amount).contract)
           /\ Payment(amount).contract.last_principal_payment <= now
  <1> DEFINE c == WithSchedule(WithInterest(contract))
             paid == Lesser(amount, c.outstanding_balance + c.accrued_interest)
             interest == Lesser(paid, c.accrued_interest)
             principal == paid - interest
             allocation == PrincipalAllocation(principal)
             effective == allocation.effective
             fee == allocation.fee
             accrued == c.accrued_interest - interest
             balance == c.outstanding_balance - effective
             repaid == c.total_principal_paid + effective
             after == [c EXCEPT !.accrued_interest = accrued,
                                !.outstanding_balance = balance,
                                !.total_principal_paid = repaid]
  <1>1. /\ c \in ContractType /\ SameLenders(contract, c)
        /\ c.last_principal_payment <= now
    BY UpdatedType
  <1>2. Payment(amount) = [paid |-> paid, interest |-> interest,
                           effective |-> effective, fee |-> fee,
                           contract |-> after]
    BY DEF Payment
  <1> HIDE DEF c
  <1>3. /\ c.outstanding_balance \in Nat /\ c.accrued_interest \in Nat
        /\ c.total_principal_paid \in Nat
    BY <1>1 DEF ContractType
  <1>4. paid \in Nat /\ paid <= c.outstanding_balance + c.accrued_interest
    <2>1. c.outstanding_balance + c.accrued_interest \in Nat  BY <1>3
    <2> QED  BY <2>1, LesserIs
  <1>5. /\ interest \in Nat /\ interest <= paid /\ interest <= c.accrued_interest
        /\ principal \in Nat /\ principal <= c.outstanding_balance
    <2> HIDE DEF paid
    <2>1. interest = IF paid <= c.accrued_interest THEN paid
                     ELSE c.accrued_interest
      BY DEF Lesser
    <2>2. principal = paid - interest  OBVIOUS
    <2> HIDE DEF interest, principal
    <2> QED  BY <1>3, <1>4, <2>1, <2>2
  <1>6. /\ effective \in Nat /\ fee \in Nat
        /\ effective + fee = principal
    <2> HIDE DEF paid, interest, principal
    <2> DEFINE kept == IF terms.loan_type = "Committed"
                            /\ terms.principal_frequency > 0
                       THEN BpsOf(principal, PrepaymentFeeBps) ELSE 0
    <2>1. effective = principal - kept /\ fee = kept
      BY DEF PrincipalAllocation
    <2>2. /\ BpsOf(principal, PrepaymentFeeBps) \in Nat
          /\ BpsOf(principal, PrepaymentFeeBps) <= principal
      <3>1. PrepaymentFeeBps \in Nat /\ PrepaymentFeeBps <= BpsDenom
        BY ServicingConstantsAreNumbers, ConstantsAreNumbers
      <3> QED  BY <1>5, <3>1, BpsIsNat
    <2>3. kept \in Nat /\ kept <= principal  BY <1>5, <2>2
    <2> HIDE DEF kept, effective, fee
    <2> QED  BY <1>5, <2>1, <2>3
  <1>7. paid = interest + fee + effective
    <2>1. principal = paid - interest  OBVIOUS
    <2> HIDE DEF paid, interest, principal, effective, fee
    <2> QED  BY <1>4, <1>5, <1>6, <2>1
  <1> HIDE DEF paid, interest, principal, effective, fee
  <1>8. accrued \in Nat /\ balance \in Nat /\ repaid \in Nat
    BY <1>3, <1>5, <1>6
  <1> HIDE DEF accrued, balance, repaid
  <1>9. after \in ContractType  BY <1>1, <1>8, ZenonT(40) DEF ContractType
  <1>10. /\ SameLenders(c, after)
         /\ after.last_principal_payment = c.last_principal_payment
    BY <1>1 DEF ContractType, SameLenders
  <1> HIDE DEF after
  <1>11. SameLenders(contract, after)
    BY <1>1, <1>10, SameLendersIsTransitive
  <1> QED
    BY <1>1, <1>2, <1>4, <1>5, <1>6, <1>7, <1>9, <1>10, <1>11

-----------------------------------------------------------------------------
(* Steps of a loan that leave its lenders alone: it goes on, or it ends    *)
(* with nothing owed.                                                      *)
LEMMA LoanGoesOn ==
    ASSUME LoanInductive, OnLoan, TypeOK',
           UNCHANGED <<now, terms, contribution>>,
           \A l \in Lenders :
              /\ escrow'[l].usdc = escrow'[l].escrow_amount
              /\ escrow[l].exists => escrow'[l].exists,
           contract'.funded_amount = contract.funded_amount,
           contract'.num_contributions = contract.num_contributions,
           contract'.contributions = contract.contributions,
           contract'.last_principal_payment <= now,
           \/ /\ contract'.status = contract.status
              /\ contract'.recall_requested = contract.recall_requested
              /\ contract'.recall_requested_by = contract.recall_requested_by
              /\ collateral' = contract'.collateral_amount
           \/ /\ contract'.status \in {"Completed", "Liquidated"}
              /\ contract'.outstanding_balance = 0
    PROVE  LoanInductive'
  <1>1. /\ contract'.status \in {"Active", "PendingRecall", "Completed",
                                 "Liquidated"}
        /\ contract.status \in {"Active", "PendingRecall"}
    BY DEF OnLoan
  <1>2. Inductive'
    <2>1. ContributorsAreListed'
      BY <1>1 DEF LoanInductive, Inductive, ContributorsAreListed, Contributors
    <2>2. IsFiniteSet(contract'.contributions)
      BY DEF LoanInductive, Inductive
    <2> QED
      BY <1>1, <2>1, <2>2
         DEF Inductive, ListingHasRoom, AccountHoldsFunding, UncreatedIsFresh,
             IsOpen, OpenStatuses
  <1>3. FundingBooks' /\ StakesArePositive'
    BY BooksStay DEF LoanInductive, StakesArePositive, Contributors
  <1>4. contract'.contributions \subseteq Lenders
    BY DEF LoanInductive, Inductive, TypeOK, ContractType
  <1>5. EscrowsHoldTheirAmount'  BY DEF EscrowsHoldTheirAmount
  <1>6. ContributorsHaveEscrows' /\ NothingPaidBefore'
    BY <1>1, <1>4
       DEF LoanInductive, ContributorsHaveEscrows, NothingPaidBefore, OnLoan,
           IsOpen, OpenStatuses
  <1>7. RecallNamesALender'
    BY <1>1, <1>4 DEF LoanInductive, RecallNamesALender, OnLoan
  <1>8. CollateralIsHeld' /\ NoDebtIsLeftBehind'
    BY <1>1 DEF CollateralIsHeld, NoDebtIsLeftBehind, OnLoan, IsOpen,
                OpenStatuses
  <1> QED  BY <1>2, <1>3, <1>5, <1>6, <1>7, <1>8 DEF LoanInductive

LEMMA LoanFacts ==
    ASSUME LoanInductive
    PROVE  /\ TypeOK /\ Inductive /\ FundingBooks
           /\ contract \in ContractType /\ now \in Nat /\ usdc \in Nat
           /\ collateral \in Nat /\ totalDebt \in Nat /\ treasuryUsdc \in Nat
           /\ escrow \in [Lenders -> EscrowType]
           /\ contribution \in [Lenders -> ContributionType]
           /\ contract.last_principal_payment <= now
           /\ \A l \in Lenders : escrow[l].usdc = escrow[l].escrow_amount
           /\ OnLoan => /\ collateral = contract.collateral_amount
                        /\ contract.contributions = Contributors
                        /\ contract.contributions \subseteq Lenders
  BY DEF LoanInductive, Inductive, TypeOK, EscrowsHoldTheirAmount,
         CollateralIsHeld, ContributorsAreListed, OnLoan, ContractType

(* A payment's effect on the books and the collateral.                     *)
LEMMA SettleType ==
    ASSUME TypeOK, contract.last_principal_payment <= now, NEW amount \in Nat,
           ScheduleFits(WithInterest(contract)), Settle(Payment(amount))
    PROVE  /\ contract' \in ContractType /\ collateral' \in Nat
           /\ totalDebt' \in Nat
           /\ contract'.funded_amount = contract.funded_amount
           /\ contract'.num_contributions = contract.num_contributions
           /\ contract'.contributions = contract.contributions
           /\ contract'.last_principal_payment <= now
           /\ \/ /\ contract'.status = contract.status
                 /\ contract'.recall_requested = contract.recall_requested
                 /\ contract'.recall_requested_by = contract.recall_requested_by
                 /\ contract'.collateral_amount = contract.collateral_amount
                 /\ collateral' = collateral
              \/ /\ contract'.status = "Completed"
                 /\ contract'.outstanding_balance = 0
  <1> DEFINE paid == Payment(amount)
             c == paid.contract
  <1>1. /\ paid.effective \in Nat /\ c \in ContractType
        /\ SameLenders(contract, c) /\ c.last_principal_payment <= now
    BY PaymentType
  <1>2. collateral \in Nat /\ totalDebt \in Nat  BY DEF TypeOK
  <1>3. totalDebt' = MinusSaturating(totalDebt, paid.effective)
    BY DEF Settle
  <1>4. totalDebt' \in Nat  BY <1>1, <1>2, <1>3 DEF MinusSaturating
  <1>5. CASE Repaid(c)
    <2>1. /\ contract' = [c EXCEPT !.status = "Completed",
                                   !.collateral_amount = 0]
          /\ collateral' = IF contract.collateral_amount > 0 THEN 0
                           ELSE collateral
      BY <1>5 DEF Settle
    <2> HIDE DEF c
    <2>2. "Completed" \in Statuses /\ 0 \in Nat  BY DEF Statuses
    <2>3. contract' \in ContractType
      BY <1>1, <2>1, <2>2, ZenonT(40) DEF ContractType
    <2>4. /\ contract'.status = "Completed"
          /\ contract'.outstanding_balance = c.outstanding_balance
          /\ contract'.funded_amount = c.funded_amount
          /\ contract'.num_contributions = c.num_contributions
          /\ contract'.contributions = c.contributions
          /\ contract'.last_principal_payment = c.last_principal_payment
      BY <1>1, <2>1 DEF ContractType
    <2> QED
      BY <1>1, <1>2, <1>4, <1>5, <2>1, <2>3, <2>4 DEF Repaid, SameLenders
  <1>6. CASE ~Repaid(c)
    <2>1. contract' = c /\ collateral' = collateral  BY <1>6 DEF Settle
    <2> QED  BY <1>1, <1>2, <1>4, <2>1 DEF SameLenders
  <1> QED  BY <1>5, <1>6

LEMMA SettleIs ==
    ASSUME LoanInductive, OnLoan, NEW amount \in Nat,
           ScheduleFits(WithInterest(contract)), Settle(Payment(amount))
    PROVE  /\ contract' \in ContractType /\ collateral' \in Nat
           /\ totalDebt' \in Nat
           /\ contract'.funded_amount = contract.funded_amount
           /\ contract'.num_contributions = contract.num_contributions
           /\ contract'.contributions = contract.contributions
           /\ contract'.last_principal_payment <= now
           /\ \/ /\ contract'.status = contract.status
                 /\ contract'.recall_requested = contract.recall_requested
                 /\ contract'.recall_requested_by = contract.recall_requested_by
                 /\ collateral' = contract'.collateral_amount
              \/ /\ contract'.status = "Completed"
                 /\ contract'.outstanding_balance = 0
  BY LoanFacts, SettleType

LEMMA LoanIsFunded ==
    ASSUME LoanInductive, OnLoan, NEW l \in contract.contributions
    PROVE  /\ l \in Contributors /\ l \in Lenders
           /\ contract.funded_amount \in Nat \ {0}
           /\ contribution[l].contribution_amount \in Nat \ {0}
           /\ contribution[l].contribution_amount <= contract.funded_amount
  <1>1. /\ contract.contributions = Contributors
        /\ contribution \in [Lenders -> ContributionType]
        /\ contract.funded_amount \in Nat
    BY LoanFacts DEF ContractType
  <1>2. l \in Contributors /\ Contributors \subseteq Lenders
    BY <1>1 DEF Contributors
  <1>3. contribution[l].contribution_amount \in Nat \ {0}
    <2>1. contribution[l].contribution_amount > 0
      BY <1>2 DEF LoanInductive, StakesArePositive
    <2> QED  BY <1>1, <1>2, <2>1 DEF ContributionType
  <1>4. contribution[l].contribution_amount <=
          AmountTotal(contribution, Contributors)
    <2>1. IsFiniteSet(Contributors)  BY DEF LoanInductive, FundingBooks
    <2>2. \A k \in Contributors \ {l} : contribution[k].contribution_amount =
                                          contribution[k].contribution_amount
      OBVIOUS
    <2> QED  BY <1>1, <1>2, <2>1, <2>2, AmountLeaves
  <1>5. contribution[l].contribution_amount <= contract.funded_amount
    BY <1>4 DEF LoanInductive, FundingBooks
  <1> QED  BY <1>1, <1>2, <1>3, <1>5

(* What is credited is added to the books of an escrow and to its tokens.  *)
LEMMA CreditedIs ==
    ASSUME NEW e \in EscrowType, NEW interest \in Nat, NEW principal \in Nat
    PROVE  /\ Credited(e, interest, principal) \in EscrowType
           /\ Credited(e, interest, principal).exists = e.exists
           /\ Credited(e, interest, principal).usdc =
                e.usdc + interest + principal
           /\ Credited(e, interest, principal).escrow_amount =
                e.escrow_amount + interest + principal
  <1> DEFINE toClaim == e.available_interest + interest
             due == e.available_principal + principal
             amount == e.escrow_amount + interest + principal
             balance == e.usdc + interest + principal
  <1>1. toClaim \in Nat /\ due \in Nat /\ amount \in Nat /\ balance \in Nat
    BY DEF EscrowType
  <1>2. Credited(e, interest, principal) =
          [e EXCEPT !.available_interest = toClaim,
                    !.available_principal = due,
                    !.escrow_amount = amount, !.usdc = balance]
    BY DEF Credited
  <1> HIDE DEF toClaim, due, amount, balance
  <1>3. Credited(e, interest, principal) \in EscrowType
    BY <1>1, <1>2 DEF EscrowType
  <1>4. /\ Credited(e, interest, principal).exists = e.exists
        /\ Credited(e, interest, principal).usdc = balance
        /\ Credited(e, interest, principal).escrow_amount = amount
    BY <1>2 DEF EscrowType
  <1> QED  BY <1>3, <1>4 DEF amount, balance

LEMMA CreditedType ==
    ASSUME NEW e \in EscrowType, NEW interest \in Nat, NEW principal \in Nat,
           e.usdc = e.escrow_amount
    PROVE  /\ Credited(e, interest, principal) \in EscrowType
           /\ Credited(e, interest, principal).exists = e.exists
           /\ Credited(e, interest, principal).usdc =
                e.usdc + interest + principal
           /\ Credited(e, interest, principal).usdc =
                Credited(e, interest, principal).escrow_amount
  BY CreditedIs

LEMMA DistributedEscrows ==
    ASSUME LoanInductive, OnLoan, NEW last \in contract.contributions,
           NEW amount \in Nat
    PROVE  /\ EscrowsWith(amount, last) \in [Lenders -> EscrowType]
           /\ \A l \in Lenders :
                 /\ EscrowsWith(amount, last)[l].usdc =
                      EscrowsWith(amount, last)[l].escrow_amount
                 /\ EscrowsWith(amount, last)[l].exists = escrow[l].exists
           /\ SharesOf(amount, last) = amount
  <1>1. /\ \A l \in contract.contributions : LenderShare(l, last, amount) \in Nat
        /\ SharesOf(amount, last) = amount
    BY LoanFacts, LoanIsFunded, SharesAddUp
  <1>2. /\ escrow \in [Lenders -> EscrowType]
        /\ \A l \in Lenders : escrow[l].usdc = escrow[l].escrow_amount
    BY LoanFacts
  <1>3. ASSUME NEW l \in Lenders
        PROVE  /\ EscrowsWith(amount, last)[l] \in EscrowType
               /\ EscrowsWith(amount, last)[l].usdc =
                    EscrowsWith(amount, last)[l].escrow_amount
               /\ EscrowsWith(amount, last)[l].exists = escrow[l].exists
    <2>1. CASE l \in contract.contributions
      <3>1. EscrowsWith(amount, last)[l] =
              Credited(escrow[l], 0, LenderShare(l, last, amount))
        BY <2>1 DEF EscrowsWith
      <3> DEFINE share == LenderShare(l, last, amount)
      <3>2. share \in Nat /\ escrow[l] \in EscrowType
            /\ escrow[l].usdc = escrow[l].escrow_amount
        BY <1>1, <1>2, <2>1
      <3>3. EscrowsWith(amount, last)[l] = Credited(escrow[l], 0, share)
        BY <3>1
      <3> HIDE DEF share
      <3>4. 0 \in Nat  OBVIOUS
      <3>5. /\ Credited(escrow[l], 0, share) \in EscrowType
            /\ Credited(escrow[l], 0, share).usdc =
                 Credited(escrow[l], 0, share).escrow_amount
            /\ Credited(escrow[l], 0, share).exists = escrow[l].exists
        BY <3>2, <3>4, CreditedType
      <3> QED  BY <3>3, <3>5
    <2>2. CASE l \notin contract.contributions
      <3>1. EscrowsWith(amount, last)[l] = escrow[l]  BY <2>2 DEF EscrowsWith
      <3> QED  BY <1>2, <3>1
    <2> QED  BY <2>1, <2>2
  <1>4. EscrowsWith(amount, last) = [l \in Lenders |-> EscrowsWith(amount, last)[l]]
    BY DEF EscrowsWith
  <1> QED  BY <1>1, <1>3, <1>4

-----------------------------------------------------------------------------
LEMMA MakePaymentKeeps ==
    ASSUME LoanInductive, NEW amount \in Nat, MakePayment(amount)
    PROVE  LoanInductive'
  <1>1. /\ OnLoan /\ ScheduleFits(WithInterest(contract))
        /\ Settle(Payment(amount))
    BY DEF MakePayment, MayPay, OnLoan
  <1>2. usdc' \in Nat
    <2>1. Payment(amount).paid \in Nat  BY <1>1, LoanFacts, PaymentType
    <2> QED  BY <2>1, LoanFacts DEF MakePayment
  <1>3. TypeOK'
    BY <1>1, <1>2, LoanFacts, SettleIs DEF TypeOK, MakePayment
  <1> QED
    BY <1>1, <1>3, LoanFacts, SettleIs, LoanGoesOn DEF MakePayment

LEMMA MakePaymentWithDistributionKeeps ==
    ASSUME LoanInductive, NEW amount \in Nat, NEW last \in Lenders,
           MakePaymentWithDistribution(amount, last)
    PROVE  LoanInductive'
  <1> DEFINE payment == Payment(amount)
  <1>1. /\ OnLoan /\ ScheduleFits(WithInterest(contract))
        /\ Settle(payment) /\ last \in contract.contributions
    BY DEF MakePaymentWithDistribution, MayPay, OnLoan, LendersPassed
  <1>2. /\ payment.interest \in Nat /\ payment.fee \in Nat
        /\ payment.effective \in Nat
    BY <1>1, LoanFacts, PaymentType
  <1>3. \A share \in {payment.interest, payment.fee, payment.effective} :
           \A l \in contract.contributions : LenderShare(l, last, share) \in Nat
    BY <1>1, <1>2, LoanFacts, LoanIsFunded, SharesAddUp
  <1> HIDE DEF payment
  <1>4. /\ escrow \in [Lenders -> EscrowType]
        /\ \A l \in Lenders : escrow[l].usdc = escrow[l].escrow_amount
    BY LoanFacts
  <1>5. escrow' = [l \in Lenders |->
          IF l \notin contract.contributions THEN escrow[l]
          ELSE Credited(escrow[l],
                        LenderShare(l, last, payment.interest)
                          + LenderShare(l, last, payment.fee),
                        LenderShare(l, last, payment.effective))]
    BY DEF MakePaymentWithDistribution, payment
  <1>6. ASSUME NEW l \in Lenders
        PROVE  /\ escrow'[l] \in EscrowType
               /\ escrow'[l].usdc = escrow'[l].escrow_amount
               /\ escrow'[l].exists = escrow[l].exists
    <2>1. CASE l \in contract.contributions
      <3> DEFINE interest == LenderShare(l, last, payment.interest)
                               + LenderShare(l, last, payment.fee)
                 principal == LenderShare(l, last, payment.effective)
      <3>1. interest \in Nat /\ principal \in Nat  BY <1>3, <2>1
      <3>2. escrow'[l] = Credited(escrow[l], interest, principal)
        BY <1>5, <2>1
      <3> HIDE DEF interest, principal
      <3> QED  BY <1>4, <3>1, <3>2, CreditedType
    <2>2. CASE l \notin contract.contributions
      <3>1. escrow'[l] = escrow[l]  BY <1>5, <2>2
      <3> QED  BY <1>4, <3>1
    <2> QED  BY <2>1, <2>2
  <1>7. escrow' \in [Lenders -> EscrowType]  BY <1>5, <1>6
  <1>8. TypeOK'
    BY <1>1, <1>7, LoanFacts, SettleIs
       DEF TypeOK, MakePaymentWithDistribution, payment
  <1> QED
    BY <1>1, <1>6, <1>8, LoanFacts, SettleIs, LoanGoesOn
       DEF MakePaymentWithDistribution, payment

LEMMA AddCollateralKeeps ==
    ASSUME LoanInductive, NEW amount \in Nat, AddCollateral(amount)
    PROVE  LoanInductive'
  <1> DEFINE pledged == contract.collateral_amount + amount
  <1>1. OnLoan /\ contract \in ContractType /\ collateral \in Nat
        /\ collateral = contract.collateral_amount
        /\ contract.last_principal_payment <= now
    BY LoanFacts DEF AddCollateral
  <1>2. contract' = [contract EXCEPT !.collateral_amount = pledged]
        /\ collateral' = pledged /\ pledged \in Nat
    BY <1>1 DEF AddCollateral, ContractType
  <1> HIDE DEF pledged
  <1>3. contract' \in ContractType  BY <1>1, <1>2 DEF ContractType
  <1>4. /\ contract'.status = contract.status
        /\ contract'.recall_requested = contract.recall_requested
        /\ contract'.recall_requested_by = contract.recall_requested_by
        /\ collateral' = contract'.collateral_amount
        /\ contract'.funded_amount = contract.funded_amount
        /\ contract'.num_contributions = contract.num_contributions
        /\ contract'.contributions = contract.contributions
        /\ contract'.last_principal_payment <= now
    BY <1>1, <1>2 DEF ContractType
  <1>5. TypeOK'  BY <1>2, <1>3, LoanFacts DEF TypeOK, AddCollateral
  <1> QED  BY <1>1, <1>4, <1>5, LoanFacts, LoanGoesOn DEF AddCollateral

LEMMA UpdateContractStateKeeps ==
    ASSUME LoanInductive, UpdateContractState
    PROVE  LoanInductive'
  <1>1. OnLoan /\ ScheduleFits(WithInterest(contract))
        /\ collateral = contract.collateral_amount
    BY LoanFacts DEF UpdateContractState, OnLoan
  <1>2. /\ contract' \in ContractType /\ SameLenders(contract, contract')
        /\ contract'.last_principal_payment <= now
    BY <1>1, LoanFacts, UpdatedType DEF UpdateContractState
  <1>3. TypeOK'  BY <1>2, LoanFacts DEF TypeOK, UpdateContractState
  <1> QED
    BY <1>1, <1>2, <1>3, LoanFacts, LoanGoesOn
       DEF UpdateContractState, SameLenders
-----------------------------------------------------------------------------
(* Automated transfers take no more collateral than there is.              *)
LEMMA WithdrawFits ==
    ASSUME NEW amount \in Nat, NEW paid \in Nat, NEW debt \in Nat,
           collateral \in Nat, CollateralIsEnough(amount, paid, debt)
    PROVE  /\ CollateralWithdraw(amount, paid, debt) \in Nat
           /\ CollateralWithdraw(amount, paid, debt) <= amount
           /\ CollateralWithdraw(amount, paid, debt) <= collateral
  <1>1. CASE paid = 0 \/ amount = 0
    <2>1. CollateralWithdraw(amount, paid, debt) = 0
      BY <1>1 DEF CollateralWithdraw
    <2> QED  BY <2>1
  <1>2. CASE ~(paid = 0 \/ amount = 0)
    <2> DEFINE taken == CollateralWithdraw(amount, paid, debt)
    <2>1. debt > 0 /\ taken <= Lesser(amount, collateral)
      BY <1>2 DEF CollateralIsEnough
    <2>2. taken = (paid * amount) \div debt
      BY <1>2 DEF CollateralWithdraw, Share
    <2> HIDE DEF taken
    <2>3. paid * amount \in Nat  OBVIOUS
    <2>4. taken \in Nat  BY <2>1, <2>2, <2>3, QuotientType
    <2>5. /\ Lesser(amount, collateral) \in Nat
          /\ Lesser(amount, collateral) <= amount
          /\ Lesser(amount, collateral) <= collateral
      BY LesserIs
    <2>6. taken <= amount /\ taken <= collateral
      BY <2>1, <2>4, <2>5
    <2> QED  BY <2>4, <2>6 DEF taken
  <1> QED  BY <1>1, <1>2

LEMMA AutomatedInterestTransferKeeps ==
    ASSUME LoanInductive, NEW last \in Lenders, AutomatedInterestTransfer(last)
    PROVE  LoanInductive'
  <1> DEFINE c == WithInterest(contract)
             paidByBot == terms.interest_payment_type = "CollateralTransfer"
             withdrawn == IF paidByBot
                          THEN CollateralWithdraw(c.collateral_amount,
                                  c.accrued_interest, c.outstanding_balance)
                          ELSE 0
             fromContract == IF paidByBot THEN 0 ELSE c.accrued_interest
             pledged == c.collateral_amount - withdrawn
  <1>1. /\ OnLoan
        /\ usdc >= fromContract
        /\ paidByBot => CollateralIsEnough(c.collateral_amount,
                            c.accrued_interest, c.outstanding_balance)
        /\ contract' = [c EXCEPT !.accrued_interest = 0,
                                 !.last_interest_update = now,
                                 !.collateral_amount = pledged]
        /\ collateral' = collateral - withdrawn
        /\ usdc' = usdc - fromContract
    BY DEF AutomatedInterestTransfer, OnLoan
  <1>2. /\ c \in ContractType /\ SameLenders(contract, c)
        /\ c.last_principal_payment <= now
    BY LoanFacts, WithInterestType
  <1> HIDE DEF c
  <1>3. /\ c.collateral_amount \in Nat /\ c.accrued_interest \in Nat
        /\ c.outstanding_balance \in Nat
    BY <1>2 DEF ContractType
  <1>4. /\ collateral = c.collateral_amount /\ usdc \in Nat /\ now \in Nat
        /\ collateral \in Nat
    BY <1>1, <1>2, LoanFacts DEF SameLenders
  <1>5. withdrawn \in Nat /\ withdrawn <= collateral
    <2>1. CASE paidByBot  BY <1>1, <1>3, <1>4, <2>1, WithdrawFits
    <2>2. CASE ~paidByBot  BY <1>4, <2>2
    <2> QED  BY <2>1, <2>2
  <1>6. fromContract \in Nat  BY <1>3
  <1> HIDE DEF withdrawn, fromContract
  <1>7. usdc' \in Nat /\ collateral' \in Nat /\ pledged \in Nat
        /\ collateral' = pledged
    BY <1>1, <1>4, <1>5, <1>6
  <1> HIDE DEF pledged
  <1>8. contract' \in ContractType
    <2>1. 0 \in Nat  OBVIOUS
    <2> QED  BY <1>1, <1>2, <1>4, <1>7, <2>1, ZenonT(40) DEF ContractType
  <1>9. /\ contract'.status = contract.status
        /\ contract'.recall_requested = contract.recall_requested
        /\ contract'.recall_requested_by = contract.recall_requested_by
        /\ contract'.collateral_amount = pledged
        /\ contract'.funded_amount = contract.funded_amount
        /\ contract'.num_contributions = contract.num_contributions
        /\ contract'.contributions = contract.contributions
        /\ contract'.last_principal_payment <= now
    BY <1>1, <1>2 DEF ContractType, SameLenders
  <1>10. TypeOK'  BY <1>7, <1>8, LoanFacts DEF TypeOK, AutomatedInterestTransfer
  <1> QED
    BY <1>1, <1>7, <1>9, <1>10, LoanFacts, LoanGoesOn
       DEF AutomatedInterestTransfer

LEMMA AutomatedPrincipalTransferKeeps ==
    ASSUME LoanInductive, NEW last \in Lenders, AutomatedPrincipalTransfer(last)
    PROVE  LoanInductive'
  <1> DEFINE c == WithSchedule(WithInterest(contract))
             debt == contract.outstanding_balance
             withdrawn == CollateralWithdraw(c.collateral_amount,
                                             c.total_principal_paid, debt)
             pledged == c.collateral_amount - withdrawn
  <1>1. /\ OnLoan /\ ScheduleFits(WithInterest(contract))
        /\ CollateralIsEnough(c.collateral_amount, c.total_principal_paid, debt)
        /\ contract' = [c EXCEPT !.collateral_amount = pledged,
                                 !.total_principal_paid = 0,
                                 !.last_principal_payment = now]
        /\ collateral' = collateral - withdrawn
    BY DEF AutomatedPrincipalTransfer, OnLoan
  <1>2. c \in ContractType /\ SameLenders(contract, c)
    BY <1>1, LoanFacts, UpdatedType
  <1> HIDE DEF c
  <1>3. /\ c.collateral_amount \in Nat /\ c.total_principal_paid \in Nat
        /\ debt \in Nat
    BY <1>2, LoanFacts DEF ContractType
  <1>4. /\ collateral = c.collateral_amount /\ now \in Nat
        /\ collateral \in Nat
    BY <1>1, <1>2, LoanFacts DEF SameLenders
  <1>5. withdrawn \in Nat /\ withdrawn <= collateral
    BY <1>1, <1>3, <1>4, WithdrawFits
  <1> HIDE DEF withdrawn
  <1>6. collateral' \in Nat /\ pledged \in Nat /\ collateral' = pledged
    BY <1>1, <1>4, <1>5
  <1> HIDE DEF pledged
  <1>7. contract' \in ContractType
    <2>1. 0 \in Nat  OBVIOUS
    <2> QED  BY <1>1, <1>2, <1>4, <1>6, <2>1, ZenonT(40) DEF ContractType
  <1>8. /\ contract'.status = contract.status
        /\ contract'.recall_requested = contract.recall_requested
        /\ contract'.recall_requested_by = contract.recall_requested_by
        /\ contract'.collateral_amount = pledged
        /\ contract'.funded_amount = contract.funded_amount
        /\ contract'.num_contributions = contract.num_contributions
        /\ contract'.contributions = contract.contributions
        /\ contract'.last_principal_payment = now
    BY <1>1, <1>2 DEF ContractType, SameLenders
  <1>9. TypeOK'
    BY <1>6, <1>7, LoanFacts DEF TypeOK, AutomatedPrincipalTransfer
  <1> QED
    BY <1>1, <1>4, <1>6, <1>8, <1>9, LoanFacts, LoanGoesOn
       DEF AutomatedPrincipalTransfer

-----------------------------------------------------------------------------
(* What liquidations distribute and seize.                                 *)
(* What is owed with the interest due.                                     *)
LEMMA DebtType ==
    ASSUME TypeOK
    PROVE  /\ WithInterest(contract) \in ContractType
           /\ SameLenders(contract, WithInterest(contract))
           /\ WithInterest(contract).last_principal_payment =
                contract.last_principal_payment
           /\ DebtOf(WithInterest(contract)) \in Nat
  <1>1. contract \in ContractType  BY DEF TypeOK
  <1>2. /\ WithInterest(contract) \in ContractType
        /\ SameLenders(contract, WithInterest(contract))
        /\ WithInterest(contract).last_principal_payment =
             contract.last_principal_payment
    BY <1>1, WithInterestType
  <1>3. DebtOf(WithInterest(contract)) \in Nat
    BY <1>2 DEF DebtOf, ContractType
  <1> QED  BY <1>2, <1>3

LEMMA LiquidateKeeps ==
    ASSUME LoanInductive, NEW price \in Prices, NEW last \in Lenders,
           Liquidate(price, last)
    PROVE  LoanInductive'
  <1> DEFINE c == WithInterest(contract)
             value == collateral * price
             debt == DebtOf(c)
             botPays == Lesser(debt, value)
             lost == debt - botPays
  <1>1. /\ OnLoan /\ last \in contract.contributions
        /\ escrow' = EscrowsWith(botPays, last)
        /\ usdc' = usdc + botPays - SharesOf(botPays, last)
        /\ contract' = [c EXCEPT !.status = "Liquidated",
                                 !.uncollectable_balance = lost,
                                 !.outstanding_balance = 0,
                                 !.collateral_amount = 0,
                                 !.accrued_interest = 0]
        /\ collateral' = 0
    BY DEF Liquidate, LendersPassed
  <1>2. /\ c \in ContractType /\ SameLenders(contract, c) /\ debt \in Nat
        /\ c.last_principal_payment <= now
    BY LoanFacts, DebtType
  <1>3. totalDebt' \in Nat
    <2> DEFINE retired == MinusSaturating(c.funded_amount,
                                          c.total_principal_paid)
    <2>1. totalDebt' = MinusSaturating(totalDebt, retired)  BY DEF Liquidate
    <2> HIDE DEF c
    <2>2. c.funded_amount \in Nat /\ c.total_principal_paid \in Nat
      BY <1>2 DEF ContractType
    <2>3. retired \in Nat  BY <2>2 DEF MinusSaturating
    <2> HIDE DEF retired
    <2> QED  BY <2>1, <2>3, LoanFacts DEF MinusSaturating
  <1>4. value \in Nat /\ price \in Nat
    <2>1. price \in Nat  BY ServicingConstantsAreNumbers
    <2> QED  BY <2>1, LoanFacts
  <1> HIDE DEF c, value, debt
  <1>5. botPays \in Nat /\ lost \in Nat
    <2>1. botPays \in Nat /\ botPays <= debt  BY <1>2, <1>4, LesserIs
    <2> HIDE DEF botPays
    <2> QED  BY <1>2, <2>1
  <1> HIDE DEF botPays, lost
  <1>6. /\ escrow' \in [Lenders -> EscrowType]
        /\ \A l \in Lenders : /\ escrow'[l].usdc = escrow'[l].escrow_amount
                              /\ escrow'[l].exists = escrow[l].exists
        /\ SharesOf(botPays, last) = botPays
    BY <1>1, <1>5, DistributedEscrows
  <1>7. usdc' \in Nat  BY <1>1, <1>5, <1>6, LoanFacts
  <1>8. contract' \in ContractType
    <2>1. 0 \in Nat /\ "Liquidated" \in Statuses  BY DEF Statuses
    <2> QED  BY <1>1, <1>2, <1>5, <2>1, ZenonT(40) DEF ContractType
  <1>9. /\ contract'.status = "Liquidated"
        /\ contract'.outstanding_balance = 0
        /\ contract'.funded_amount = contract.funded_amount
        /\ contract'.num_contributions = contract.num_contributions
        /\ contract'.contributions = contract.contributions
        /\ contract'.last_principal_payment <= now
    BY <1>1, <1>2 DEF ContractType, SameLenders
  <1>10. TypeOK'
    BY <1>1, <1>3, <1>6, <1>7, <1>8, LoanFacts DEF TypeOK, Liquidate
  <1> QED
    BY <1>1, <1>6, <1>9, <1>10, LoanFacts, LoanGoesOn DEF Liquidate

LEMMA SeizedFits ==
    ASSUME NEW repaid \in Nat, NEW amount \in Nat, NEW value \in Nat \ {0}
    PROVE  /\ CollateralToSeize(repaid, amount, value) \in Nat
           /\ CollateralToSeize(repaid, amount, value) <= amount
  <1> DEFINE numerator == repaid * (BpsDenom + LiquidationFeeBps) * amount
             denominator == value * BpsDenom
             rounded == (numerator + denominator - 1) \div denominator
  <1>1. BpsDenom \in Nat \ {0} /\ LiquidationFeeBps \in Nat
    BY ConstantsAreNumbers, ServicingConstantsAreNumbers
  <1>2. numerator \in Nat  BY <1>1
  <1>3. denominator \in Nat \ {0}
    <2>1. \A a, b \in Nat \ {0} : a * b \in Nat \ {0}  OBVIOUS
    <2> QED  BY <1>1, <2>1
  <1>4. CollateralToSeize(repaid, amount, value) = Lesser(rounded, amount)
    BY DEF CollateralToSeize
  <1> HIDE DEF numerator, denominator
  <1>5. numerator + denominator - 1 \in Nat  BY <1>2, <1>3
  <1>6. rounded \in Nat  BY <1>3, <1>5, QuotientType
  <1> HIDE DEF rounded
  <1> QED  BY <1>4, <1>6, LesserIs

(* The two ends of a partial liquidation.                                  *)
LEMMA AfterPartialIs ==
    ASSUME NEW c \in ContractType, NEW repaid \in Nat, NEW seized \in Nat,
           repaid <= c.outstanding_balance, seized <= c.collateral_amount
    PROVE  /\ AfterPartial(c, repaid, seized) \in ContractType
           /\ AfterPartial(c, repaid, seized).funded_amount = c.funded_amount
           /\ AfterPartial(c, repaid, seized).num_contributions =
                c.num_contributions
           /\ AfterPartial(c, repaid, seized).contributions = c.contributions
           /\ AfterPartial(c, repaid, seized).last_principal_payment =
                c.last_principal_payment
           /\ \/ /\ AfterPartial(c, repaid, seized).status = "Completed"
                 /\ AfterPartial(c, repaid, seized).outstanding_balance = 0
              \/ /\ AfterPartial(c, repaid, seized).status = c.status
                 /\ AfterPartial(c, repaid, seized).recall_requested =
                      c.recall_requested
                 /\ AfterPartial(c, repaid, seized).recall_requested_by =
                      c.recall_requested_by
                 /\ AfterPartial(c, repaid, seized).collateral_amount =
                      c.collateral_amount - seized
  <1> DEFINE after == AfterPartial(c, repaid, seized)
             paid == c.total_principal_paid + repaid
             lost == c.uncollectable_balance + c.accrued_interest
             balance == c.outstanding_balance - repaid
             pledged == c.collateral_amount - seized
  <1>1. paid \in Nat /\ lost \in Nat /\ balance \in Nat /\ pledged \in Nat
    BY DEF ContractType
  <1>2. CASE c.outstanding_balance = repaid
    <2>1. after = [c EXCEPT !.status = "Completed",
                            !.outstanding_balance = 0,
                            !.total_principal_paid = paid,
                            !.uncollectable_balance = lost,
                            !.accrued_interest = 0,
                            !.collateral_amount = 0]
      BY <1>2 DEF AfterPartial
    <2> HIDE DEF after, paid, lost
    <2>2. 0 \in Nat /\ "Completed" \in Statuses  BY DEF Statuses
    <2>3. after \in ContractType
      BY <1>1, <2>1, <2>2, ZenonT(40) DEF ContractType
    <2>4. /\ after.status = "Completed" /\ after.outstanding_balance = 0
          /\ after.funded_amount = c.funded_amount
          /\ after.num_contributions = c.num_contributions
          /\ after.contributions = c.contributions
          /\ after.last_principal_payment = c.last_principal_payment
      BY <2>1 DEF ContractType
    <2> QED  BY <2>3, <2>4 DEF after
  <1>3. CASE c.outstanding_balance # repaid
    <2>1. after = [c EXCEPT !.outstanding_balance = balance,
                            !.total_principal_paid = paid,
                            !.collateral_amount = pledged]
      BY <1>3 DEF AfterPartial
    <2> HIDE DEF after, paid, balance, pledged
    <2>3. after \in ContractType  BY <1>1, <2>1, ZenonT(40) DEF ContractType
    <2>4. /\ after.status = c.status
          /\ after.recall_requested = c.recall_requested
          /\ after.recall_requested_by = c.recall_requested_by
          /\ after.collateral_amount = pledged
          /\ after.funded_amount = c.funded_amount
          /\ after.num_contributions = c.num_contributions
          /\ after.contributions = c.contributions
          /\ after.last_principal_payment = c.last_principal_payment
      BY <2>1 DEF ContractType
    <2> QED  BY <2>3, <2>4 DEF after, pledged
  <1> QED  BY <1>2, <1>3

LEMMA PartialLiquidateKeeps ==
    ASSUME LoanInductive, NEW amount \in Nat, NEW price \in Prices,
           NEW last \in Lenders, NEW toBorrower \in BOOLEAN,
           PartialLiquidate(amount, price, last, toBorrower)
    PROVE  LoanInductive'
  <1> DEFINE c == WithInterest(contract)
             debt == DebtOf(c)
             pledged == Lesser(collateral, c.collateral_amount)
             value == pledged * price
             cap == Lesser(BpsOf(debt, PartialCapBps), c.outstanding_balance)
             repaid == Lesser(amount, cap)
             seized == CollateralToSeize(repaid, pledged, value)
             left == collateral - seized
  <1>1. /\ OnLoan /\ last \in contract.contributions /\ value > 0
        /\ totalDebt >= repaid
        /\ escrow' = EscrowsWith(repaid, last)
        /\ usdc' = usdc + repaid - SharesOf(repaid, last)
        /\ contract' = AfterPartial(c, repaid, seized)
        /\ collateral' = IF contract'.status = "Completed" /\ toBorrower
                         THEN 0 ELSE left
        /\ totalDebt' = totalDebt - repaid
    BY DEF PartialLiquidate, LendersPassed
  <1>2. /\ c \in ContractType /\ SameLenders(contract, c) /\ debt \in Nat
        /\ c.last_principal_payment <= now
    BY LoanFacts, DebtType
  <1> HIDE DEF c, debt
  <1>3. /\ c.outstanding_balance \in Nat /\ c.collateral_amount \in Nat
        /\ collateral \in Nat /\ collateral = c.collateral_amount
        /\ totalDebt \in Nat /\ usdc \in Nat
    BY <1>1, <1>2, LoanFacts DEF ContractType, SameLenders
  <1>4. pledged = collateral  BY <1>3 DEF Lesser
  <1>5. value \in Nat \ {0}
    <2>1. price \in Nat  BY ServicingConstantsAreNumbers
    <2> HIDE DEF pledged
    <2> QED  BY <1>1, <1>3, <1>4, <2>1
  <1>6. cap \in Nat /\ cap <= c.outstanding_balance
    <2>1. PartialCapBps \in Nat
      BY ServicingConstantsAreNumbers, ConstantsAreNumbers
    <2>2. BpsOf(debt, PartialCapBps) \in Nat  BY <1>2, <2>1, BpsIsNat
    <2> QED  BY <1>3, <2>2, LesserIs
  <1> HIDE DEF pledged, value, cap
  <1>7. repaid \in Nat /\ repaid <= c.outstanding_balance
    <2>1. repaid \in Nat /\ repaid <= cap  BY <1>6, LesserIs
    <2> HIDE DEF repaid
    <2> QED  BY <1>3, <1>6, <2>1
  <1> HIDE DEF repaid
  <1>8. seized \in Nat /\ seized <= collateral
    BY <1>3, <1>4, <1>5, <1>7, SeizedFits
  <1> HIDE DEF seized
  <1>9. /\ escrow' \in [Lenders -> EscrowType]
        /\ \A l \in Lenders : /\ escrow'[l].usdc = escrow'[l].escrow_amount
                              /\ escrow'[l].exists = escrow[l].exists
        /\ SharesOf(repaid, last) = repaid
    BY <1>1, <1>7, DistributedEscrows
  <1>10. usdc' \in Nat /\ totalDebt' \in Nat
    BY <1>1, <1>3, <1>7, <1>9
  <1>11. left \in Nat /\ collateral' \in Nat
    BY <1>1, <1>3, <1>8
  <1>12. /\ contract' \in ContractType
         /\ contract'.funded_amount = contract.funded_amount
         /\ contract'.num_contributions = contract.num_contributions
         /\ contract'.contributions = contract.contributions
         /\ contract'.last_principal_payment <= now
         /\ \/ /\ contract'.status = "Completed"
               /\ contract'.outstanding_balance = 0
            \/ /\ contract'.status = contract.status
               /\ contract'.recall_requested = contract.recall_requested
               /\ contract'.recall_requested_by = contract.recall_requested_by
               /\ contract'.collateral_amount = c.collateral_amount - seized
    BY <1>1, <1>2, <1>3, <1>7, <1>8, AfterPartialIs DEF SameLenders
  <1>13. contract'.status = contract.status =>
            collateral' = collateral - seized
    BY <1>1 DEF OnLoan
  <1>14. TypeOK'
    BY <1>9, <1>10, <1>11, <1>12, LoanFacts DEF TypeOK, PartialLiquidate
  <1>15. UNCHANGED <<now, terms, contribution>>  BY DEF PartialLiquidate
  <1>16. \/ /\ contract'.status = contract.status
            /\ contract'.recall_requested = contract.recall_requested
            /\ contract'.recall_requested_by = contract.recall_requested_by
            /\ collateral' = contract'.collateral_amount
         \/ /\ contract'.status \in {"Completed", "Liquidated"}
            /\ contract'.outstanding_balance = 0
    BY <1>3, <1>12, <1>13
  <1>17. \A l \in Lenders : /\ escrow'[l].usdc = escrow'[l].escrow_amount
                            /\ escrow[l].exists => escrow'[l].exists
    BY <1>9
  <1> QED
    BY <1>1, <1>12, <1>14, <1>15, <1>16, <1>17, LoanGoesOn

-----------------------------------------------------------------------------
(* Recalls.                                                                *)
LEMMA RequestRecallKeeps ==
    ASSUME LoanInductive, NEW l \in Lenders, RequestRecall(l)
    PROVE  LoanInductive'
  <1>1. contract' = [contract EXCEPT !.status = "PendingRecall",
                                     !.recall_requested = TRUE,
                                     !.recall_requested_at = now,
                                     !.recall_requested_by = l]
    BY DEF RequestRecall
  <1>2. /\ contract \in ContractType /\ now \in Nat /\ OnLoan
        /\ contract.contributions = Contributors
        /\ collateral = contract.collateral_amount
    BY LoanFacts DEF RequestRecall, OnLoan
  <1>3. contract' \in ContractType
    <2>1. "PendingRecall" \in Statuses /\ TRUE \in BOOLEAN
          /\ l \in Lenders \union {Nobody}
      BY DEF Statuses
    <2> QED  BY <1>1, <1>2, <2>1, ZenonT(40) DEF ContractType
  <1>4. /\ contract'.status = "PendingRecall"
        /\ contract'.recall_requested /\ contract'.recall_requested_by = l
        /\ contract'.funded_amount = contract.funded_amount
        /\ contract'.num_contributions = contract.num_contributions
        /\ contract'.contributions = contract.contributions
        /\ contract'.collateral_amount = contract.collateral_amount
        /\ contract'.last_principal_payment = contract.last_principal_payment
    BY <1>1, <1>2 DEF ContractType
  <1>5. /\ UNCHANGED <<now, terms, contribution, escrow, collateral>>
        /\ Contributors' = Contributors
    BY DEF RequestRecall, Contributors
  <1>6. TypeOK'  BY <1>3, LoanFacts DEF TypeOK, RequestRecall
  <1>7. l \in contract.contributions /\ escrow[l].exists
    <2>1. l \in Contributors  BY DEF RequestRecall, Contributors
    <2> QED  BY <1>2, <2>1 DEF LoanInductive, ContributorsHaveEscrows
  <1>8. Inductive'
    BY <1>2, <1>4, <1>5, <1>6
       DEF LoanInductive, Inductive, ListingHasRoom, ContributorsAreListed,
           AccountHoldsFunding, UncreatedIsFresh, IsOpen, OpenStatuses, OnLoan
  <1>9. FundingBooks' /\ StakesArePositive'
    BY <1>4, <1>5, BooksStay DEF LoanInductive, StakesArePositive
  <1>10. RecallNamesALender'
    BY <1>4, <1>5, <1>7 DEF RecallNamesALender
  <1>11. CollateralIsHeld'  BY <1>2, <1>4, <1>5 DEF CollateralIsHeld
  <1>12. ContributorsHaveEscrows' /\ NothingPaidBefore'
    BY <1>2, <1>4, <1>5
       DEF LoanInductive, ContributorsHaveEscrows, NothingPaidBefore, OnLoan
  <1>13. NoDebtIsLeftBehind' /\ EscrowsHoldTheirAmount'
    BY <1>4, <1>5 DEF LoanInductive, NoDebtIsLeftBehind, EscrowsHoldTheirAmount
  <1> QED
    BY <1>4, <1>5, <1>8, <1>9, <1>10, <1>11, <1>12, <1>13, LoanFacts
       DEF LoanInductive
(* The part of an amount that goes with a stake.                           *)
StakeFits(l) ==
    /\ contribution[l].contribution_amount \in Nat
    /\ contract.funded_amount \in Nat \ {0}
    /\ contribution[l].contribution_amount <= contract.funded_amount

LEMMA PartOfStakeFits ==
    ASSUME NEW l, StakeFits(l), NEW amount \in Nat
    PROVE  /\ RecallPart(l, amount) \in Nat
           /\ RecallPart(l, amount) <= amount
           /\ RecallPart(l, amount) * contract.funded_amount <=
                contribution[l].contribution_amount * amount
           /\ contribution[l].contribution_amount = contract.funded_amount =>
                RecallPart(l, amount) = amount
  <1> DEFINE part == contribution[l].contribution_amount
             whole == contract.funded_amount
  <1>1. part \in Nat /\ whole \in Nat \ {0} /\ part <= whole
    BY DEF StakeFits
  <1>2. RecallPart(l, amount) = Share(part, whole, amount)  BY DEF RecallPart
  <1> HIDE DEF part, whole
  <1>3. /\ Share(part, whole, amount) \in Nat
        /\ Share(part, whole, amount) <= amount
        /\ Share(part, whole, amount) * whole <= part * amount
    BY <1>1, ShareFits
  <1>4. part = whole => Share(part, whole, amount) = amount
    BY <1>1, WholeShare
  <1> QED  BY <1>2, <1>3, <1>4 DEF part, whole

LEMMA RecallPartFits ==
    ASSUME LoanInductive, OnLoan, NEW l \in contract.contributions,
           NEW amount \in Nat
    PROVE  /\ RecallPart(l, amount) \in Nat
           /\ RecallPart(l, amount) <= amount
           /\ RecallPart(l, amount) * contract.funded_amount <=
                contribution[l].contribution_amount * amount
           /\ contribution[l].contribution_amount = contract.funded_amount =>
                RecallPart(l, amount) = amount
  <1>1. StakeFits(l)  BY LoanIsFunded DEF StakeFits
  <1> QED  BY <1>1, PartOfStakeFits

(* The contract without a lender, whatever else its accounts hold.         *)
LEMMA WithoutStakeIs ==
    ASSUME contract \in ContractType, IsFiniteSet(contract.contributions),
           NEW l \in contract.contributions, StakeFits(l)
    PROVE  /\ WithoutLender(l) \in ContractType
           /\ WithoutLender(l).outstanding_balance =
                contract.outstanding_balance
                  - RecallPart(l, contract.outstanding_balance)
           /\ WithoutLender(l).collateral_amount =
                contract.collateral_amount
                  - RecallPart(l, contract.collateral_amount)
           /\ WithoutLender(l).funded_amount =
                contract.funded_amount - contribution[l].contribution_amount
           /\ WithoutLender(l).contributions = contract.contributions \ {l}
           /\ WithoutLender(l).num_contributions =
                Cardinality(contract.contributions \ {l})
           /\ ~WithoutLender(l).recall_requested
           /\ WithoutLender(l).accrued_interest = contract.accrued_interest
           /\ WithoutLender(l).last_principal_payment =
                contract.last_principal_payment
           /\ WithoutLender(l).status =
                IF \/ WithoutLender(l).outstanding_balance = 0
                   \/ WithoutLender(l).contributions = {}
                THEN "Completed" ELSE "Active"
  <1> DEFINE remaining == contract.contributions \ {l}
             debt == contract.outstanding_balance
                       - RecallPart(l, contract.outstanding_balance)
             pledged == contract.collateral_amount
                          - RecallPart(l, contract.collateral_amount)
             funded == contract.funded_amount
                         - contribution[l].contribution_amount
             number == Cardinality(remaining)
             status == IF debt = 0 \/ remaining = {} THEN "Completed"
                       ELSE "Active"
             c == WithoutLender(l)
  <1>1. /\ contract \in ContractType
        /\ contract.outstanding_balance \in Nat
        /\ contract.collateral_amount \in Nat
        /\ IsFiniteSet(contract.contributions)
        /\ contract.contributions \subseteq Lenders
    BY DEF ContractType
  <1>2. debt \in Nat  BY <1>1, PartOfStakeFits
  <1>3. pledged \in Nat  BY <1>1, PartOfStakeFits
  <1>4. funded \in Nat  BY DEF StakeFits
  <1>5. remaining \in SUBSET Lenders /\ number \in Nat
    <2>1. IsFiniteSet(remaining)  BY <1>1, FS_RemoveElement
    <2> QED  BY <1>1, <2>1, FS_CardinalityType
  <1>6. status \in Statuses  BY DEF Statuses
  <1>7. c = [contract EXCEPT !.outstanding_balance = debt,
                             !.collateral_amount = pledged,
                             !.funded_amount = funded,
                             !.contributions = remaining,
                             !.num_contributions = number,
                             !.recall_requested = FALSE,
                             !.recall_requested_at = 0,
                             !.recall_requested_by = Nobody,
                             !.status = status]
    BY DEF WithoutLender
  <1>8. status = IF debt = 0 \/ remaining = {} THEN "Completed" ELSE "Active"
    OBVIOUS
  <1> HIDE DEF remaining, debt, pledged, funded, number, status, c
  <1>9. c \in ContractType
    <2>1. 0 \in Nat /\ FALSE \in BOOLEAN /\ Nobody \in Lenders \union {Nobody}
      OBVIOUS
    <2> QED
      BY <1>1, <1>2, <1>3, <1>4, <1>5, <1>6, <1>7, <2>1, ZenonT(60)
         DEF ContractType
  <1>10. /\ c.outstanding_balance = debt
         /\ c.collateral_amount = pledged
         /\ c.funded_amount = funded
         /\ c.contributions = remaining
         /\ c.num_contributions = number
         /\ ~c.recall_requested
         /\ c.accrued_interest = contract.accrued_interest
         /\ c.last_principal_payment = contract.last_principal_payment
         /\ c.status = status
    BY <1>1, <1>7 DEF ContractType
  <1>11. c.status = IF c.outstanding_balance = 0 \/ c.contributions = {}
                    THEN "Completed" ELSE "Active"
    BY <1>8, <1>10
  <1> QED
    BY <1>9, <1>10, <1>11 DEF c, debt, pledged, funded, remaining, number

LEMMA WithoutLenderIs ==
    ASSUME LoanInductive, OnLoan, NEW l \in contract.contributions
    PROVE  /\ WithoutLender(l) \in ContractType
           /\ WithoutLender(l).outstanding_balance =
                contract.outstanding_balance
                  - RecallPart(l, contract.outstanding_balance)
           /\ WithoutLender(l).collateral_amount =
                contract.collateral_amount
                  - RecallPart(l, contract.collateral_amount)
           /\ WithoutLender(l).funded_amount =
                contract.funded_amount - contribution[l].contribution_amount
           /\ WithoutLender(l).contributions = contract.contributions \ {l}
           /\ WithoutLender(l).num_contributions =
                Cardinality(contract.contributions \ {l})
           /\ ~WithoutLender(l).recall_requested
           /\ WithoutLender(l).last_principal_payment =
                contract.last_principal_payment
           /\ WithoutLender(l).status =
                IF \/ WithoutLender(l).outstanding_balance = 0
                   \/ WithoutLender(l).contributions = {}
                THEN "Completed" ELSE "Active"
  <1>1. /\ contract \in ContractType /\ IsFiniteSet(contract.contributions)
        /\ StakeFits(l)
    BY LoanFacts, LoanIsFunded DEF Inductive, StakeFits
  <1> QED  BY <1>1, WithoutStakeIs

(* A recall that is settled: the lender leaves with its part of the debt,  *)
(* and when nobody stays that is all of it.                                *)
LEMMA SettleRecallKeeps ==
    ASSUME LoanInductive, NEW l \in Lenders, NEW received \in Nat,
           MaySettleRecall(l), SettleRecall(l, received), treasuryUsdc' \in Nat
    PROVE  LoanInductive'
  <1>1. /\ OnLoan /\ l \in contract.contributions
        /\ collateral >= RecallPart(l, contract.collateral_amount)
        /\ totalDebt >= RecallPart(l, contract.outstanding_balance)
        /\ contract' = WithoutLender(l)
        /\ contribution' = [contribution EXCEPT ![l].is_refunded = TRUE]
        /\ escrow' = [escrow EXCEPT ![l] = Credited(@, 0, received)]
        /\ collateral' = collateral - RecallPart(l, contract.collateral_amount)
        /\ totalDebt' = totalDebt - RecallPart(l, contract.outstanding_balance)
        /\ UNCHANGED <<now, isPaused, terms, approved, usdc>>
    BY DEF MaySettleRecall, SettleRecall, OnLoan
  <1>2. /\ contract \in ContractType /\ totalDebt \in Nat /\ collateral \in Nat
        /\ contract.outstanding_balance \in Nat
        /\ contract.collateral_amount \in Nat
        /\ contract.funded_amount \in Nat
        /\ collateral = contract.collateral_amount
        /\ contract.contributions = Contributors
        /\ Contributors \subseteq Lenders /\ IsFiniteSet(Contributors)
        /\ contribution \in [Lenders -> ContributionType]
        /\ escrow \in [Lenders -> EscrowType]
        /\ \A k \in Lenders : escrow[k].usdc = escrow[k].escrow_amount
        /\ \A k \in Contributors : escrow[k].exists
    BY <1>1, LoanFacts
       DEF ContractType, LoanInductive, FundingBooks, ContributorsHaveEscrows
  <1>3. /\ RecallPart(l, contract.outstanding_balance) \in Nat
        /\ RecallPart(l, contract.collateral_amount) \in Nat
    BY <1>1, <1>2, RecallPartFits
  <1>4. /\ contract' \in ContractType
        /\ contract'.collateral_amount = collateral'
        /\ contract'.funded_amount =
             contract.funded_amount - contribution[l].contribution_amount
        /\ contract'.contributions = contract.contributions \ {l}
        /\ contract'.num_contributions = Cardinality(contract'.contributions)
        /\ ~contract'.recall_requested
        /\ contract'.last_principal_payment <= now
        /\ contract'.status \in {"Active", "Completed"}
        /\ contract'.status = "Completed" =>
              \/ contract'.outstanding_balance = 0
              \/ contract'.contributions = {}
    BY <1>1, <1>2, LoanFacts, WithoutLenderIs
  <1>5. /\ contribution' \in [Lenders -> ContributionType]
        /\ Contributors' = Contributors \ {l}
        /\ \A k \in Lenders \ {l} : contribution'[k] = contribution[k]
    BY <1>1, <1>2 DEF ContributionType, Contributors
  <1>6. /\ escrow' \in [Lenders -> EscrowType]
        /\ \A k \in Lenders : /\ escrow'[k].usdc = escrow'[k].escrow_amount
                              /\ escrow'[k].exists = escrow[k].exists
    <2> DEFINE e == Credited(escrow[l], 0, received)
    <2>1. /\ e \in EscrowType /\ e.exists = escrow[l].exists
          /\ e.usdc = e.escrow_amount
      <3>1. 0 \in Nat  OBVIOUS
      <3> QED  BY <1>2, <3>1, CreditedType
    <2>2. escrow' = [escrow EXCEPT ![l] = e]  BY <1>1
    <2> HIDE DEF e
    <2> QED  BY <1>2, <2>1, <2>2
  <1>7. TypeOK'
    <2>1. collateral' \in Nat /\ totalDebt' \in Nat  BY <1>1, <1>2, <1>3
    <2> QED  BY <1>1, <1>4, <1>5, <1>6, <2>1, LoanFacts DEF TypeOK
  <1>8. FundingBooks'
    <2>1. l \in Contributors /\ l \notin Contributors'  BY <1>1, <1>2, <1>5
    <2> QED  BY <1>4, <1>5, <2>1, LoanFacts, LeavingIsBooked
  <1>9. StakesArePositive'
    BY <1>5 DEF LoanInductive, StakesArePositive, Contributors
  <1>10. Inductive'
    <2>1. ContributorsAreListed' /\ IsFiniteSet(contract'.contributions)
      BY <1>2, <1>4, <1>5, FS_RemoveElement DEF ContributorsAreListed
    <2> QED
      BY <1>4, <1>7, <2>1
         DEF Inductive, ListingHasRoom, AccountHoldsFunding, UncreatedIsFresh,
             IsOpen, OpenStatuses
  <1>11. NoDebtIsLeftBehind'
    <2>1. SUFFICES ASSUME contract'.contributions = {}
                   PROVE  contract'.outstanding_balance = 0
      BY <1>4 DEF NoDebtIsLeftBehind
    <2>2. Contributors' = {}  BY <1>2, <1>4, <1>5, <2>1
    <2>3. contract'.funded_amount = 0
      <3>1. AmountTotal(contribution', {}) = 0
        BY AmountTotalIs, TotalEmpty, FS_EmptySet
      <3> QED  BY <1>8, <2>2, <3>1 DEF FundingBooks
    <2>4. contribution[l].contribution_amount = contract.funded_amount
      BY <1>1, <1>4, <2>3, LoanIsFunded
    <2>5. RecallPart(l, contract.outstanding_balance) =
            contract.outstanding_balance
      BY <1>1, <1>2, <2>4, RecallPartFits
    <2>6. contract'.outstanding_balance =
            contract.outstanding_balance
              - RecallPart(l, contract.outstanding_balance)
      BY <1>1, WithoutLenderIs
    <2> QED  BY <1>2, <2>5, <2>6
  <1>12. EscrowsHoldTheirAmount'  BY <1>6 DEF EscrowsHoldTheirAmount
  <1>13. RecallNamesALender' /\ CollateralIsHeld' /\ NothingPaidBefore'
    BY <1>4 DEF RecallNamesALender, CollateralIsHeld, NothingPaidBefore, OnLoan
  <1>14. ContributorsHaveEscrows'
    BY <1>2, <1>4, <1>6 DEF ContributorsHaveEscrows
  <1> QED
    BY <1>1, <1>4, <1>8, <1>9, <1>10, <1>11, <1>12, <1>13, <1>14
       DEF LoanInductive

LEMMA BorrowerRepayRecallKeeps ==
    ASSUME LoanInductive, NEW l \in Lenders, BorrowerRepayRecall(l)
    PROVE  LoanInductive'
  <1>1. OnLoan /\ l \in contract.contributions
    BY DEF BorrowerRepayRecall, MaySettleRecall, OnLoan
  <1>2. RecallPart(l, contract.outstanding_balance) \in Nat
    BY <1>1, LoanFacts, RecallPartFits DEF ContractType
  <1>3. treasuryUsdc' \in Nat  BY LoanFacts DEF BorrowerRepayRecall
  <1> QED  BY <1>2, <1>3, SettleRecallKeeps DEF BorrowerRepayRecall

LEMMA ProcessRecallKeeps ==
    ASSUME LoanInductive, NEW l \in Lenders, NEW paidFrontend \in BOOLEAN,
           ProcessRecall(l, paidFrontend)
    PROVE  LoanInductive'
  <1> DEFINE debtShare == RecallPart(l, contract.outstanding_balance)
             fee == BpsOf(debtShare, RecallFeeBps)
             frontendShare == IF terms.frontend /\ paidFrontend
                              THEN BpsOf(fee, FrontendShareBps) ELSE 0
             received == debtShare - fee
  <1>1. /\ OnLoan /\ l \in contract.contributions /\ MaySettleRecall(l)
        /\ SettleRecall(l, received)
        /\ treasuryUsdc' = treasuryUsdc + fee - frontendShare
    BY DEF ProcessRecall, MaySettleRecall, OnLoan
  <1>2. debtShare \in Nat
    BY <1>1, LoanFacts, RecallPartFits DEF ContractType
  <1> HIDE DEF debtShare
  <1>3. /\ RecallFeeBps \in Nat /\ RecallFeeBps <= BpsDenom
        /\ FrontendShareBps \in Nat /\ FrontendShareBps <= BpsDenom
    BY ConstantsAreNumbers, ServicingConstantsAreNumbers
  <1>4. fee \in Nat /\ fee <= debtShare  BY <1>2, <1>3, BpsIsNat
  <1> HIDE DEF fee
  <1>5. frontendShare \in Nat /\ frontendShare <= fee
    <2>1. /\ BpsOf(fee, FrontendShareBps) \in Nat
          /\ BpsOf(fee, FrontendShareBps) <= fee
      BY <1>3, <1>4, BpsIsNat
    <2> QED  BY <1>4, <2>1
  <1> HIDE DEF frontendShare
  <1>6. received \in Nat  BY <1>2, <1>4
  <1> HIDE DEF received
  <1>7. treasuryUsdc' \in Nat  BY <1>1, <1>4, <1>5, LoanFacts
  <1> QED  BY <1>1, <1>6, <1>7, SettleRecallKeeps
-----------------------------------------------------------------------------
(* Steps that change escrows only, or nothing of the loan.                 *)
LEMMA EscrowsChange ==
    ASSUME LoanInductive, TypeOK',
           UNCHANGED <<now, terms, contract, contribution, usdc, collateral>>,
           \A l \in Lenders : /\ escrow'[l].usdc = escrow'[l].escrow_amount
                              /\ escrow[l].usdc = 0 => escrow'[l].usdc = 0,
           IsOpen \/ OnLoan =>
              \A l \in Lenders : escrow[l].exists => escrow'[l].exists
    PROVE  LoanInductive'
  <1>1. Inductive'  BY ElsewhereInductive DEF LoanInductive
  <1>2. FundingBooks' /\ StakesArePositive'
    BY BooksStay DEF LoanInductive, StakesArePositive, Contributors
  <1>3. contract.contributions \subseteq Lenders
    BY LoanFacts DEF ContractType
  <1>4. EscrowsHoldTheirAmount'  BY DEF EscrowsHoldTheirAmount
  <1>5. RecallNamesALender'
    BY <1>3 DEF LoanInductive, RecallNamesALender, OnLoan
  <1>6. CollateralIsHeld' /\ NoDebtIsLeftBehind'
    BY DEF LoanInductive, CollateralIsHeld, NoDebtIsLeftBehind, IsOpen, OnLoan
  <1>7. NothingPaidBefore'
    BY DEF LoanInductive, NothingPaidBefore, OnLoan
  <1>8. ContributorsHaveEscrows'
    BY <1>3 DEF LoanInductive, ContributorsHaveEscrows, IsOpen, OnLoan
  <1> QED
    BY <1>1, <1>2, <1>4, <1>5, <1>6, <1>7, <1>8 DEF LoanInductive

LEMMA UpdateLenderEscrowKeeps ==
    ASSUME LoanInductive, NEW l \in Lenders, UpdateLenderEscrow(l)
    PROVE  LoanInductive'
  <1> DEFINE interest == Share(contribution[l].contribution_amount,
                               contract.funded_amount,
                               contract.accrued_interest)
             principal == Share(contribution[l].contribution_amount,
                                contract.funded_amount,
                                contract.total_principal_paid)
             toClaim == escrow[l].available_interest
                          + MinusSaturating(interest,
                                            escrow[l].available_interest)
             due == escrow[l].available_principal
                      + MinusSaturating(principal,
                                        escrow[l].available_principal)
             e == [escrow[l] EXCEPT !.available_interest = toClaim,
                                    !.available_principal = due]
  <1>1. escrow' = [escrow EXCEPT ![l].available_interest = toClaim,
                                 ![l].available_principal = due]
    BY DEF UpdateLenderEscrow
  <1>2. /\ contract.funded_amount \in Nat \ {0}
        /\ contract.accrued_interest \in Nat
        /\ contract.total_principal_paid \in Nat
        /\ contribution[l].contribution_amount \in Nat
        /\ escrow \in [Lenders -> EscrowType]
        /\ \A k \in Lenders : escrow[k].usdc = escrow[k].escrow_amount
    BY LoanFacts DEF UpdateLenderEscrow, ContractType, ContributionType
  <1>3. interest \in Nat /\ principal \in Nat
    <2>1. /\ contribution[l].contribution_amount * contract.accrued_interest
               \in Nat
          /\ contribution[l].contribution_amount * contract.total_principal_paid
               \in Nat
      BY <1>2
    <2> QED  BY <1>2, <2>1, QuotientType DEF Share
  <1> HIDE DEF interest, principal
  <1>4. /\ escrow[l].available_interest \in Nat
        /\ escrow[l].available_principal \in Nat
    BY <1>2 DEF EscrowType
  <1>5. toClaim \in Nat /\ due \in Nat  BY <1>3, <1>4 DEF MinusSaturating
  <1> HIDE DEF toClaim, due
  <1>6. /\ e \in EscrowType /\ e.exists = escrow[l].exists
        /\ e.usdc = escrow[l].usdc /\ e.escrow_amount = escrow[l].escrow_amount
    BY <1>2, <1>5 DEF EscrowType
  <1>7. escrow' = [escrow EXCEPT ![l] = e]  BY <1>1, <1>2
  <1> HIDE DEF e
  <1>8. /\ escrow' \in [Lenders -> EscrowType]
        /\ \A k \in Lenders : /\ escrow'[k].usdc = escrow[k].usdc
                              /\ escrow'[k].escrow_amount = escrow[k].escrow_amount
                              /\ escrow'[k].exists = escrow[k].exists
    BY <1>2, <1>6, <1>7
  <1>9. TypeOK'  BY <1>8, LoanFacts DEF TypeOK, UpdateLenderEscrow
  <1> QED  BY <1>2, <1>8, <1>9, EscrowsChange DEF UpdateLenderEscrow

LEMMA ClaimFromEscrowKeeps ==
    ASSUME LoanInductive, NEW l \in Lenders, ClaimFromEscrow(l)
    PROVE  LoanInductive'
  <1> DEFINE total == escrow[l].available_interest
                        + escrow[l].available_principal
             amount == escrow[l].escrow_amount - total
             balance == escrow[l].usdc - total
             after == [escrow[l] EXCEPT !.escrow_amount = amount,
                                        !.available_interest = 0,
                                        !.available_principal = 0,
                                        !.usdc = balance]
  <1>1. /\ escrow \in [Lenders -> EscrowType]
        /\ \A k \in Lenders : escrow[k].usdc = escrow[k].escrow_amount
    BY LoanFacts
  <1>2. total \in Nat /\ total > 0 /\ escrow[l].usdc >= total
        /\ escrow[l].usdc \in Nat
    BY <1>1 DEF EscrowType, ClaimFromEscrow
  <1>3. OnLoan \/ contract.status \in {"Completed", "Liquidated"}
    BY <1>2 DEF LoanInductive, NothingPaidBefore
  <1>4. CASE escrow' = [escrow EXCEPT ![l] = after]
    <2>1. amount = balance /\ balance \in Nat /\ amount \in Nat
      BY <1>1, <1>2
    <2> HIDE DEF total
    <2>2. escrow[l] \in EscrowType /\ 0 \in Nat  BY <1>1
    <2>3. amount = balance  BY <2>1
    <2>4. amount \in Nat /\ balance \in Nat  BY <2>1
    <2> HIDE DEF amount, balance
    <2>5. /\ after \in EscrowType /\ after.exists = escrow[l].exists
          /\ after.usdc = balance /\ after.escrow_amount = amount
      BY <2>2, <2>4 DEF EscrowType
    <2> HIDE DEF after
    <2>6. /\ escrow' \in [Lenders -> EscrowType]
          /\ \A k \in Lenders :
                /\ escrow'[k].usdc = escrow'[k].escrow_amount
                /\ escrow'[k].exists = escrow[k].exists
                /\ k # l => escrow'[k] = escrow[k]
      BY <1>1, <1>4, <2>3, <2>5
    <2>7. escrow[l].usdc # 0  BY <1>2
    <2>8. TypeOK'  BY <2>6, LoanFacts DEF TypeOK, ClaimFromEscrow
    <2> QED  BY <2>6, <2>7, <2>8, EscrowsChange DEF ClaimFromEscrow
  <1>5. CASE /\ contract.status \in {"Completed", "Liquidated"}
             /\ escrow' = [escrow EXCEPT ![l] = NoEscrow]
    <2>1. /\ NoEscrow \in EscrowType /\ NoEscrow.usdc = 0
          /\ NoEscrow.escrow_amount = 0
      BY DEF NoEscrow, EscrowType
    <2>2. /\ escrow' \in [Lenders -> EscrowType]
          /\ \A k \in Lenders :
                /\ escrow'[k].usdc = escrow'[k].escrow_amount
                /\ escrow[k].usdc = 0 => escrow'[k].usdc = 0
      BY <1>1, <1>5, <2>1
    <2>3. ~IsOpen /\ ~OnLoan  BY <1>5 DEF IsOpen, OpenStatuses, OnLoan
    <2>4. TypeOK'  BY <2>2, LoanFacts DEF TypeOK, ClaimFromEscrow
    <2> QED  BY <2>2, <2>3, <2>4, EscrowsChange DEF ClaimFromEscrow
  <1> QED  BY <1>4, <1>5 DEF ClaimFromEscrow

-----------------------------------------------------------------------------
(* The steps of the listing.                                               *)
LEMMA ListingGoesOn ==
    ASSUME LoanInductive, Inductive', FundingBooks', StakesArePositive',
           contract.status \in OpenStatuses \union {"Uncreated", "Cancelled"},
           contract'.status \in OpenStatuses \union {"Active", "Cancelled"},
           now' = now, contract'.last_principal_payment <= now,
           ~contract'.recall_requested,
           \A l \in Lenders : /\ escrow'[l].usdc = escrow[l].usdc
                              /\ escrow'[l].escrow_amount \in
                                    {0, escrow[l].escrow_amount},
           contract'.status # "Cancelled" =>
              /\ collateral' = contract'.collateral_amount
              /\ \A l \in contract'.contributions : escrow'[l].exists
    PROVE  LoanInductive'
  <1>1. \A l \in Lenders : escrow'[l].usdc = 0 /\ escrow'[l].escrow_amount = 0
    BY LoanFacts DEF LoanInductive, NothingPaidBefore, OnLoan, OpenStatuses
  <1>2. EscrowsHoldTheirAmount' /\ NothingPaidBefore'
    BY <1>1 DEF EscrowsHoldTheirAmount, NothingPaidBefore
  <1>3. RecallNamesALender' /\ NoDebtIsLeftBehind'
    BY DEF RecallNamesALender, NoDebtIsLeftBehind, OnLoan, OpenStatuses
  <1>4. CollateralIsHeld' /\ ContributorsHaveEscrows'
    BY DEF CollateralIsHeld, ContributorsHaveEscrows, OnLoan, IsOpen,
           OpenStatuses
  <1> QED  BY <1>2, <1>3, <1>4 DEF LoanInductive

(* A listing's contract before it starts.                                  *)
LEMMA OpenFacts ==
    ASSUME LoanInductive, IsOpen
    PROVE  /\ contract.status \in OpenStatuses
           /\ ~contract.recall_requested
           /\ collateral = contract.collateral_amount
           /\ \A l \in contract.contributions : escrow[l].exists
  BY DEF LoanInductive, IsOpen, OpenStatuses, OnLoan, NothingPaidBefore,
         CollateralIsHeld, ContributorsHaveEscrows

LEMMA ActivatedRest ==
    ASSUME NEW c \in ContractType
    PROVE  /\ Activated(c).recall_requested = c.recall_requested
           /\ Activated(c).collateral_amount = c.collateral_amount
           /\ Activated(c).last_principal_payment = now
           /\ Activated(c).contributions = c.contributions
           /\ Activated(c).status = "Active"
  BY DEF Activated, ContractType

LEMMA StartKeeps ==
    ASSUME LoanInductive, [ListingNext]_vars, IsOpen, now' = now,
           contract' = Activated(contract), UNCHANGED <<escrow, collateral>>
    PROVE  LoanInductive'
  <1>1. Inductive' /\ FundingBooks' /\ StakesArePositive'
    BY LoanFacts, NextInductive, ListingIsBooked, ListingKeepsStakes
       DEF LoanInductive
  <1>2. contract \in ContractType /\ now \in Nat  BY LoanFacts
  <1>3. /\ contract'.recall_requested = contract.recall_requested
        /\ contract'.collateral_amount = contract.collateral_amount
        /\ contract'.last_principal_payment = now
        /\ contract'.contributions = contract.contributions
        /\ contract'.status = "Active"
    BY <1>2, ActivatedRest
  <1> QED  BY <1>1, <1>2, <1>3, OpenFacts, ListingGoesOn

LEMMA EndKeeps ==
    ASSUME LoanInductive, [ListingNext]_vars, IsOpen, now' = now,
           contract'.status = "Cancelled", UNCHANGED escrow,
           contract'.recall_requested = contract.recall_requested,
           contract'.last_principal_payment = contract.last_principal_payment
    PROVE  LoanInductive'
  <1>1. Inductive' /\ FundingBooks' /\ StakesArePositive'
    BY LoanFacts, NextInductive, ListingIsBooked, ListingKeepsStakes
       DEF LoanInductive
  <1> QED  BY <1>1, LoanFacts, OpenFacts, ListingGoesOn

LEMMA CreateKeeps ==
    ASSUME LoanInductive, NEW paid \in BOOLEAN, CreateDebtContract(paid),
           [ListingNext]_vars
    PROVE  LoanInductive'
  <1>1. Inductive' /\ FundingBooks' /\ StakesArePositive'
    BY LoanFacts, NextInductive, ListingIsBooked, ListingKeepsStakes
       DEF LoanInductive
  <1>2. /\ contract.status = "Uncreated" /\ UNCHANGED <<now, escrow>>
        /\ collateral' = terms.collateral_amount
        /\ contract' = [NoContract EXCEPT
             !.status = "OpenNotFunded",
             !.target_amount = terms.target_amount,
             !.created_at = now,
             !.expires_at = now + ListingLife,
             !.listing_fee_paid = BpsOf(terms.target_amount, ListingFeeBps),
             !.collateral_amount = terms.collateral_amount]
    BY DEF CreateDebtContract
  <1>3. /\ contract'.status = "OpenNotFunded" /\ contract'.contributions = {}
        /\ ~contract'.recall_requested
        /\ contract'.last_principal_payment = 0
        /\ contract'.collateral_amount = terms.collateral_amount
    BY <1>2 DEF NoContract
  <1>4. 0 <= now  BY LoanFacts
  <1> QED  BY <1>1, <1>2, <1>3, <1>4, LoanFacts, ListingGoesOn DEF OpenStatuses

LEMMA ContributeKeeps ==
    ASSUME LoanInductive, NEW l \in Lenders, NEW amount \in Amounts,
           ContributeToContract(l, amount), [ListingNext]_vars
    PROVE  LoanInductive'
  <1> DEFINE funded == WithContribution(contract, l, amount)
  <1>1. Inductive' /\ FundingBooks' /\ StakesArePositive'
    BY LoanFacts, NextInductive, ListingIsBooked, ListingKeepsStakes
       DEF LoanInductive
  <1>2. IsOpen /\ now' = now /\ collateral' = collateral
    BY DEF ContributeToContract, MayContribute
  <1>3. /\ contract \in ContractType /\ now \in Nat
        /\ contract.last_principal_payment <= now /\ amount \in Nat
        /\ contract.contributions \subseteq Lenders
        /\ escrow \in [Lenders -> EscrowType]
    BY LoanFacts, ConstantsAreNumbers DEF ContractType
  <1>4. /\ \A k \in Lenders : /\ escrow'[k].usdc = escrow[k].usdc
                              /\ escrow'[k].escrow_amount \in
                                    {0, escrow[k].escrow_amount}
                              /\ k # l => escrow'[k] = escrow[k]
        /\ escrow'[l].exists
    <2>1. escrow' = [escrow EXCEPT ![l] =
                       [NoEscrow EXCEPT !.exists = TRUE, !.usdc = escrow[l].usdc]]
      BY DEF ContributeToContract
    <2> QED  BY <1>3, <2>1 DEF NoEscrow
  <1>5. /\ funded \in ContractType
        /\ funded.status = contract.status
        /\ funded.contributions = contract.contributions \union {l}
        /\ funded.recall_requested = contract.recall_requested
        /\ funded.collateral_amount = contract.collateral_amount
        /\ funded.last_principal_payment = contract.last_principal_payment
    <2> DEFINE sum == contract.funded_amount + amount
               number == contract.num_contributions + 1
               lenders == contract.contributions \union {l}
    <2>1. sum \in Nat /\ number \in Nat /\ lenders \in SUBSET Lenders
      BY <1>3 DEF ContractType
    <2>2. funded = [contract EXCEPT !.funded_amount = sum,
                                    !.num_contributions = number,
                                    !.contributions = lenders]
      BY DEF WithContribution
    <2> HIDE DEF sum, number, lenders, funded
    <2>3. funded \in ContractType  BY <1>3, <2>1, <2>2 DEF ContractType
    <2>4. /\ funded.status = contract.status
          /\ funded.contributions = lenders
          /\ funded.recall_requested = contract.recall_requested
          /\ funded.collateral_amount = contract.collateral_amount
          /\ funded.last_principal_payment = contract.last_principal_payment
      BY <1>3, <2>2 DEF ContractType
    <2> QED  BY <2>3, <2>4 DEF lenders
  <1>6. \A k \in contract.contributions \union {l} : escrow'[k].exists
    BY <1>2, <1>3, <1>4, OpenFacts
  <1> HIDE DEF funded
  <1>7. CASE contract' = Activated(funded)
    <2>1. /\ contract'.recall_requested = contract.recall_requested
          /\ contract'.collateral_amount = contract.collateral_amount
          /\ contract'.last_principal_payment = now
          /\ contract'.contributions = contract.contributions \union {l}
          /\ contract'.status = "Active"
      BY <1>5, <1>7, ActivatedRest
    <2> QED  BY <1>1, <1>2, <1>3, <1>4, <1>6, <2>1, OpenFacts, ListingGoesOn
  <1>8. CASE contract' = [funded EXCEPT !.status =
                            IF @ = "OpenNotFunded"
                            THEN "OpenPartiallyFunded" ELSE @]
    <2>1. /\ contract'.recall_requested = contract.recall_requested
          /\ contract'.collateral_amount = contract.collateral_amount
          /\ contract'.last_principal_payment = contract.last_principal_payment
          /\ contract'.contributions = contract.contributions \union {l}
          /\ contract'.status \in OpenStatuses
      BY <1>2, <1>5, <1>8 DEF ContractType, IsOpen, OpenStatuses
    <2> QED  BY <1>1, <1>2, <1>3, <1>4, <1>6, <2>1, OpenFacts, ListingGoesOn
  <1> QED  BY <1>7, <1>8 DEF ContributeToContract, funded

LEMMA WithdrawKeeps ==
    ASSUME LoanInductive, NEW l \in Lenders, WithdrawContribution(l),
           [ListingNext]_vars
    PROVE  LoanInductive'
  <1>1. Inductive' /\ FundingBooks' /\ StakesArePositive'
    BY LoanFacts, NextInductive, ListingIsBooked, ListingKeepsStakes
       DEF LoanInductive
  <1>2. IsOpen /\ now' = now /\ collateral' = collateral
    BY DEF WithdrawContribution
  <1>3. /\ contract \in ContractType
        /\ contract.last_principal_payment <= now
        /\ contract.contributions \subseteq Lenders
        /\ escrow \in [Lenders -> EscrowType]
    BY LoanFacts DEF ContractType
  <1>4. \A k \in Lenders : /\ escrow'[k].usdc = escrow[k].usdc
                           /\ escrow'[k].escrow_amount \in
                                 {0, escrow[k].escrow_amount}
                           /\ k # l => escrow'[k] = escrow[k]
    <2>1. escrow' = [escrow EXCEPT ![l] =
                       [NoEscrow EXCEPT !.usdc = escrow[l].usdc]]
      BY DEF WithdrawContribution
    <2> QED  BY <1>3, <2>1 DEF NoEscrow
  <1>5. /\ contract'.recall_requested = contract.recall_requested
        /\ contract'.collateral_amount = contract.collateral_amount
        /\ contract'.last_principal_payment = contract.last_principal_payment
        /\ contract'.contributions = contract.contributions \ {l}
        /\ contract'.status \in OpenStatuses
    BY <1>3 DEF WithdrawContribution, ContractType, OpenStatuses
  <1>6. \A k \in contract'.contributions : escrow'[k].exists
    BY <1>2, <1>3, <1>4, <1>5, OpenFacts
  <1> QED  BY <1>1, <1>2, <1>3, <1>4, <1>5, <1>6, OpenFacts, ListingGoesOn

LEMMA RefundKeeps ==
    ASSUME LoanInductive, NEW l \in Lenders, NEW closeEscrow \in BOOLEAN,
           RefundLender(l, closeEscrow), [ListingNext]_vars
    PROVE  LoanInductive'
  <1>1. Inductive' /\ FundingBooks' /\ StakesArePositive'
    BY LoanFacts, NextInductive, ListingIsBooked, ListingKeepsStakes
       DEF LoanInductive
  <1>2. /\ contract.status = "Cancelled" /\ now' = now
        /\ contract \in ContractType
        /\ contract.last_principal_payment <= now
        /\ escrow \in [Lenders -> EscrowType]
    BY LoanFacts DEF RefundLender
  <1>3. \A k \in Lenders : /\ escrow'[k].usdc = escrow[k].usdc
                           /\ escrow'[k].escrow_amount \in
                                 {0, escrow[k].escrow_amount}
    <2>1. \/ escrow' = escrow
          \/ escrow' = [escrow EXCEPT ![l] =
                          [NoEscrow EXCEPT !.usdc = escrow[l].usdc]]
      BY DEF RefundLender
    <2> QED  BY <1>2, <2>1 DEF NoEscrow
  <1>4. /\ contract'.recall_requested = contract.recall_requested
        /\ contract'.last_principal_payment = contract.last_principal_payment
        /\ contract'.status = "Cancelled"
    BY <1>2 DEF RefundLender, ContractType
  <1>5. ~contract.recall_requested
    BY <1>2 DEF LoanInductive, NothingPaidBefore, OnLoan
  <1> QED  BY <1>1, <1>2, <1>3, <1>4, <1>5, ListingGoesOn

LEMMA ListingKeepsLoan ==
    ASSUME LoanInductive, [ListingNext]_vars
    PROVE  LoanInductive'
  <1>0. /\ TypeOK /\ Inductive /\ contract \in ContractType /\ now \in Nat
        /\ contract.last_principal_payment \in Nat
        /\ contract.last_principal_payment <= now
    BY LoanFacts DEF ContractType
  <1>1. ASSUME UNCHANGED <<contract, contribution, escrow, collateral>>,
               now' \in Nat, now <= now'
        PROVE  LoanInductive'
    <2>1. Inductive' /\ FundingBooks' /\ StakesArePositive'
      BY LoanFacts, NextInductive, ListingIsBooked, ListingKeepsStakes
         DEF LoanInductive
    <2>2. contract'.last_principal_payment <= now'  BY <1>0, <1>1
    <2>3. /\ EscrowsHoldTheirAmount' /\ RecallNamesALender'
          /\ CollateralIsHeld' /\ NoDebtIsLeftBehind'
          /\ NothingPaidBefore' /\ ContributorsHaveEscrows'
      BY <1>1 DEF LoanInductive, EscrowsHoldTheirAmount, RecallNamesALender,
                  CollateralIsHeld, NoDebtIsLeftBehind, NothingPaidBefore,
                  ContributorsHaveEscrows, OnLoan, IsOpen
    <2> QED  BY <2>1, <2>2, <2>3 DEF LoanInductive
  <1>2. ASSUME UNCHANGED <<contract, contribution, escrow, collateral, now>>
        PROVE  LoanInductive'
    BY <1>0, <1>1, <1>2
  <1>3. CASE CancelContract
    <2>1. contract' = Cancelled(contract) /\ IsOpen
      BY <1>3 DEF CancelContract
    <2>2. /\ contract'.status = "Cancelled"
          /\ contract'.recall_requested = contract.recall_requested
          /\ contract'.last_principal_payment = contract.last_principal_payment
      BY <1>0, <2>1 DEF Cancelled, ContractType
    <2> QED  BY <1>3, <2>1, <2>2, EndKeeps DEF CancelContract
  <1>4. CASE CloseListing
    BY <1>4, StartKeeps DEF CloseListing, IsOpen, OpenStatuses
  <1>5. CASE ExpireContract
    <2>1. CASE ActivateExpired
      BY <1>5, <2>1, StartKeeps DEF ExpireContract, ActivateExpired
    <2>2. CASE CancelExpired
      <3>1. contract' = [Cancelled(contract) EXCEPT !.listing_fee_paid = 0]
            /\ IsOpen
        BY <1>5, <2>2 DEF ExpireContract, CancelExpired
      <3>2. /\ contract'.status = "Cancelled"
            /\ contract'.recall_requested = contract.recall_requested
            /\ contract'.last_principal_payment =
                 contract.last_principal_payment
        BY <1>0, <3>1 DEF Cancelled, ContractType
      <3> QED  BY <1>5, <3>1, <3>2, EndKeeps DEF ExpireContract
    <2> QED  BY <1>5, <2>1, <2>2 DEF ExpireContract
  <1>6. CASE BorrowerStep
    <2>1. ASSUME NEW paid \in BOOLEAN, CreateDebtContract(paid)
          PROVE  LoanInductive'
      BY <2>1, CreateKeeps
    <2>2. ASSUME NEW l \in Lenders, ApproveFunder(l) \/ RevokeFunder(l)
          PROVE  LoanInductive'
      BY <1>2, <2>2 DEF ApproveFunder, RevokeFunder
    <2> QED  BY <1>3, <1>4, <1>6, <2>1, <2>2 DEF BorrowerStep
  <1>7. CASE LenderStep
    <2>1. ASSUME NEW l \in Lenders, NEW amount \in Amounts,
                 ContributeToContract(l, amount)
          PROVE  LoanInductive'
      BY <2>1, ContributeKeeps
    <2>2. ASSUME NEW l \in Lenders, WithdrawContribution(l)
          PROVE  LoanInductive'
      BY <2>2, WithdrawKeeps
    <2>3. ASSUME NEW l \in Lenders, NEW closeEscrow \in BOOLEAN,
                 RefundLender(l, closeEscrow)
          PROVE  LoanInductive'
      BY <2>3, RefundKeeps
    <2> QED  BY <1>7, <2>1, <2>2, <2>3 DEF LenderStep
  <1>8. CASE PlatformStep
    <2>1. CASE TogglePause  BY <1>2, <2>1 DEF TogglePause
    <2>2. ASSUME NEW amount \in Amounts, WithdrawFromTreasury(amount)
          PROVE  LoanInductive'
      BY <1>2, <2>2 DEF WithdrawFromTreasury
    <2>3. CASE Tick  BY <1>0, <1>1, <2>3 DEF Tick
    <2> QED  BY <1>5, <1>8, <2>1, <2>2, <2>3 DEF PlatformStep
  <1>9. CASE UNCHANGED vars  BY <1>2, <1>9 DEF vars
  <1> QED  BY <1>6, <1>7, <1>8, <1>9 DEF ListingNext

-----------------------------------------------------------------------------
LEMMA LoanInit == Init => LoanInductive
  <1> SUFFICES ASSUME Init PROVE LoanInductive
    OBVIOUS
  <1>1. Inductive /\ FundingBooks  BY InitInductive, InitIsBooked
  <1>2. /\ contract = NoContract /\ contract.status = "Uncreated"
        /\ ~contract.recall_requested
        /\ contract.last_principal_payment = 0 /\ now = 1
        /\ escrow = [l \in Lenders |-> NoEscrow]
        /\ contribution = [l \in Lenders |-> NoContribution]
    BY DEF Init, NoContract
  <1>3. StakesArePositive
    BY <1>2 DEF StakesArePositive, Contributors, NoContribution
  <1>4. EscrowsHoldTheirAmount /\ NothingPaidBefore
    BY <1>2 DEF EscrowsHoldTheirAmount, NothingPaidBefore, NoEscrow
  <1>5. /\ RecallNamesALender /\ CollateralIsHeld /\ NoDebtIsLeftBehind
        /\ ContributorsHaveEscrows
    BY <1>2 DEF RecallNamesALender, CollateralIsHeld, NoDebtIsLeftBehind,
                ContributorsHaveEscrows, OnLoan, IsOpen, OpenStatuses
  <1>6. contract.last_principal_payment <= now  BY <1>2
  <1> QED  BY <1>1, <1>3, <1>4, <1>5, <1>6 DEF LoanInductive

LEMMA ServicingKeepsLoan ==
    ASSUME LoanInductive, ServicingNext
    PROVE  LoanInductive'
  <1>0. Payments \subseteq Nat /\ TopUps \subseteq Nat
    BY ServicingConstantsAreNumbers
  <1>1. CASE BorrowerServices
    <2>1. ASSUME NEW amount \in Payments, MakePayment(amount)
          PROVE  LoanInductive'
      BY <1>0, <2>1, MakePaymentKeeps
    <2>2. ASSUME NEW amount \in Payments, NEW last \in Lenders,
                 MakePaymentWithDistribution(amount, last)
          PROVE  LoanInductive'
      BY <1>0, <2>2, MakePaymentWithDistributionKeeps
    <2>3. ASSUME NEW amount \in TopUps, AddCollateral(amount)
          PROVE  LoanInductive'
      BY <1>0, <2>3, AddCollateralKeeps
    <2>4. ASSUME NEW l \in Lenders, BorrowerRepayRecall(l)
          PROVE  LoanInductive'
      BY <2>4, BorrowerRepayRecallKeeps
    <2> QED  BY <1>1, <2>1, <2>2, <2>3, <2>4 DEF BorrowerServices
  <1>2. CASE LenderServices
    BY <1>2, RequestRecallKeeps, ClaimFromEscrowKeeps DEF LenderServices
  <1>3. CASE SettleByBot
    <2>1. ASSUME NEW l \in Lenders, NEW paid \in BOOLEAN, ProcessRecall(l, paid)
          PROVE  LoanInductive'
      BY <2>1, ProcessRecallKeeps
    <2>2. ASSUME NEW price \in Prices, NEW last \in Lenders,
                 Liquidate(price, last)
          PROVE  LoanInductive'
      BY <2>2, LiquidateKeeps
    <2> QED  BY <1>3, <2>1, <2>2 DEF SettleByBot, SettleAt
  <1>4. CASE BotServices
    <2>1. ASSUME NEW last \in Lenders,
                 AutomatedInterestTransfer(last)
                   \/ AutomatedPrincipalTransfer(last)
          PROVE  LoanInductive'
      BY <2>1, AutomatedInterestTransferKeeps, AutomatedPrincipalTransferKeeps
    <2>2. ASSUME NEW amount \in Payments, NEW price \in Prices,
                 NEW last \in Lenders, NEW toBorrower \in BOOLEAN,
                 PartialLiquidate(amount, price, last, toBorrower)
          PROVE  LoanInductive'
      BY <1>0, <2>2, PartialLiquidateKeeps
    <2>3. ASSUME NEW l \in Lenders, UpdateLenderEscrow(l) PROVE LoanInductive'
      BY <2>3, UpdateLenderEscrowKeeps
    <2> QED
      BY <1>3, <1>4, <2>1, <2>2, <2>3, UpdateContractStateKeeps
         DEF BotServices
  <1> QED  BY <1>1, <1>2, <1>4 DEF ServicingNext

LEMMA LoanNextInductive == LoanInductive /\ [LoanNext]_vars => LoanInductive'
  BY ListingKeepsLoan, ServicingKeepsLoan DEF LoanNext

(* The reachable states of a loan satisfy the inductive invariant.         *)
THEOREM LoanInvariant == LoanSpec => []LoanInductive
  BY LoanInit, LoanNextInductive, PTL DEF LoanSpec

(* From its listing to its end, and however it is paid, recalled and       *)
(* liquidated, every account of a loan stays well formed: no balance, debt *)
(* or counter is ever driven below zero.                                   *)
THEOREM LoanTypes == LoanSpec => []TypeOK
  BY LoanInvariant, PTL DEF LoanInductive, Inductive

(* Each lender's escrow holds, as tokens, what its books say.              *)
THEOREM EscrowsAlwaysHoldTheirAmount == LoanSpec => []EscrowsHoldTheirAmount
  BY LoanInvariant, PTL DEF LoanInductive

(* While a recall is pending the lender it names is in the loan and has an *)
(* escrow to be paid into.                                                 *)
THEOREM RecallsNameALender == LoanSpec => []RecallNamesALender
  BY LoanInvariant, PTL DEF LoanInductive

(* The collateral account holds what the books say, through top-ups,       *)
(* transfers, recalls and partial liquidations at any price.               *)
THEOREM CollateralIsAlwaysHeld == LoanSpec => []CollateralIsHeld
  BY LoanInvariant, PTL DEF LoanInductive

(* No way of ending a loan leaves debt on its books.                       *)
THEOREM NoDebtIsEverLeftBehind == LoanSpec => []NoDebtIsLeftBehind
  BY LoanInvariant, PTL DEF LoanInductive

(* Before the loan and after a cancellation the account holds what the     *)
(* lenders have put in, in every behaviour that may go on to be a loan.    *)
THEOREM LoanIsBacked == LoanSpec => []FundingIsBacked
  <1>1. LoanInductive => FundingIsBacked
    BY TotalOfIs
       DEF LoanInductive, Inductive, AccountHoldsFunding, FundingBooks,
           FundingIsBacked
  <1> QED  BY <1>1, LoanInvariant, PTL

-----------------------------------------------------------------------------
(* What a step does to a running loan: the contract's account changes only *)
(* where no escrow does, the status moves as documented, and lenders leave *)
(* by a settled recall only.                                               *)
LoanChange ==
    /\ usdc' # usdc => escrow' = escrow
    /\ StatusMoves
    /\ \/ contract'.contributions = contract.contributions
       \/ \E l \in contract.contributions : contract' = WithoutLender(l)

LEMMA RunningMoves ==
    ASSUME OnLoan, contract'.status \in {contract.status, "Completed", "Liquidated"}
    PROVE  StatusMoves
  BY DEF OnLoan, StatusMoves, ValidTransitions

LEMMA OnlyLoansAreServiced ==
    ASSUME ServicingNext, ~OnLoan
    PROVE  contract' = contract
  BY DEF ServicingNext, BorrowerServices, LenderServices, BotServices,
         SettleByBot, SettleAt, MakePayment, MakePaymentWithDistribution,
         MayPay, AddCollateral, BorrowerRepayRecall, ProcessRecall,
         MaySettleRecall, RequestRecall, ClaimFromEscrow, UpdateContractState,
         UpdateLenderEscrow, AutomatedInterestTransfer,
         AutomatedPrincipalTransfer, Liquidate, PartialLiquidate, OnLoan

LEMMA ListingLeavesLoans ==
    ASSUME OnLoan, [ListingNext]_vars
    PROVE  UNCHANGED <<contract, usdc, escrow>>
  <1>1. ~IsOpen /\ contract.status # "Uncreated"
        /\ contract.status # "OpenPartiallyFunded"
        /\ contract.status # "Cancelled"
    BY DEF OnLoan, IsOpen, OpenStatuses
  <1> QED
    BY <1>1
       DEF ListingNext, BorrowerStep, LenderStep, PlatformStep, vars,
           CreateDebtContract, ApproveFunder, RevokeFunder, CancelContract,
           CloseListing, ContributeToContract, MayContribute,
           WithdrawContribution, RefundLender, ExpireContract, TogglePause,
           WithdrawFromTreasury, Tick

LEMMA BorrowerServicesAre ==
    ASSUME LoanInductive, OnLoan, BorrowerServices
    PROVE  LoanChange
  <1>0. Payments \subseteq Nat /\ contract \in ContractType
    BY LoanFacts, ServicingConstantsAreNumbers
  <1>1. ASSUME NEW amount \in Payments,
               \/ MakePayment(amount)
               \/ \E last \in Lenders : MakePaymentWithDistribution(amount, last)
        PROVE  LoanChange
    <2>1. ScheduleFits(WithInterest(contract)) /\ Settle(Payment(amount))
      BY <1>1 DEF MakePayment, MakePaymentWithDistribution, MayPay
    <2>2. /\ contract'.contributions = contract.contributions
          /\ contract'.status \in {contract.status, "Completed"}
      BY <1>0, <2>1, SettleIs
    <2>3. usdc' # usdc => escrow' = escrow
      BY <1>1 DEF MakePayment, MakePaymentWithDistribution
    <2>4. StatusMoves  BY <2>2, RunningMoves
    <2> QED  BY <2>2, <2>3, <2>4 DEF LoanChange
  <1>2. ASSUME NEW amount \in TopUps, AddCollateral(amount) PROVE LoanChange
    <2>1. /\ contract'.contributions = contract.contributions
          /\ contract'.status = contract.status
      BY <1>0, <1>2 DEF AddCollateral, ContractType
    <2> QED  BY <1>2, <2>1, RunningMoves DEF AddCollateral, LoanChange
  <1>3. ASSUME NEW l \in Lenders, BorrowerRepayRecall(l) PROVE LoanChange
    <2>1. /\ contract' = WithoutLender(l) /\ l \in contract.contributions
          /\ contract.status = "PendingRecall" /\ usdc' = usdc
      BY <1>3 DEF BorrowerRepayRecall, MaySettleRecall, SettleRecall
    <2>2. contract'.status \in {"Active", "Completed"}
      BY <2>1, WithoutLenderIs
    <2>3. StatusMoves  BY <2>1, <2>2 DEF StatusMoves, ValidTransitions
    <2> QED  BY <2>1, <2>3 DEF LoanChange
  <1> QED  BY <1>1, <1>2, <1>3 DEF BorrowerServices

LEMMA BotServicesAre ==
    ASSUME LoanInductive, OnLoan, BotServices
    PROVE  LoanChange
  <1>0. /\ Payments \subseteq Nat /\ Prices \subseteq Nat /\ TypeOK
        /\ contract \in ContractType /\ usdc \in Nat /\ collateral \in Nat
    BY LoanFacts, ServicingConstantsAreNumbers
  <1>1. CASE UpdateContractState
    <2>1. SameLenders(contract, contract')
      BY <1>1, LoanFacts, UpdatedType DEF UpdateContractState
    <2> QED
      BY <1>1, <2>1, RunningMoves DEF UpdateContractState, SameLenders, LoanChange
  <1>2. ASSUME NEW l \in Lenders, UpdateLenderEscrow(l) PROVE LoanChange
    BY <1>2, RunningMoves DEF UpdateLenderEscrow, LoanChange
  <1>3. ASSUME NEW last \in Lenders, AutomatedInterestTransfer(last)
        PROVE  LoanChange
    <2> DEFINE c == WithInterest(contract)
    <2>1. c \in ContractType /\ SameLenders(contract, c)
      BY <1>0, WithInterestType
    <2>2. /\ contract'.contributions = c.contributions
          /\ contract'.status = c.status
      BY <1>3, <2>1 DEF AutomatedInterestTransfer, ContractType
    <2> HIDE DEF c
    <2>3. /\ contract'.contributions = contract.contributions
          /\ contract'.status = contract.status
      BY <2>1, <2>2 DEF SameLenders
    <2> QED
      BY <1>3, <2>3, RunningMoves DEF AutomatedInterestTransfer, LoanChange
  <1>4. ASSUME NEW last \in Lenders, AutomatedPrincipalTransfer(last)
        PROVE  LoanChange
    <2> DEFINE c == WithSchedule(WithInterest(contract))
    <2>1. c \in ContractType /\ SameLenders(contract, c)
      BY <1>4, LoanFacts, UpdatedType DEF AutomatedPrincipalTransfer
    <2>2. /\ contract'.contributions = c.contributions
          /\ contract'.status = c.status
      BY <1>4, <2>1 DEF AutomatedPrincipalTransfer, ContractType
    <2> HIDE DEF c
    <2>3. /\ contract'.contributions = contract.contributions
          /\ contract'.status = contract.status
      BY <2>1, <2>2 DEF SameLenders
    <2> QED
      BY <1>4, <2>3, RunningMoves DEF AutomatedPrincipalTransfer, LoanChange
  <1>5. ASSUME NEW l \in Lenders, NEW paid \in BOOLEAN, ProcessRecall(l, paid)
        PROVE  LoanChange
    <2>1. /\ contract' = WithoutLender(l) /\ l \in contract.contributions
          /\ contract.status = "PendingRecall" /\ usdc' = usdc
      BY <1>5 DEF ProcessRecall, MaySettleRecall, SettleRecall
    <2>2. contract'.status \in {"Active", "Completed"}
      BY <2>1, WithoutLenderIs
    <2>3. StatusMoves  BY <2>1, <2>2 DEF StatusMoves, ValidTransitions
    <2> QED  BY <2>1, <2>3 DEF LoanChange
  <1>6. ASSUME NEW price \in Prices, NEW last \in Lenders,
               Liquidate(price, last)
        PROVE  LoanChange
    <2> DEFINE c == WithInterest(contract)
               botPays == Lesser(DebtOf(c), collateral * price)
    <2>1. c \in ContractType /\ SameLenders(contract, c) /\ DebtOf(c) \in Nat
      BY <1>0, DebtType
    <2>2. botPays \in Nat
      <3>1. collateral * price \in Nat  BY <1>0
      <3> QED  BY <2>1, <3>1, LesserIs
    <2>3. SharesOf(botPays, last) = botPays
      BY <1>6, <2>2, DistributedEscrows DEF Liquidate, LendersPassed
    <2>4. usdc' = usdc
      <3>1. usdc' = usdc + botPays - SharesOf(botPays, last)
        BY <1>6 DEF Liquidate
      <3> HIDE DEF botPays
      <3> QED  BY <1>0, <2>2, <2>3, <3>1
    <2>5. /\ contract'.contributions = c.contributions
          /\ contract'.status = "Liquidated"
      BY <1>6, <2>1 DEF Liquidate, ContractType
    <2>6. contract'.contributions = contract.contributions
      BY <2>1, <2>5 DEF SameLenders
    <2> QED  BY <2>4, <2>5, <2>6, RunningMoves DEF LoanChange
  <1>7. ASSUME NEW amount \in Payments, NEW price \in Prices,
               NEW last \in Lenders, NEW toBorrower \in BOOLEAN,
               PartialLiquidate(amount, price, last, toBorrower)
        PROVE  LoanChange
    <2> DEFINE c == WithInterest(contract)
               cap == Lesser(BpsOf(DebtOf(c), PartialCapBps),
                             c.outstanding_balance)
               repaid == Lesser(amount, cap)
               seized == CollateralToSeize(repaid,
                            Lesser(collateral, c.collateral_amount),
                            Lesser(collateral, c.collateral_amount) * price)
    <2>1. c \in ContractType /\ SameLenders(contract, c) /\ DebtOf(c) \in Nat
      BY <1>0, DebtType
    <2>2. repaid \in Nat
      <3>1. PartialCapBps \in Nat /\ amount \in Nat
        BY ServicingConstantsAreNumbers, ConstantsAreNumbers
      <3>2. BpsOf(DebtOf(c), PartialCapBps) \in Nat  BY <2>1, <3>1, BpsIsNat
      <3>3. c.outstanding_balance \in Nat  BY <2>1 DEF ContractType
      <3>4. cap \in Nat  BY <3>2, <3>3, LesserIs
      <3> HIDE DEF cap
      <3> QED  BY <3>1, <3>4, LesserIs
    <2>3. SharesOf(repaid, last) = repaid
      BY <1>7, <2>2, DistributedEscrows DEF PartialLiquidate, LendersPassed
    <2>4. usdc' = usdc
      <3>1. usdc' = usdc + repaid - SharesOf(repaid, last)
        BY <1>7 DEF PartialLiquidate
      <3> HIDE DEF repaid
      <3> QED  BY <1>0, <2>2, <2>3, <3>1
    <2>5. contract' = AfterPartial(c, repaid, seized)
      BY <1>7 DEF PartialLiquidate
    <2> HIDE DEF c, repaid, seized
    <2>6. /\ contract'.contributions = c.contributions
          /\ contract'.status \in {c.status, "Completed"}
      BY <2>1, <2>5 DEF AfterPartial, ContractType
    <2>7. /\ contract'.contributions = contract.contributions
          /\ contract'.status \in {contract.status, "Completed"}
      BY <2>1, <2>6 DEF SameLenders
    <2> QED  BY <2>4, <2>7, RunningMoves DEF LoanChange
  <1> QED
    BY <1>1, <1>2, <1>3, <1>4, <1>5, <1>6, <1>7
       DEF BotServices, SettleByBot, SettleAt

LEMMA LoanSteps ==
    ASSUME LoanInductive, OnLoan, [LoanNext]_vars
    PROVE  LoanChange
  <1>1. CASE [ListingNext]_vars
    BY <1>1, ListingLeavesLoans, RunningMoves DEF LoanChange
  <1>2. CASE LenderServices
    <2>1. ASSUME NEW l \in Lenders, RequestRecall(l) PROVE LoanChange
      <3>1. /\ contract.status = "Active"
            /\ contract'.status = "PendingRecall" /\ usdc' = usdc
            /\ contract'.contributions = contract.contributions
        BY <2>1, LoanFacts DEF RequestRecall, ContractType
      <3>2. StatusMoves  BY <3>1 DEF StatusMoves, ValidTransitions
      <3> QED  BY <3>1, <3>2 DEF LoanChange
    <2>2. ASSUME NEW l \in Lenders, ClaimFromEscrow(l) PROVE LoanChange
      BY <2>2, RunningMoves DEF ClaimFromEscrow, LoanChange
    <2> QED  BY <1>2, <2>1, <2>2 DEF LenderServices
  <1> QED
    BY <1>1, <1>2, BorrowerServicesAre, BotServicesAre
       DEF LoanNext, ServicingNext

(* From the listing to the end of the loan the status makes only the moves *)
(* ContractStatus::valid_transitions lists, which no handler asks.         *)
THEOREM LoanMovesAsDocumented == LoanSpec => StatusMovesAsDocumented
  <1>1. LoanInductive /\ [LoanNext]_vars => [StatusMoves]_vars
    <2> SUFFICES ASSUME LoanInductive, [LoanNext]_vars PROVE StatusMoves
      OBVIOUS
    <2>1. CASE OnLoan  BY <2>1, LoanSteps DEF LoanChange
    <2>2. CASE ~OnLoan /\ ServicingNext
      BY <2>2, OnlyLoansAreServiced DEF StatusMoves
    <2>3. CASE [ListingNext]_vars  BY <2>3, LoanFacts, ListingStepMoves
    <2> QED  BY <2>1, <2>2, <2>3 DEF LoanNext
  <1>2. [][StatusMoves]_vars => StatusMovesAsDocumented
    BY PTL DEF StatusMovesAsDocumented, StatusMoves
  <1> QED  BY <1>1, <1>2, LoanInvariant, PTL DEF LoanSpec
-----------------------------------------------------------------------------
(* A part that is rounded down leaves the others no worse off.             *)
LEMMA RestIsNoWorse ==
    ASSUME NEW owed \in Nat, NEW part \in Nat, NEW whole \in Nat,
           NEW stake \in Nat, part * whole <= stake * owed
    PROVE  (owed - part) * whole >= owed * (whole - stake)
  <1>1. (owed - part) * whole = owed * whole - part * whole  OBVIOUS
  <1>2. owed * (whole - stake) = owed * whole - stake * owed  OBVIOUS
  <1>3. owed * whole \in Nat /\ part * whole \in Nat /\ stake * owed \in Nat
    OBVIOUS
  <1> QED  BY <1>1, <1>2, <1>3

(* After a recall, by the borrower or by the bot, the lenders who stay have*)
(* no less debt owed to them and no less collateral behind it, per unit of *)
(* their money, than before it.                                            *)
THEOREM RecallNeverHurtsTheOthers == LoanSpec => RecallSparesTheOthers
  <1> DEFINE Spared ==
        (contract.status = "PendingRecall"
           /\ contract'.contributions # contract.contributions) =>
           /\ contract'.outstanding_balance * contract.funded_amount >=
                contract.outstanding_balance * contract'.funded_amount
           /\ contract'.collateral_amount * contract.funded_amount >=
                contract.collateral_amount * contract'.funded_amount
  <1>1. LoanInductive /\ [LoanNext]_vars => [Spared]_vars
    <2> SUFFICES ASSUME LoanInductive, [LoanNext]_vars,
                        contract.status = "PendingRecall",
                        contract'.contributions # contract.contributions
                 PROVE  /\ contract'.outstanding_balance * contract.funded_amount >=
                             contract.outstanding_balance * contract'.funded_amount
                        /\ contract'.collateral_amount * contract.funded_amount >=
                             contract.collateral_amount * contract'.funded_amount
      OBVIOUS
    <2>1. OnLoan  BY DEF OnLoan
    <2>2. PICK l \in contract.contributions : contract' = WithoutLender(l)
      BY <2>1, LoanSteps DEF LoanChange
    <2> DEFINE funded == contract.funded_amount
               stake == contribution[l].contribution_amount
    <2>3. funded \in Nat /\ stake \in Nat /\ contract \in ContractType
      BY <2>1, LoanFacts, LoanIsFunded
    <2>4. contract'.funded_amount = funded - stake
      BY <2>1, <2>2, WithoutLenderIs
    <2>5. contract'.outstanding_balance * funded >=
            contract.outstanding_balance * contract'.funded_amount
      <3> DEFINE owed == contract.outstanding_balance
                 part == RecallPart(l, owed)
      <3>1. owed \in Nat  BY <2>3 DEF ContractType
      <3>2. part \in Nat /\ part * funded <= stake * owed
        BY <2>1, <3>1, RecallPartFits
      <3>3. contract'.outstanding_balance = owed - part
        BY <2>1, <2>2, WithoutLenderIs
      <3> HIDE DEF part, owed, funded, stake
      <3>4. (owed - part) * funded >= owed * (funded - stake)
        BY <2>3, <3>1, <3>2, RestIsNoWorse
      <3> QED  BY <2>4, <3>3, <3>4 DEF owed
    <2>6. contract'.collateral_amount * funded >=
            contract.collateral_amount * contract'.funded_amount
      <3> DEFINE pledged == contract.collateral_amount
                 part == RecallPart(l, pledged)
      <3>1. pledged \in Nat  BY <2>3 DEF ContractType
      <3>2. part \in Nat /\ part * funded <= stake * pledged
        BY <2>1, <3>1, RecallPartFits
      <3>3. contract'.collateral_amount = pledged - part
        BY <2>1, <2>2, WithoutLenderIs
      <3> HIDE DEF part, pledged, funded, stake
      <3>4. (pledged - part) * funded >= pledged * (funded - stake)
        BY <2>3, <3>1, <3>2, RestIsNoWorse
      <3> QED  BY <2>4, <3>3, <3>4 DEF pledged
    <2> QED  BY <2>5, <2>6
  <1>2. [][Spared]_vars => RecallSparesTheOthers
    BY PTL DEF RecallSparesTheOthers
  <1> QED  BY <1>1, <1>2, LoanInvariant, PTL DEF LoanSpec
-----------------------------------------------------------------------------
(* What the lenders' escrows hold together.                                *)
UsdcTotal(e) == MapThenSumSet(LAMBDA l : e[l].usdc, Lenders)

UsdcOf(e) == [l \in Lenders |-> e[l].usdc]

LEMMA UsdcTotalIs ==
    ASSUME NEW e
    PROVE  UsdcTotal(e) = Total(UsdcOf(e), Lenders)
  <1> DEFINE f == UsdcOf(e)
             Step(g, s) == IF s = {} THEN 0
                           ELSE e[Picked(s)].usdc + g[s \ {Picked(s)}]
             IsStep(g) == g = [s \in SUBSET Lenders |-> Step(g, s)]
  <1>1. UsdcTotal(e) = (CHOOSE g : IsStep(g))[Lenders]
    BY DEF UsdcTotal, MapThenSumSet, MapThenFoldSet, Picked
  <1>2. \A g : \A s \in SUBSET Lenders : NextSum(f, g, s) = Step(g, s)
    BY DEF NextSum, Picked, UsdcOf
  <1> HIDE DEF f, Step
  <1>3. \A g : IsSum(f, Lenders, g) <=> IsStep(g)  BY <1>2 DEF IsSum
  <1>4. PICK g : IsSum(f, Lenders, g)  BY LendersAreFinite, SumExists
  <1>5. \E h : IsStep(h)  BY <1>3, <1>4
  <1> HIDE DEF IsStep
  <1>6. IsStep(CHOOSE h : IsStep(h))  BY <1>5
  <1>7. IsSum(f, Lenders, CHOOSE h : IsStep(h))  BY <1>3, <1>6
  <1> QED  BY <1>1, <1>7, LendersAreFinite, TotalIs DEF f

(* The escrows together get interest, fee and principal, to the last unit, *)
(* however the shares of the three are rounded.                            *)
LEMMA DistributionAddsUp ==
    ASSUME LoanInductive, OnLoan, NEW last \in contract.contributions,
           NEW interest \in Nat, NEW fee \in Nat, NEW principal \in Nat,
           NEW after,
           after = [l \in Lenders |->
             IF l \notin contract.contributions THEN escrow[l]
             ELSE Credited(escrow[l],
                           LenderShare(l, last, interest)
                             + LenderShare(l, last, fee),
                           LenderShare(l, last, principal))]
    PROVE  UsdcTotal(after) = UsdcTotal(escrow) + interest + fee + principal
  <1> DEFINE S == contract.contributions
             i == LenderSharesOf(interest, last, S)
             f == LenderSharesOf(fee, last, S)
             p == LenderSharesOf(principal, last, S)
             earned == [l \in S |-> i[l] + f[l]]
             gain == [l \in Lenders |-> IF l \in S THEN earned[l] + p[l] ELSE 0]
             old == UsdcOf(escrow)
             new == UsdcOf(after)
  <1>1. /\ IsFiniteSet(S) /\ S \subseteq Lenders
        /\ escrow \in [Lenders -> EscrowType]
        /\ \A l \in Lenders : escrow[l].usdc = escrow[l].escrow_amount
    BY LoanFacts DEF LoanInductive, Inductive
  <1>2. /\ \A l \in S : i[l] \in Nat /\ f[l] \in Nat /\ p[l] \in Nat
        /\ Total(i, S) = interest /\ Total(f, S) = fee /\ Total(p, S) = principal
    <2>1. ASSUME NEW amount \in Nat
          PROVE  /\ \A l \in S : LenderSharesOf(amount, last, S)[l] \in Nat
                 /\ Total(LenderSharesOf(amount, last, S), S) = amount
      <3>1. /\ \A l \in S : LenderShare(l, last, amount) \in Nat
            /\ SharesOf(amount, last) = amount
        BY LoanFacts, LoanIsFunded, SharesAddUp
      <3>2. SharesOf(amount, last) = Total(LenderSharesOf(amount, last, S), S)
        BY <1>1, SharesOfIs
      <3> QED  BY <3>1, <3>2 DEF LenderSharesOf
    <2> HIDE DEF S
    <2> QED  BY <2>1
  <1>3. Total(gain, Lenders) = interest + fee + principal
    <2>1. \A l \in S : earned[l] = i[l] + f[l] /\ earned[l] \in Nat  BY <1>2
    <2>2. \A l \in S : gain[l] = earned[l] + p[l]  BY <1>1
    <2>3. \A l \in Lenders : gain[l] \in Nat
      <3>1. \A l \in S : earned[l] + p[l] \in Nat  BY <1>2, <2>1
      <3> HIDE DEF earned, p
      <3> QED  BY <3>1
    <2>4. \A l \in Lenders \ S : gain[l] = 0  OBVIOUS
    <2> HIDE DEF S, i, f, p, earned, gain
    <2>5. Total(earned, S) = Total(i, S) + Total(f, S)
      BY <1>1, <1>2, <2>1, TotalPlus
    <2>6. Total(gain, S) = Total(earned, S) + Total(p, S)
      BY <1>1, <1>2, <2>1, <2>2, TotalPlus
    <2>7. Total(gain, Lenders) = Total(gain, S)
      BY <1>1, <2>3, <2>4, LendersAreFinite, TotalOfRest
    <2> QED  BY <1>2, <2>5, <2>6, <2>7
  <1>4. ASSUME NEW l \in Lenders
        PROVE  /\ old[l] \in Nat /\ gain[l] \in Nat
               /\ new[l] = old[l] + gain[l]
    <2>1. /\ escrow[l] \in EscrowType /\ escrow[l].usdc \in Nat
          /\ escrow[l].usdc = escrow[l].escrow_amount
      BY <1>1 DEF EscrowType
    <2>2. old[l] = escrow[l].usdc /\ new[l] = after[l].usdc  BY DEF UsdcOf
    <2>3. CASE l \in S
      <3> DEFINE a == LenderShare(l, last, interest)
                 b == LenderShare(l, last, fee)
                 c == LenderShare(l, last, principal)
                 ab == a + b
      <3>1. a = i[l] /\ b = f[l] /\ c = p[l]
        BY <2>3 DEF LenderSharesOf
      <3>2. a \in Nat /\ b \in Nat /\ c \in Nat  BY <1>2, <2>3, <3>1
      <3>3. gain[l] = a + b + c
        <4>1. gain[l] = earned[l] + p[l]  BY <2>3
        <4>2. earned[l] = i[l] + f[l]  BY <2>3
        <4> QED  BY <3>1, <4>1, <4>2
      <3>4. after[l] = Credited(escrow[l], ab, c)  BY <2>3
      <3>5. ab \in Nat /\ ab = a + b  BY <3>2
      <3> HIDE DEF a, b, c, ab
      <3>6. Credited(escrow[l], ab, c).usdc = escrow[l].usdc + ab + c
        BY <2>1, <3>2, <3>5, CreditedType
      <3> HIDE DEF gain, old, new
      <3> QED  BY <2>1, <2>2, <3>2, <3>3, <3>4, <3>5, <3>6
    <2>4. CASE l \notin S
      <3>1. gain[l] = 0 /\ after[l] = escrow[l]  BY <2>4
      <3> HIDE DEF gain, old, new
      <3> QED  BY <2>1, <2>2, <3>1
    <2> QED  BY <2>3, <2>4
  <1> HIDE DEF gain, old, new
  <1>5. Total(new, Lenders) = Total(old, Lenders) + Total(gain, Lenders)
    BY <1>4, LendersAreFinite, TotalPlus
  <1>6. Total(old, Lenders) \in Nat
    BY <1>4, LendersAreFinite, TotalType
  <1>7. UsdcTotal(after) = Total(new, Lenders)  BY UsdcTotalIs DEF new
  <1>8. UsdcTotal(escrow) = Total(old, Lenders)  BY UsdcTotalIs DEF old
  <1> QED  BY <1>3, <1>5, <1>6, <1>7, <1>8

(* Whatever order the lenders' accounts are passed in, the escrows get all *)
(* of a payment that is distributed and no more, and no handler moves what *)
(* is in the contract's account to them.                                   *)
THEOREM DistributionsAreAlwaysExact == LoanSpec => DistributionsAreExact
  <1> DEFINE Exact ==
        /\ OnLoan /\ usdc' # usdc => escrow' = escrow
        /\ OnLoan /\ EscrowTotal' > EscrowTotal =>
             \A amount \in Payments, last \in contract.contributions :
                 MakePaymentWithDistribution(amount, last) =>
                     EscrowTotal' = EscrowTotal + Payment(amount).paid
  <1>1. LoanInductive /\ [LoanNext]_vars => [Exact]_vars
    <2> SUFFICES ASSUME LoanInductive, [LoanNext]_vars, OnLoan
                 PROVE  /\ usdc' # usdc => escrow' = escrow
                        /\ \A amount \in Payments,
                              last \in contract.contributions :
                              MakePaymentWithDistribution(amount, last) =>
                                EscrowTotal' = EscrowTotal + Payment(amount).paid
      OBVIOUS
    <2>1. usdc' # usdc => escrow' = escrow  BY LoanSteps DEF LoanChange
    <2>2. ASSUME NEW amount \in Payments, NEW last \in contract.contributions,
                 MakePaymentWithDistribution(amount, last)
          PROVE  EscrowTotal' = EscrowTotal + Payment(amount).paid
      <3> DEFINE payment == Payment(amount)
                 interest == payment.interest
                 fee == payment.fee
                 principal == payment.effective
      <3>1. amount \in Nat /\ ScheduleFits(WithInterest(contract))
        BY <2>2, ServicingConstantsAreNumbers
           DEF MakePaymentWithDistribution, MayPay
      <3>2. /\ interest \in Nat /\ fee \in Nat /\ principal \in Nat
            /\ payment.paid = interest + fee + principal
        BY <3>1, LoanFacts, PaymentType
      <3>3. escrow' = [l \in Lenders |->
              IF l \notin contract.contributions THEN escrow[l]
              ELSE Credited(escrow[l],
                            LenderShare(l, last, interest)
                              + LenderShare(l, last, fee),
                            LenderShare(l, last, principal))]
        BY <2>2 DEF MakePaymentWithDistribution
      <3> HIDE DEF payment, interest, fee, principal
      <3>4. UsdcTotal(escrow') = UsdcTotal(escrow) + interest + fee + principal
        BY <3>2, <3>3, DistributionAddsUp
      <3>5. /\ EscrowTotal = UsdcTotal(escrow)
            /\ EscrowTotal' = UsdcTotal(escrow')
        BY DEF EscrowTotal, UsdcTotal, MapThenSumSet, MapThenFoldSet
      <3>6. UsdcTotal(escrow) \in Nat
        <4>1. \A l \in Lenders : UsdcOf(escrow)[l] \in Nat
          BY LoanFacts DEF UsdcOf, EscrowType
        <4> QED  BY <4>1, LendersAreFinite, TotalType, UsdcTotalIs
      <3> QED  BY <3>2, <3>4, <3>5, <3>6 DEF payment
    <2> QED  BY <2>1, <2>2
  <1>2. [][Exact]_vars => DistributionsAreExact
    BY PTL DEF DistributionsAreExact
  <1> QED  BY <1>1, <1>2, LoanInvariant, PTL DEF LoanSpec
-----------------------------------------------------------------------------
(* The loan at the moment it has been funded.                              *)
Funders(stake) == {l \in Lenders : stake[l] > 0}

LEMMA FundedContractIs ==
    ASSUME terms \in Offers, now \in Nat, NEW stake
    PROVE  /\ FundedContract(stake) \in ContractType
           /\ FundedContract(stake).status = "Active"
           /\ FundedContract(stake).funded_amount = terms.target_amount
           /\ FundedContract(stake).outstanding_balance = terms.target_amount
           /\ FundedContract(stake).contributions = Funders(stake)
           /\ FundedContract(stake).num_contributions =
                Cardinality(Funders(stake))
           /\ FundedContract(stake).collateral_amount = terms.collateral_amount
           /\ ~FundedContract(stake).recall_requested
           /\ FundedContract(stake).last_principal_payment = now
  <1> DEFINE target == terms.target_amount
             pledged == terms.collateral_amount
             funders == Funders(stake)
             number == Cardinality(funders)
             expires == now + ListingLife
             fee == BpsOf(target, ListingFeeBps)
             c == [NoContract EXCEPT
                     !.target_amount = target,
                     !.funded_amount = target,
                     !.num_contributions = number,
                     !.contributions = funders,
                     !.created_at = now,
                     !.expires_at = expires,
                     !.listing_fee_paid = fee,
                     !.collateral_amount = pledged]
  <1>1. FundedContract(stake) = Activated(c)  BY DEF FundedContract, Funders
  <1>2. target \in Nat /\ pledged \in Nat  BY OffersAreValid DEF ValidOffer
  <1>3. expires \in Nat /\ fee \in Nat
    <2>1. ListingFeeBps \in Nat /\ ListingLife \in Nat  BY ConstantsAreNumbers
    <2>2. expires \in Nat  BY <2>1
    <2> HIDE DEF target
    <2>3. fee \in Nat  BY <1>2, <2>1, BpsIsNat
    <2> QED  BY <2>2, <2>3
  <1>4. funders \in SUBSET Lenders /\ number \in Nat
    <2>1. funders \in SUBSET Lenders  BY DEF Funders
    <2>2. IsFiniteSet(funders)  BY <2>1, LendersAreFinite, FS_Subset
    <2> QED  BY <2>1, <2>2, FS_CardinalityType
  <1> HIDE DEF target, pledged, funders, number, expires, fee
  <1>5. NoContract \in ContractType
    <2>1. /\ "Uncreated" \in Statuses /\ {} \in SUBSET Lenders
          /\ Nobody \in Lenders \union {Nobody} /\ FALSE \in BOOLEAN /\ 0 \in Nat
      BY DEF Statuses
    <2> QED  BY <2>1, ZenonT(40) DEF NoContract, ContractType
  <1>6. c \in ContractType
    BY <1>2, <1>3, <1>4, <1>5, ZenonT(60) DEF ContractType
  <1>7. /\ c.funded_amount = target /\ c.contributions = funders
        /\ c.num_contributions = number /\ c.collateral_amount = pledged
        /\ c.recall_requested = FALSE
    BY <1>5 DEF ContractType, NoContract
  <1> HIDE DEF c
  <1>8. /\ Activated(c) \in ContractType /\ Activated(c).status = "Active"
        /\ Activated(c).contributions = c.contributions
        /\ Activated(c).num_contributions = c.num_contributions
    BY <1>6, ActivatedType
  <1>9. /\ Activated(c).funded_amount = c.funded_amount
        /\ Activated(c).outstanding_balance = c.funded_amount
        /\ Activated(c).collateral_amount = c.collateral_amount
        /\ Activated(c).last_principal_payment = now
    BY <1>6 DEF Activated, ContractType
  <1>10. Activated(c).recall_requested = c.recall_requested
    BY <1>6 DEF Activated, ContractType
  <1> QED
    BY <1>1, <1>7, <1>8, <1>9, <1>10
       DEF target, pledged, funders, number

(* The lenders' accounts are those of the stakes.                          *)
LEMMA StakesAreIs ==
    ASSUME now \in Nat, NEW stake \in [Lenders -> Nat], StakesAre(stake)
    PROVE  /\ contribution \in [Lenders -> ContributionType]
           /\ escrow \in [Lenders -> EscrowType]
           /\ \A l \in Lenders :
                 /\ contribution[l].contribution_amount = stake[l]
                 /\ escrow[l].escrow_amount = 0 /\ escrow[l].usdc = 0
  <1>1. \A l \in Lenders :
          [NoEscrow EXCEPT !.exists = stake[l] > 0] \in EscrowType
    <2> SUFFICES ASSUME NEW l \in Lenders
                 PROVE  [NoEscrow EXCEPT !.exists = stake[l] > 0] \in EscrowType
      OBVIOUS
    <2> DEFINE there == stake[l] > 0
    <2>1. there \in BOOLEAN  OBVIOUS
    <2> HIDE DEF there
    <2>2. [NoEscrow EXCEPT !.exists = there] =
            [exists |-> there, escrow_amount |-> 0, available_interest |-> 0,
             available_principal |-> 0, usdc |-> 0]
      BY DEF NoEscrow
    <2>3. [NoEscrow EXCEPT !.exists = there] \in EscrowType
      BY <2>1, <2>2 DEF EscrowType
    <2> QED  BY <2>3 DEF there
  <1>2. \A l \in Lenders :
          [exists |-> TRUE, contribution_amount |-> stake[l],
           is_refunded |-> FALSE, last_contributed_at |-> now]
            \in ContributionType
    BY DEF ContributionType
  <1>3. NoContribution \in ContributionType
    BY DEF NoContribution, ContributionType
  <1>4. contribution \in [Lenders -> ContributionType]
    BY <1>2, <1>3 DEF StakesAre
  <1>5. escrow \in [Lenders -> EscrowType]  BY <1>1 DEF StakesAre
  <1>6. \A l \in Lenders : contribution[l].contribution_amount = stake[l]
    BY DEF StakesAre, NoContribution
  <1>7. \A l \in Lenders : escrow[l].escrow_amount = 0 /\ escrow[l].usdc = 0
    BY DEF StakesAre, NoEscrow
  <1> QED  BY <1>4, <1>5, <1>6, <1>7
=============================================================================
