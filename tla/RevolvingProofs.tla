--------------------------- MODULE RevolvingProofs ---------------------------
(* Theorems about a revolving facility, for any lenders, terms, rates,     *)
(* prices, amounts and bounds.                                             *)
EXTENDS Revolving, LoanServicingProofs

FacilityType ==
    [credit_limit : Nat, drawn_amount : Nat, available_amount : Nat,
     accrued_standby_fees : Nat, last_standby_fee_update : Nat,
     revolving_closed : BOOLEAN]

(* FacilityAddsUp, of given accounts.                                      *)
FacilityFits(c, f) ==
    /\ c.outstanding_balance = f.drawn_amount
    /\ f.drawn_amount + f.available_amount <= f.credit_limit
    /\ f.credit_limit <= c.funded_amount

RevolvingInductive ==
    /\ TypeOK
    /\ facility \in FacilityType
    /\ IsFiniteSet(contract.contributions)
    /\ FacilityAddsUp
    /\ TotalDebtIsDrawn
    /\ ClosedFacilityCompletes

-----------------------------------------------------------------------------
(* What every instruction starts from, and what it has to show.            *)
LEMMA FacilityFacts ==
    ASSUME RevolvingInductive
    PROVE  /\ TypeOK /\ now \in Nat /\ terms \in Offers
           /\ contract \in ContractType /\ facility \in FacilityType
           /\ contribution \in [Lenders -> ContributionType]
           /\ escrow \in [Lenders -> EscrowType]
           /\ usdc \in Nat /\ collateral \in Nat /\ treasuryUsdc \in Nat
           /\ contract.contributions \subseteq Lenders
           /\ IsFiniteSet(contract.contributions)
           /\ OtherDebt \in Nat
           /\ totalDebt = OtherDebt + facility.drawn_amount
           /\ OnLoan => FacilityFits(contract, facility)
  BY ConstantsAreNumbers
     DEF RevolvingInductive, TypeOK, FacilityAddsUp, FacilityFits,
         TotalDebtIsDrawn, ContractType

LEMMA FacilityKeeps ==
    ASSUME RevolvingInductive, UNCHANGED <<now, isPaused, terms, approved>>,
           contract' \in ContractType, facility' \in FacilityType,
           contribution' \in [Lenders -> ContributionType],
           escrow' \in [Lenders -> EscrowType],
           usdc' \in Nat, collateral' \in Nat, treasuryUsdc' \in Nat,
           IsFiniteSet(contract'.contributions),
           contract'.status \in {"Active", "PendingRecall"} =>
              FacilityFits(contract', facility'),
           contract'.status = "Active" /\ facility'.credit_limit > 0 =>
              ~RevolvingCompletion(contract', facility'),
           contract'.status = "Completed" /\ contract'.contributions # {} =>
              RevolvingCompletion(contract', facility'),
           totalDebt' = OtherDebt + facility'.drawn_amount
    PROVE  RevolvingInductive'
  <1>1. totalDebt' \in Nat  BY ConstantsAreNumbers DEF FacilityType
  <1>2. TypeOK'  BY <1>1 DEF RevolvingInductive, TypeOK
  <1>3. FacilityAddsUp'  BY DEF FacilityAddsUp, FacilityFits, OnLoan
  <1>4. ClosedFacilityCompletes'
    BY DEF ClosedFacilityCompletes, RevolvingCompletion
  <1> QED  BY <1>2, <1>3, <1>4 DEF RevolvingInductive, TotalDebtIsDrawn

-----------------------------------------------------------------------------
(* Charging standby fees and interest.                                     *)
SameLimit(f, g) ==
    /\ g.credit_limit = f.credit_limit
    /\ g.drawn_amount = f.drawn_amount
    /\ g.available_amount = f.available_amount
    /\ g.revolving_closed = f.revolving_closed

LEMMA StandbyFeesType ==
    ASSUME TypeOK, NEW f \in FacilityType,
           ~f.revolving_closed => f.drawn_amount <= f.credit_limit
    PROVE  /\ WithStandbyFees(f) \in FacilityType
           /\ SameLimit(f, WithStandbyFees(f))
           /\ f.revolving_closed => WithStandbyFees(f) = f
           /\ WithStandbyFees(f).revolving_closed
              \/ WithStandbyFees(f).last_standby_fee_update >= now
  <1>0. now \in Nat /\ f.last_standby_fee_update \in Nat
    BY DEF TypeOK, FacilityType
  <1>1. CASE f.revolving_closed \/ now <= f.last_standby_fee_update
    <2>1. WithStandbyFees(f) = f  BY <1>1 DEF WithStandbyFees
    <2> QED  BY <1>0, <1>1, <2>1 DEF SameLimit
  <1>2. CASE ~(f.revolving_closed \/ now <= f.last_standby_fee_update)
    <2> DEFINE undrawn == f.credit_limit - f.drawn_amount
               elapsed == now - f.last_standby_fee_update
               fee == (undrawn * StandbyFeeRate * elapsed) \div InterestDenom
               fees == f.accrued_standby_fees + fee
    <2>1. undrawn \in Nat /\ elapsed \in Nat /\ f.accrued_standby_fees \in Nat
      BY <1>0, <1>2 DEF FacilityType
    <2>2. StandbyFeeRate \in Nat /\ InterestDenom \in Nat \ {0}
      <3>1. terms \in Offers  BY DEF TypeOK
      <3>2. terms.interest_rate \in Nat  BY TermsAreNumbers
      <3> QED  BY <3>1, <3>2, RevolvingConstants, ServicingConstantsAreNumbers
    <2>3. WithStandbyFees(f) = [f EXCEPT !.accrued_standby_fees = fees,
                                         !.last_standby_fee_update = now]
      BY <1>2 DEF WithStandbyFees
    <2> HIDE DEF undrawn, elapsed
    <2>4. undrawn * StandbyFeeRate * elapsed \in Nat  BY <2>1, <2>2
    <2>5. fee \in Nat  BY <2>2, <2>4, QuotientType
    <2> HIDE DEF fee
    <2>6. fees \in Nat  BY <2>1, <2>5
    <2> HIDE DEF fees
    <2>7. WithStandbyFees(f) \in FacilityType
      BY <1>0, <2>3, <2>6, ZenonT(40) DEF FacilityType
    <2>8. /\ SameLimit(f, WithStandbyFees(f))
          /\ WithStandbyFees(f).last_standby_fee_update = now
      BY <2>3 DEF FacilityType, SameLimit
    <2> QED  BY <1>0, <1>2, <2>7, <2>8
  <1> QED  BY <1>1, <1>2

LEMMA DrawnInterestType ==
    ASSUME TypeOK, NEW c \in ContractType, NEW f \in FacilityType
    PROVE  /\ WithDrawnInterest(c, f) \in ContractType
           /\ SameLenders(c, WithDrawnInterest(c, f))
           /\ WithDrawnInterest(c, f).outstanding_balance =
                c.outstanding_balance
           /\ WithDrawnInterest(c, f).total_principal_paid =
                c.total_principal_paid
           /\ c.accrued_interest > 0 /\ f.credit_limit > 0 =>
                WithDrawnInterest(c, f).accrued_interest > 0
           /\ IF c.last_interest_update = 0
              THEN WithDrawnInterest(c, f) = c
              ELSE WithDrawnInterest(c, f).last_interest_update >= now
  <1>0. now \in Nat /\ c.last_interest_update \in Nat
    BY DEF TypeOK, ContractType
  <1>1. CASE c.last_interest_update = 0 \/ now <= c.last_interest_update
    <2>1. WithDrawnInterest(c, f) = c  BY <1>1 DEF WithDrawnInterest
    <2> QED  BY <1>0, <1>1, <2>1 DEF SameLenders
  <1>2. CASE ~(c.last_interest_update = 0 \/ now <= c.last_interest_update)
    <2> DEFINE elapsed == now - c.last_interest_update
               cap == f.credit_limit * BalanceCap
               charge == c.accrued_interest + Interest(f.drawn_amount, elapsed)
               accrued == Lesser(charge, cap)
    <2>1. /\ elapsed \in Nat /\ c.accrued_interest \in Nat
          /\ f.drawn_amount \in Nat /\ f.credit_limit \in Nat
          /\ BalanceCap \in Nat \ {0}
      BY <1>0, <1>2, ServicingConstantsAreNumbers DEF ContractType, FacilityType
    <2>2. Interest(f.drawn_amount, elapsed) \in Nat  BY <2>1, InterestType
    <2>3. charge \in Nat /\ charge >= c.accrued_interest  BY <2>1, <2>2
    <2>4. cap \in Nat /\ (f.credit_limit > 0 => cap > 0)
      <3>1. \A a, b \in Nat : a * b \in Nat  OBVIOUS
      <3>2. \A a, b \in Nat \ {0} : a * b \in Nat \ {0}  OBVIOUS
      <3>3. cap \in Nat  BY <2>1, <3>1
      <3>4. ASSUME f.credit_limit > 0 PROVE cap > 0
        <4>1. f.credit_limit \in Nat \ {0}  BY <2>1, <3>4
        <4>2. cap \in Nat \ {0}  BY <2>1, <3>2, <4>1
        <4> QED  BY <4>2
      <3> QED  BY <3>3, <3>4
    <2>5. WithDrawnInterest(c, f) = [c EXCEPT !.accrued_interest = accrued,
                                              !.last_interest_update = now]
      BY <1>2 DEF WithDrawnInterest
    <2> HIDE DEF elapsed, cap, charge
    <2>6. /\ accrued \in Nat
          /\ c.accrued_interest > 0 /\ f.credit_limit > 0 => accrued > 0
      BY <2>1, <2>3, <2>4 DEF Lesser
    <2> HIDE DEF accrued
    <2>7. WithDrawnInterest(c, f) \in ContractType
      BY <1>0, <2>5, <2>6, ZenonT(40) DEF ContractType
    <2>8. /\ SameLenders(c, WithDrawnInterest(c, f))
          /\ WithDrawnInterest(c, f).outstanding_balance =
               c.outstanding_balance
          /\ WithDrawnInterest(c, f).total_principal_paid =
               c.total_principal_paid
          /\ WithDrawnInterest(c, f).accrued_interest = accrued
          /\ WithDrawnInterest(c, f).last_interest_update = now
      BY <2>5 DEF ContractType, SameLenders
    <2> QED  BY <1>0, <1>2, <2>6, <2>7, <2>8
  <1> QED  BY <1>1, <1>2

(* Everything that is charged when an instruction begins.                  *)
LEMMA ChargedIs ==
    ASSUME RevolvingInductive, OnLoan
    PROVE  /\ Charged \in ContractType /\ SameLenders(contract, Charged)
           /\ Charged.outstanding_balance = facility.drawn_amount
           /\ Charged.accrued_interest \in Nat
           /\ Charged.total_principal_paid \in Nat
           /\ Charged.collateral_amount \in Nat
           /\ FacilityFits(Charged, facility)
           /\ WithStandbyFees(facility) \in FacilityType
           /\ SameLimit(facility, WithStandbyFees(facility))
           /\ facility.revolving_closed => WithStandbyFees(facility) = facility
           /\ WithStandbyFees(facility).accrued_standby_fees \in Nat
           /\ WithStandbyFees(facility).drawn_amount \in Nat
           /\ FacilityFits(Charged, WithStandbyFees(facility))
  <1>1. /\ TypeOK /\ contract \in ContractType /\ facility \in FacilityType
        /\ FacilityFits(contract, facility)
    BY FacilityFacts
  <1>2. facility.drawn_amount <= facility.credit_limit
    BY <1>1 DEF FacilityFits, FacilityType
  <1>3. /\ Charged \in ContractType /\ SameLenders(contract, Charged)
        /\ Charged.outstanding_balance = contract.outstanding_balance
    BY <1>1, DrawnInterestType DEF Charged
  <1>4. /\ WithStandbyFees(facility) \in FacilityType
        /\ SameLimit(facility, WithStandbyFees(facility))
        /\ facility.revolving_closed => WithStandbyFees(facility) = facility
    BY <1>1, <1>2, StandbyFeesType
  <1>5. /\ FacilityFits(Charged, facility)
        /\ FacilityFits(Charged, WithStandbyFees(facility))
    BY <1>1, <1>3, <1>4 DEF FacilityFits, SameLenders, SameLimit
  <1>6. /\ Charged.accrued_interest \in Nat
        /\ Charged.total_principal_paid \in Nat
        /\ Charged.collateral_amount \in Nat
        /\ WithStandbyFees(facility).accrued_standby_fees \in Nat
        /\ WithStandbyFees(facility).drawn_amount \in Nat
    BY <1>3, <1>4 DEF ContractType, FacilityType
  <1> QED  BY <1>1, <1>3, <1>4, <1>5, <1>6 DEF FacilityFits
-----------------------------------------------------------------------------
(* Drawing and repaying.                                                   *)
LEMMA DrawKeeps ==
    ASSUME RevolvingInductive, NEW amount \in Nat, NEW price,
           DrawFromRevolving(amount, price)
    PROVE  RevolvingInductive'
  <1> DEFINE f == WithStandbyFees(facility)
             drawnAmount == f.drawn_amount + amount
             available == f.available_amount - amount
             left == usdc - amount
             drawn == [f EXCEPT !.drawn_amount = drawnAmount,
                                !.available_amount = available]
  <1>1. /\ contract.status = "Active" /\ ~facility.revolving_closed
        /\ amount <= facility.available_amount /\ amount <= usdc
        /\ facility' = drawn
        /\ contract' = [Charged EXCEPT !.outstanding_balance = drawnAmount,
                                       !.last_interest_update = now]
        /\ usdc' = left /\ totalDebt' = totalDebt + amount
        /\ UNCHANGED <<now, isPaused, terms, contribution, escrow, approved,
                       collateral, treasuryUsdc>>
    BY FacilityFacts, ChargedIs DEF DrawFromRevolving, OnLoan, FacilityType
  <1>2. OnLoan  BY <1>1 DEF OnLoan
  <1>3. /\ f \in FacilityType /\ SameLimit(facility, f)
        /\ Charged \in ContractType /\ SameLenders(contract, Charged)
        /\ FacilityFits(Charged, f)
        /\ f.drawn_amount \in Nat /\ f.available_amount \in Nat
        /\ usdc \in Nat /\ now \in Nat
    BY <1>2, FacilityFacts, ChargedIs DEF FacilityType
  <1>4. f.available_amount = facility.available_amount /\ ~f.revolving_closed
    BY <1>1, <1>3 DEF SameLimit
  <1>5. drawnAmount \in Nat /\ available \in Nat /\ left \in Nat
    BY <1>1, <1>3, <1>4
  <1>6. drawnAmount + available = f.drawn_amount + f.available_amount
    BY <1>3
  <1>7. totalDebt' = OtherDebt + drawnAmount
    BY <1>1, <1>3, FacilityFacts DEF SameLimit
  <1> HIDE DEF drawnAmount, available, left, f
  <1>8. facility' \in FacilityType
    BY <1>1, <1>3, <1>5, ZenonT(40) DEF FacilityType
  <1>9. contract' \in ContractType
    BY <1>1, <1>3, <1>5, ZenonT(40) DEF ContractType
  <1>10. /\ facility'.drawn_amount = drawnAmount
         /\ facility'.available_amount = available
         /\ facility'.credit_limit = f.credit_limit
    BY <1>1, <1>3 DEF FacilityType
  <1>10a. facility'.revolving_closed = f.revolving_closed
    BY <1>1, <1>3 DEF FacilityType
  <1>11. /\ contract'.outstanding_balance = drawnAmount
         /\ contract'.funded_amount = Charged.funded_amount
         /\ contract'.status = contract.status
         /\ contract'.contributions = contract.contributions
    BY <1>1, <1>3 DEF ContractType, SameLenders
  <1>12. FacilityFits(contract', facility')
    BY <1>3, <1>6, <1>10, <1>11 DEF FacilityFits
  <1>13. ~RevolvingCompletion(contract', facility')
    BY <1>4, <1>10a DEF RevolvingCompletion
  <1>14. totalDebt' = OtherDebt + facility'.drawn_amount  BY <1>7, <1>10
  <1>15. contract'.status = "Active"  BY <1>1, <1>11
  <1>16. /\ UNCHANGED <<now, isPaused, terms, approved>>
         /\ contribution' \in [Lenders -> ContributionType]
         /\ escrow' \in [Lenders -> EscrowType]
         /\ usdc' \in Nat /\ collateral' \in Nat /\ treasuryUsdc' \in Nat
         /\ IsFiniteSet(contract'.contributions)
    BY <1>1, <1>5, <1>11, FacilityFacts
  <1> QED
    BY <1>8, <1>9, <1>12, <1>13, <1>14, <1>15, <1>16, FacilityKeeps

(* What Settled makes of a contract of which nothing more is drawn than f  *)
(* says.                                                                   *)
LEMMA SettledIs ==
    ASSUME NEW c \in ContractType, NEW f \in FacilityType
    PROVE  /\ Settled(c, f) \in ContractType
           /\ Settled(c, f).outstanding_balance = f.drawn_amount
           /\ Settled(c, f).accrued_interest = c.accrued_interest
           /\ Settled(c, f).last_interest_update = c.last_interest_update
           /\ Settled(c, f).funded_amount = c.funded_amount
           /\ Settled(c, f).contributions = c.contributions
           /\ Settled(c, f).collateral_amount = c.collateral_amount
           /\ Settled(c, f).status = IF RevolvingCompletion(c, f)
                                     THEN "Completed" ELSE c.status
           /\ RevolvingCompletion(Settled(c, f), f) <=>
                RevolvingCompletion(c, f)
  <1> DEFINE status == IF RevolvingCompletion(c, f) THEN "Completed"
                       ELSE c.status
             balance == f.drawn_amount
             s == Settled(c, f)
  <1>1. status \in Statuses /\ balance \in Nat
    BY DEF Statuses, ContractType, FacilityType
  <1>2. s = [c EXCEPT !.outstanding_balance = balance, !.status = status]
    BY DEF Settled, ContractType
  <1> HIDE DEF status, balance, s
  <1>3. s \in ContractType  BY <1>1, <1>2, ZenonT(40) DEF ContractType
  <1>4. /\ s.outstanding_balance = balance
        /\ s.accrued_interest = c.accrued_interest
        /\ s.last_interest_update = c.last_interest_update
        /\ s.funded_amount = c.funded_amount
        /\ s.contributions = c.contributions
        /\ s.collateral_amount = c.collateral_amount
        /\ s.status = status
    BY <1>2 DEF ContractType
  <1>5. RevolvingCompletion(s, f) <=> RevolvingCompletion(c, f)
    BY <1>4 DEF RevolvingCompletion
  <1> QED  BY <1>3, <1>4, <1>5 DEF s, balance, status

(* A step that ends in Settled, of the charged contract or of one of which *)
(* some interest was paid.                                                 *)
LEMMA SettledKeeps ==
    ASSUME RevolvingInductive, OnLoan, NEW c \in ContractType,
           SameLenders(contract, c) \/ /\ c.status = contract.status
                                       /\ c.funded_amount = contract.funded_amount
                                       /\ c.contributions = contract.contributions,
           facility' \in FacilityType,
           facility'.drawn_amount + facility'.available_amount
              <= facility'.credit_limit,
           facility'.credit_limit = facility.credit_limit,
           \/ contract' = Settled(c, facility')
           \/ /\ RevolvingCompletion(c, facility')
              /\ contract' = [Settled(c, facility') EXCEPT
                                !.collateral_amount = 0],
           totalDebt' = OtherDebt + facility'.drawn_amount,
           escrow' \in [Lenders -> EscrowType],
           usdc' \in Nat, collateral' \in Nat,
           UNCHANGED <<now, isPaused, terms, contribution, approved,
                       treasuryUsdc>>
    PROVE  RevolvingInductive'
  <1> DEFINE s == Settled(c, facility')
  <1>1. /\ s \in ContractType
        /\ s.outstanding_balance = facility'.drawn_amount
        /\ s.accrued_interest = c.accrued_interest
        /\ s.funded_amount = c.funded_amount
        /\ s.contributions = c.contributions
        /\ s.status = IF RevolvingCompletion(c, facility')
                      THEN "Completed" ELSE c.status
        /\ RevolvingCompletion(s, facility') <=>
             RevolvingCompletion(c, facility')
    BY SettledIs
  <1>2. /\ c.status = contract.status
        /\ c.funded_amount = contract.funded_amount
        /\ c.contributions = contract.contributions
    BY DEF SameLenders
  <1>3. /\ facility.credit_limit <= contract.funded_amount
        /\ IsFiniteSet(contract.contributions)
        /\ contribution' \in [Lenders -> ContributionType]
        /\ treasuryUsdc' \in Nat
        /\ contract.status \in {"Active", "PendingRecall"}
    BY FacilityFacts DEF FacilityFits, OnLoan
  <1> HIDE DEF s
  <1>4. /\ contract' \in ContractType
        /\ contract'.outstanding_balance = s.outstanding_balance
        /\ contract'.accrued_interest = s.accrued_interest
        /\ contract'.funded_amount = s.funded_amount
        /\ contract'.contributions = s.contributions
        /\ contract'.status = s.status
    <2>1. CASE contract' = s  BY <1>1, <2>1
    <2>2. CASE contract' = [s EXCEPT !.collateral_amount = 0]
      <3>1. contract' \in ContractType
        BY <1>1, <2>2, ZenonT(40) DEF ContractType
      <3> QED  BY <1>1, <2>2, <3>1 DEF ContractType
    <2> QED  BY <2>1, <2>2 DEF s
  <1>5. RevolvingCompletion(contract', facility') <=>
          RevolvingCompletion(c, facility')
    BY <1>1, <1>4 DEF RevolvingCompletion
  <1>6. FacilityFits(contract', facility')
    BY <1>1, <1>2, <1>3, <1>4 DEF FacilityFits
  <1>7. IsFiniteSet(contract'.contributions)  BY <1>1, <1>2, <1>3, <1>4
  <1>8. contract'.status = IF RevolvingCompletion(contract', facility')
                           THEN "Completed" ELSE contract.status
    BY <1>1, <1>2, <1>4, <1>5
  <1>9. /\ contract'.status = "Active" =>
              ~RevolvingCompletion(contract', facility')
        /\ contract'.status = "Completed" =>
              RevolvingCompletion(contract', facility')
    BY <1>3, <1>8
  <1> QED  BY <1>3, <1>4, <1>6, <1>7, <1>9, FacilityKeeps
LEMMA RepayKeeps ==
    ASSUME RevolvingInductive, NEW amount \in Nat, RepayRevolving(amount)
    PROVE  RevolvingInductive'
  <1> DEFINE f == WithStandbyFees(facility)
             drawnAmount == f.drawn_amount - amount
             available == IF f.revolving_closed THEN 0
                          ELSE f.available_amount + amount
             repaid == [f EXCEPT !.drawn_amount = drawnAmount,
                                 !.available_amount = available]
  <1>1. OnLoan  BY DEF RepayRevolving
  <1>2. /\ f \in FacilityType /\ SameLimit(facility, f)
        /\ Charged \in ContractType /\ SameLenders(contract, Charged)
        /\ FacilityFits(Charged, f)
        /\ f.drawn_amount \in Nat /\ f.available_amount \in Nat
        /\ f.credit_limit \in Nat
        /\ usdc \in Nat /\ now \in Nat /\ collateral \in Nat
        /\ escrow \in [Lenders -> EscrowType]
    BY <1>1, FacilityFacts, ChargedIs DEF FacilityType
  <1>3. /\ amount <= facility.drawn_amount
        /\ facility' = [f EXCEPT !.drawn_amount = @ - amount,
                                 !.available_amount =
                                    IF f.revolving_closed THEN 0 ELSE @ + amount]
        /\ contract' = Settled(Charged, facility')
        /\ usdc' = usdc + amount /\ totalDebt' = totalDebt - amount
        /\ UNCHANGED <<now, isPaused, terms, contribution, escrow, approved,
                       collateral, treasuryUsdc>>
    BY DEF RepayRevolving
  <1>4. facility' = repaid  BY <1>2, <1>3 DEF FacilityType
  <1>5. drawnAmount \in Nat /\ available \in Nat
    BY <1>2, <1>3 DEF SameLimit
  <1>6. drawnAmount + available <= f.credit_limit
    BY <1>2, <1>5 DEF FacilityFits
  <1>7. totalDebt' = OtherDebt + drawnAmount
    BY <1>2, <1>3, FacilityFacts DEF SameLimit
  <1> HIDE DEF drawnAmount, available, f
  <1>8. facility' \in FacilityType
    BY <1>2, <1>4, <1>5, ZenonT(40) DEF FacilityType
  <1>9. /\ facility'.drawn_amount = drawnAmount
        /\ facility'.available_amount = available
        /\ facility'.credit_limit = f.credit_limit
    BY <1>2, <1>4 DEF FacilityType
  <1>10. facility'.credit_limit = facility.credit_limit
    BY <1>2, <1>9 DEF SameLimit
  <1>11. usdc' \in Nat /\ collateral' \in Nat
         /\ escrow' \in [Lenders -> EscrowType]
    BY <1>2, <1>3
  <1> QED
    BY <1>1, <1>2, <1>3, <1>6, <1>7, <1>8, <1>9, <1>10, <1>11, SettledKeeps

-----------------------------------------------------------------------------
(* Closing: what was available is not any more, and a fee may be due.      *)
LEMMA ClosedIs ==
    ASSUME NEW f \in FacilityType, NEW fee \in Nat
    PROVE  /\ Closed(f, fee) \in FacilityType
           /\ Closed(f, fee).drawn_amount = f.drawn_amount
           /\ Closed(f, fee).credit_limit = f.credit_limit
           /\ Closed(f, fee).available_amount = 0
           /\ Closed(f, fee).revolving_closed
  <1> DEFINE fees == f.accrued_standby_fees + fee
  <1>1. fees \in Nat  BY DEF FacilityType
  <1>2. Closed(f, fee) = [f EXCEPT !.revolving_closed = TRUE,
                                   !.available_amount = 0,
                                   !.accrued_standby_fees = fees]
    BY DEF Closed
  <1> HIDE DEF fees
  <1>3. 0 \in Nat /\ TRUE \in BOOLEAN  OBVIOUS
  <1>4. Closed(f, fee) \in FacilityType
    BY <1>1, <1>2, <1>3, ZenonT(40) DEF FacilityType
  <1>5. /\ Closed(f, fee).drawn_amount = f.drawn_amount
        /\ Closed(f, fee).credit_limit = f.credit_limit
        /\ Closed(f, fee).available_amount = 0
    BY <1>2 DEF FacilityType
  <1>6. Closed(f, fee).revolving_closed  BY <1>2 DEF FacilityType
  <1> QED  BY <1>4, <1>5, <1>6

LEMMA CloseFacilityKeeps ==
    ASSUME RevolvingInductive, NEW fee \in Nat, CloseFacility(fee)
    PROVE  RevolvingInductive'
  <1> DEFINE f == WithStandbyFees(facility)
             closed == Closed(f, fee)
             status == IF RevolvingCompletion(Charged, closed)
                       THEN "Completed" ELSE Charged.status
  <1>1. OnLoan /\ contract.status = "Active"  BY DEF CloseFacility, OnLoan
  <1>2. /\ f \in FacilityType /\ SameLimit(facility, f)
        /\ Charged \in ContractType /\ SameLenders(contract, Charged)
        /\ FacilityFits(Charged, f)
        /\ Charged.outstanding_balance = facility.drawn_amount
        /\ usdc \in Nat
    BY <1>1, FacilityFacts, ChargedIs
  <1>3. /\ facility' = closed
        /\ contract' = [Charged EXCEPT !.status = status]
        /\ usdc' = usdc + fee
        /\ UNCHANGED <<now, isPaused, terms, contribution, escrow, approved,
                       collateral, treasuryUsdc, totalDebt>>
    BY <1>2 DEF CloseFacility, ContractType
  <1>4. /\ closed \in FacilityType
        /\ closed.drawn_amount = f.drawn_amount
        /\ closed.credit_limit = f.credit_limit
        /\ closed.available_amount = 0
    BY <1>2, ClosedIs
  <1>5. status \in Statuses  BY <1>2 DEF Statuses, ContractType
  <1>6. status = IF RevolvingCompletion(Charged, closed)
                 THEN "Completed" ELSE "Active"
    BY <1>1, <1>2 DEF SameLenders
  <1> HIDE DEF status, closed, f
  <1>7. contract' \in ContractType
    BY <1>2, <1>3, <1>5, ZenonT(40) DEF ContractType
  <1>8. /\ contract'.outstanding_balance = Charged.outstanding_balance
        /\ contract'.accrued_interest = Charged.accrued_interest
        /\ contract'.funded_amount = contract.funded_amount
        /\ contract'.contributions = contract.contributions
        /\ contract'.status = status
    BY <1>2, <1>3 DEF ContractType, SameLenders
  <1>9. /\ f.drawn_amount \in Nat /\ f.credit_limit \in Nat
        /\ f.available_amount \in Nat
    BY <1>2 DEF FacilityType
  <1>10. FacilityFits(contract', facility')
    BY <1>2, <1>3, <1>4, <1>8, <1>9 DEF FacilityFits, SameLimit, SameLenders
  <1>11. RevolvingCompletion(contract', facility') <=>
           RevolvingCompletion(Charged, closed)
    BY <1>3, <1>8 DEF RevolvingCompletion
  <1>12. /\ contract'.status = "Active" =>
               ~RevolvingCompletion(contract', facility')
         /\ contract'.status = "Completed" =>
               RevolvingCompletion(contract', facility')
    BY <1>6, <1>8, <1>11
  <1>13. totalDebt' = OtherDebt + facility'.drawn_amount
    BY <1>2, <1>3, <1>4, FacilityFacts DEF SameLimit
  <1>14. /\ UNCHANGED <<now, isPaused, terms, approved>>
         /\ contribution' \in [Lenders -> ContributionType]
         /\ escrow' \in [Lenders -> EscrowType]
         /\ usdc' \in Nat /\ collateral' \in Nat /\ treasuryUsdc' \in Nat
         /\ IsFiniteSet(contract'.contributions)
         /\ facility' \in FacilityType
    BY <1>2, <1>3, <1>4, <1>8, FacilityFacts
  <1> QED
    BY <1>7, <1>10, <1>12, <1>13, <1>14, FacilityKeeps

(* The fee for the rest of the term.                                       *)
LEMMA TerminationFeeType ==
    ASSUME RevolvingInductive
    PROVE  EarlyTerminationFee \in Nat
  <1> DEFINE left == contract.created_at + terms.term_days * Day - now
  <1>1. CASE terms.loan_type = "Committed" /\ terms.term_days > 0 /\ ~Matured
    <2>1. /\ terms \in Offers /\ now \in Nat /\ contract.created_at \in Nat
          /\ facility.available_amount \in Nat
          /\ terms.term_days \in Nat /\ terms.interest_rate \in Nat
          /\ Day \in Nat /\ InterestDenom \in Nat \ {0}
      BY FacilityFacts, TermsAreNumbers, ServicingConstantsAreNumbers
         DEF ContractType, FacilityType
    <2>2. StandbyFeeRate \in Nat  BY <2>1, RevolvingConstants
    <2>3. terms.term_days * Day \in Nat  BY <2>1
    <2>4. left \in Nat  BY <1>1, <2>1, <2>3 DEF Matured
    <2> HIDE DEF left
    <2>5. facility.available_amount * StandbyFeeRate * left \in Nat
      BY <2>1, <2>2, <2>4
    <2>6. EarlyTerminationFee =
            (facility.available_amount * StandbyFeeRate * left)
              \div InterestDenom
      BY <1>1 DEF EarlyTerminationFee, left
    <2> QED  BY <2>1, <2>5, <2>6, QuotientType
  <1>2. CASE ~(terms.loan_type = "Committed" /\ terms.term_days > 0 /\ ~Matured)
    BY <1>2 DEF EarlyTerminationFee
  <1> QED  BY <1>1, <1>2

(* Sweeping the account changes nothing on the books.                      *)
LEMMA SweepKeeps ==
    ASSUME RevolvingInductive, SweepContractPool
    PROVE  RevolvingInductive'
  BY DEF RevolvingInductive, SweepContractPool, TypeOK, FacilityAddsUp,
         TotalDebtIsDrawn, ClosedFacilityCompletes, OnLoan
-----------------------------------------------------------------------------
(* Distributions to the lenders' escrows.                                  *)
LEMMA CreditedEscrowType ==
    ASSUME NEW e \in EscrowType, NEW interest \in Nat, NEW principal \in Nat
    PROVE  Credited(e, interest, principal) \in EscrowType
  <1> DEFINE paid == e.available_interest + interest
             due == e.available_principal + principal
             amount == e.escrow_amount + interest + principal
             balance == e.usdc + interest + principal
  <1>1. paid \in Nat /\ due \in Nat /\ amount \in Nat /\ balance \in Nat
    BY DEF EscrowType
  <1>2. Credited(e, interest, principal) =
          [e EXCEPT !.available_interest = paid, !.available_principal = due,
                    !.escrow_amount = amount, !.usdc = balance]
    BY DEF Credited
  <1> HIDE DEF paid, due, amount, balance
  <1> QED  BY <1>1, <1>2, ZenonT(40) DEF EscrowType

LEMMA FacilitySharesType ==
    ASSUME RevolvingInductive, contract.funded_amount > 0, NEW last,
           NEW amount \in Nat
    PROVE  /\ \A l \in contract.contributions :
                 LenderShare(l, last, amount) \in Nat
           /\ SharesOf(amount, last) \in Nat
  <1> DEFINE S == contract.contributions
             R == S \ {last}
             whole == contract.funded_amount
             h == RoundedOf(contribution, whole, amount, R)
             e == LenderSharesOf(amount, last, S)
  <1>1. /\ IsFiniteSet(S) /\ S \subseteq Lenders /\ whole \in Nat \ {0}
        /\ \A l \in Lenders : contribution[l].contribution_amount \in Nat
    BY FacilityFacts DEF ContractType, ContributionType
  <1>2. IsFiniteSet(R) /\ R \subseteq S  BY <1>1, FS_RemoveElement
  <1>3. \A l \in Lenders :
          Share(contribution[l].contribution_amount, whole, amount) \in Nat
    <2> SUFFICES ASSUME NEW l \in Lenders
                 PROVE  Share(contribution[l].contribution_amount, whole, amount)
                          \in Nat
      OBVIOUS
    <2>1. contribution[l].contribution_amount * amount \in Nat  BY <1>1
    <2> QED  BY <1>1, <2>1, QuotientType DEF Share
  <1>4. \A l \in R : h[l] \in Nat  BY <1>1, <1>2, <1>3 DEF RoundedOf
  <1>5. RoundedTotal(contribution, whole, amount, R) = Total(h, R)
    BY <1>2, RoundedTotalIs
  <1>6. Total(h, R) \in Nat  BY <1>2, <1>4, TotalType
  <1>7. \A l \in S : LenderShare(l, last, amount) \in Nat
    <2> SUFFICES ASSUME NEW l \in S PROVE LenderShare(l, last, amount) \in Nat
      OBVIOUS
    <2>1. CASE l = last
      <3>1. LenderShare(l, last, amount) =
              MinusSaturating(amount,
                RoundedTotal(contribution, whole, amount, R))
        BY <2>1, LenderShareIs
      <3> QED  BY <1>5, <1>6, <3>1 DEF MinusSaturating
    <2>2. CASE l # last
      <3>1. LenderShare(l, last, amount) =
              Share(contribution[l].contribution_amount, whole, amount)
        BY <2>2, LenderShareIs
      <3> QED  BY <1>1, <1>3, <3>1
    <2> QED  BY <2>1, <2>2
  <1>8. SharesOf(amount, last) = Total(e, S)  BY <1>1, SharesOfIs
  <1>9. \A l \in S : e[l] \in Nat  BY <1>7 DEF LenderSharesOf
  <1>10. Total(e, S) \in Nat  BY <1>1, <1>9, TotalType
  <1> QED  BY <1>7, <1>8, <1>10

LEMMA FacilityEscrowsType ==
    ASSUME RevolvingInductive, contract.funded_amount > 0, NEW last,
           NEW amount \in Nat
    PROVE  /\ EscrowsWithInterest(amount, last) \in [Lenders -> EscrowType]
           /\ EscrowsWith(amount, last) \in [Lenders -> EscrowType]
  <1>1. /\ escrow \in [Lenders -> EscrowType]
        /\ \A l \in contract.contributions : LenderShare(l, last, amount) \in Nat
    BY FacilityFacts, FacilitySharesType
  <1>2. \A l \in Lenders :
          l \in contract.contributions =>
            /\ Credited(escrow[l], LenderShare(l, last, amount), 0) \in EscrowType
            /\ Credited(escrow[l], 0, LenderShare(l, last, amount)) \in EscrowType
    BY <1>1, CreditedEscrowType
  <1>3. EscrowsWithInterest(amount, last) \in [Lenders -> EscrowType]
    BY <1>1, <1>2 DEF EscrowsWithInterest
  <1>4. EscrowsWith(amount, last) \in [Lenders -> EscrowType]
    BY <1>1, <1>2 DEF EscrowsWith
  <1> QED  BY <1>3, <1>4

(* Standby fees that are distributed come off what may be drawn.           *)
LEMMA DistributeFeesKeeps ==
    ASSUME RevolvingInductive, NEW last \in Lenders, DistributeStandbyFees(last)
    PROVE  RevolvingInductive'
  <1> DEFINE f == WithStandbyFees(facility)
             fees == f.accrued_standby_fees
             available == IF f.revolving_closed THEN f.available_amount
                          ELSE MinusSaturating(f.available_amount, fees)
             paid == [f EXCEPT !.accrued_standby_fees = 0,
                               !.available_amount = available]
  <1>1. OnLoan  BY DEF DistributeStandbyFees
  <1>2. /\ f \in FacilityType /\ SameLimit(facility, f)
        /\ fees \in Nat /\ f.drawn_amount \in Nat
        /\ f.available_amount \in Nat /\ f.credit_limit \in Nat
        /\ contract \in ContractType /\ FacilityFits(contract, facility)
        /\ usdc \in Nat /\ collateral \in Nat /\ now \in Nat
    BY <1>1, FacilityFacts, ChargedIs DEF FacilityType
  <1>3. /\ usdc >= fees /\ contract.funded_amount > 0
        /\ escrow' = EscrowsWithInterest(fees, last)
        /\ usdc' = usdc - fees
        /\ facility' = [f EXCEPT !.accrued_standby_fees = 0,
                                 !.available_amount =
                                    IF f.revolving_closed THEN @
                                    ELSE MinusSaturating(@, fees)]
        /\ contract' = [contract EXCEPT
             !.status = IF RevolvingCompletion(contract, facility')
                        THEN "Completed" ELSE @]
        /\ UNCHANGED <<now, isPaused, terms, contribution, approved,
                       collateral, treasuryUsdc, totalDebt>>
    BY DEF DistributeStandbyFees
  <1>4. facility' = paid  BY <1>2, <1>3 DEF FacilityType
  <1>5. available \in Nat /\ available <= f.available_amount
    BY <1>2 DEF MinusSaturating
  <1>6. escrow' \in [Lenders -> EscrowType]
    BY <1>2, <1>3, FacilityEscrowsType
  <1>7. usdc' \in Nat  BY <1>2, <1>3
  <1> HIDE DEF available, fees, f
  <1>8. facility' \in FacilityType
    BY <1>2, <1>4, <1>5, ZenonT(40) DEF FacilityType
  <1>9. /\ facility'.drawn_amount = facility.drawn_amount
        /\ facility'.credit_limit = facility.credit_limit
        /\ facility'.available_amount = available
    BY <1>2, <1>4 DEF FacilityType, SameLimit
  <1>10. facility'.drawn_amount + facility'.available_amount
           <= facility'.credit_limit
    BY <1>2, <1>5, <1>9 DEF FacilityFits, SameLimit
  <1>11. contract' = Settled(contract, facility')
    <2> DEFINE status == IF RevolvingCompletion(contract, facility')
                         THEN "Completed" ELSE contract.status
    <2>1. contract' = [contract EXCEPT !.status = status]
      BY <1>3
    <2>2. Settled(contract, facility') =
            [contract EXCEPT !.outstanding_balance = facility'.drawn_amount,
                             !.status = status]
      BY DEF Settled
    <2>3. facility'.drawn_amount = contract.outstanding_balance
      BY <1>2, <1>9 DEF FacilityFits
    <2> HIDE DEF status
    <2> QED  BY <1>2, <2>1, <2>2, <2>3 DEF ContractType
  <1>12. totalDebt' = OtherDebt + facility'.drawn_amount
    BY <1>3, <1>9, FacilityFacts
  <1>13. SameLenders(contract, contract)  BY DEF SameLenders
  <1> QED
    BY <1>1, <1>2, <1>3, <1>6, <1>7, <1>8, <1>9, <1>10, <1>11, <1>12, <1>13,
       SettledKeeps
-----------------------------------------------------------------------------
(* Payments: no more than what is charged is taken.                        *)
LEMMA PaysKeeps ==
    ASSUME RevolvingInductive, NEW amount \in Nat, Pays(amount),
           escrow' \in [Lenders -> EscrowType], usdc' \in Nat,
           UNCHANGED <<now, isPaused, terms, contribution, approved,
                       treasuryUsdc, totalDebt>>
    PROVE  RevolvingInductive'
  <1> DEFINE f == WithStandbyFees(facility)
             interest == Lesser(amount, Charged.accrued_interest)
             fees == f.accrued_standby_fees - (amount - interest)
             accrued == Charged.accrued_interest - interest
             c == [Charged EXCEPT !.accrued_interest = accrued]
             paid == [f EXCEPT !.accrued_standby_fees = fees]
  <1>1. OnLoan  BY DEF Pays
  <1>2. /\ f \in FacilityType /\ SameLimit(facility, f)
        /\ Charged \in ContractType /\ SameLenders(contract, Charged)
        /\ FacilityFits(Charged, f)
        /\ f.accrued_standby_fees \in Nat /\ Charged.accrued_interest \in Nat
        /\ collateral \in Nat
    BY <1>1, FacilityFacts, ChargedIs
  <1>3. /\ amount <= Charged.accrued_interest + f.accrued_standby_fees
        /\ facility' = paid
        /\ IF Settled(c, paid).status = "Completed"
           THEN /\ contract' = [Settled(c, paid) EXCEPT !.collateral_amount = 0]
                /\ collateral' = IF contract.collateral_amount > 0 THEN 0
                                 ELSE collateral
           ELSE contract' = Settled(c, paid) /\ UNCHANGED collateral
    BY <1>2 DEF Pays, FacilityType, ContractType
  <1>4. interest \in Nat /\ interest <= amount
        /\ interest <= Charged.accrued_interest
    BY <1>2, LesserIs
  <1>5. accrued \in Nat /\ fees \in Nat
    BY <1>2, <1>3, <1>4 DEF Lesser
  <1>6. collateral' \in Nat  BY <1>2, <1>3
  <1> HIDE DEF interest, fees, accrued, f
  <1>7. paid \in FacilityType
    BY <1>2, <1>5, ZenonT(40) DEF FacilityType
  <1>8. c \in ContractType
    BY <1>2, <1>5, ZenonT(40) DEF ContractType
  <1>9. /\ c.status = contract.status
        /\ c.funded_amount = contract.funded_amount
        /\ c.contributions = contract.contributions
    BY <1>2 DEF ContractType, SameLenders
  <1>10. /\ paid.drawn_amount = facility.drawn_amount
         /\ paid.credit_limit = facility.credit_limit
         /\ paid.available_amount = facility.available_amount
    BY <1>2 DEF FacilityType, SameLimit
  <1>11. facility.drawn_amount + facility.available_amount
           <= facility.credit_limit
    BY <1>1, FacilityFacts DEF FacilityFits
  <1>12. totalDebt' = OtherDebt + paid.drawn_amount
    BY <1>10, FacilityFacts
  <1>13. contract.status \in {"Active", "PendingRecall"}  BY <1>1 DEF OnLoan
  <1> HIDE DEF paid, c
  <1>14. \/ contract' = Settled(c, paid)
         \/ /\ RevolvingCompletion(c, paid)
            /\ contract' = [Settled(c, paid) EXCEPT !.collateral_amount = 0]
    <2>1. Settled(c, paid).status = IF RevolvingCompletion(c, paid)
                                    THEN "Completed" ELSE c.status
      BY <1>7, <1>8, SettledIs
    <2>2. Settled(c, paid).status = "Completed" => RevolvingCompletion(c, paid)
      BY <1>9, <1>13, <2>1
    <2> QED  BY <1>3, <2>2
  <1> QED
    BY <1>1, <1>3, <1>6, <1>7, <1>8, <1>9, <1>10, <1>11, <1>12, <1>14,
       SettledKeeps

LEMMA PaymentsKeepFacility ==
    ASSUME RevolvingInductive, NEW amount \in Nat,
           \/ PayCharges(amount)
           \/ \E last \in Lenders : PayChargesWithDistribution(amount, last)
    PROVE  RevolvingInductive'
  <1>1. CASE PayCharges(amount)
    <2>1. /\ Pays(amount) /\ usdc' = usdc + amount
          /\ UNCHANGED <<now, isPaused, terms, contribution, escrow, approved,
                         treasuryUsdc, totalDebt>>
      BY <1>1 DEF PayCharges
    <2>2. usdc' \in Nat /\ escrow' \in [Lenders -> EscrowType]
      BY <2>1, FacilityFacts
    <2> QED  BY <2>1, <2>2, PaysKeeps
  <1>2. CASE \E last \in Lenders : PayChargesWithDistribution(amount, last)
    <2>1. PICK last \in Lenders : PayChargesWithDistribution(amount, last)
      BY <1>2
    <2>2. /\ Pays(amount) /\ contract.funded_amount > 0
          /\ escrow' = EscrowsWithInterest(amount, last)
          /\ UNCHANGED <<now, isPaused, terms, contribution, approved, usdc,
                         treasuryUsdc, totalDebt>>
      BY <2>1 DEF PayChargesWithDistribution
    <2>3. usdc' \in Nat /\ escrow' \in [Lenders -> EscrowType]
      BY <2>2, FacilityFacts, FacilityEscrowsType
    <2> QED  BY <2>2, <2>3, PaysKeeps
  <1> QED  BY <1>1, <1>2

(* The bot's transfer settles all interest, against no more collateral     *)
(* than there is.                                                          *)
LEMMA InterestTransferKeeps ==
    ASSUME RevolvingInductive, NEW last \in Lenders,
           FacilityInterestTransfer(last)
    PROVE  RevolvingInductive'
  <1> DEFINE f == WithStandbyFees(facility)
             c == IF facility.drawn_amount > 0 THEN Charged ELSE contract
             paidByBot == terms.interest_payment_type = "CollateralTransfer"
             withdrawn == IF paidByBot
                          THEN CollateralWithdraw(c.collateral_amount,
                                  c.accrued_interest, c.outstanding_balance)
                          ELSE 0
             fromContract == IF paidByBot THEN 0 ELSE c.accrued_interest
             pledged == c.collateral_amount - withdrawn
             d == [c EXCEPT !.accrued_interest = 0,
                            !.last_interest_update = now,
                            !.collateral_amount = pledged]
  <1>1. OnLoan  BY DEF FacilityInterestTransfer
  <1>2. /\ f \in FacilityType /\ SameLimit(facility, f)
        /\ Charged \in ContractType /\ SameLenders(contract, Charged)
        /\ contract \in ContractType
        /\ collateral \in Nat /\ usdc \in Nat /\ now \in Nat
        /\ escrow \in [Lenders -> EscrowType]
    BY <1>1, FacilityFacts, ChargedIs
  <1>3. /\ c \in ContractType
        /\ c.status = contract.status
        /\ c.funded_amount = contract.funded_amount
        /\ c.contributions = contract.contributions
        /\ c.accrued_interest \in Nat /\ c.collateral_amount \in Nat
        /\ c.outstanding_balance \in Nat
    <2>1. c \in ContractType /\ (c = contract \/ SameLenders(contract, c))
      BY <1>2
    <2> HIDE DEF c
    <2> QED  BY <2>1 DEF ContractType, SameLenders
  <1>4. /\ usdc >= fromContract
        /\ paidByBot => CollateralIsEnough(c.collateral_amount,
                            c.accrued_interest, c.outstanding_balance)
        /\ facility' = f
        /\ contract' = Settled([c EXCEPT !.accrued_interest = 0,
                                         !.last_interest_update = now,
                                         !.collateral_amount = @ - withdrawn],
                               f)
        /\ collateral' = collateral - withdrawn
        /\ usdc' = usdc - fromContract
        /\ UNCHANGED <<now, isPaused, terms, contribution, escrow, approved,
                       treasuryUsdc, totalDebt>>
    BY DEF FacilityInterestTransfer
  <1> HIDE DEF c
  <1>5. contract' = Settled(d, f)  BY <1>3, <1>4 DEF ContractType
  <1>6. /\ withdrawn \in Nat /\ withdrawn <= c.collateral_amount
        /\ withdrawn <= collateral
    <2>1. CASE paidByBot
      <3>1. CollateralIsEnough(c.collateral_amount, c.accrued_interest,
                               c.outstanding_balance)
        BY <1>4, <2>1
      <3>2. LET taken == CollateralWithdraw(c.collateral_amount,
                            c.accrued_interest, c.outstanding_balance)
            IN  /\ taken \in Nat /\ taken <= c.collateral_amount
                /\ taken <= collateral
        BY <1>2, <1>3, <3>1, WithdrawFits
      <3> QED  BY <2>1, <3>2
    <2>2. CASE ~paidByBot  BY <1>2, <1>3, <2>2
    <2> QED  BY <2>1, <2>2
  <1>7. fromContract \in Nat  BY <1>3
  <1> HIDE DEF f, paidByBot, withdrawn, fromContract
  <1>8. pledged \in Nat /\ usdc' \in Nat /\ collateral' \in Nat
        /\ escrow' \in [Lenders -> EscrowType]
    BY <1>2, <1>3, <1>4, <1>6, <1>7
  <1> HIDE DEF pledged
  <1>9. d \in ContractType
    BY <1>2, <1>3, <1>8, ZenonT(40) DEF ContractType
  <1>10. /\ d.status = contract.status
         /\ d.funded_amount = contract.funded_amount
         /\ d.contributions = contract.contributions
    BY <1>3 DEF ContractType
  <1>11. /\ facility' \in FacilityType
         /\ facility'.drawn_amount = facility.drawn_amount
         /\ facility'.available_amount = facility.available_amount
         /\ facility'.credit_limit = facility.credit_limit
    BY <1>2, <1>4 DEF SameLimit
  <1>12. facility'.drawn_amount + facility'.available_amount
           <= facility'.credit_limit
    BY <1>1, <1>11, FacilityFacts DEF FacilityFits
  <1>13. totalDebt' = OtherDebt + facility'.drawn_amount
    BY <1>4, <1>11, FacilityFacts
  <1>14. contract' = Settled(d, facility')  BY <1>4, <1>5
  <1> HIDE DEF d
  <1> QED
    BY <1>1, <1>4, <1>8, <1>9, <1>10, <1>11, <1>12, <1>13, <1>14, SettledKeeps

(* Charging alone completes nothing: interest that is due stays due, while *)
(* the limit that caps it is more than nothing.                            *)
LEMMA UpdateKeepsFacility ==
    ASSUME RevolvingInductive, UpdateFacilityState
    PROVE  RevolvingInductive'
  <1>1. /\ OnLoan /\ contract.status = "Active" /\ contract' = Charged
        /\ UNCHANGED <<now, isPaused, terms, contribution, escrow, approved,
                       usdc, collateral, treasuryUsdc, totalDebt, facility>>
    BY DEF UpdateFacilityState, OnLoan
  <1>2. /\ Charged \in ContractType /\ SameLenders(contract, Charged)
        /\ FacilityFits(Charged, facility)
        /\ contract \in ContractType /\ facility \in FacilityType /\ TypeOK
    BY <1>1, FacilityFacts, ChargedIs
  <1>3. contract.accrued_interest > 0 /\ facility.credit_limit > 0 =>
          Charged.accrued_interest > 0
    BY <1>2, DrawnInterestType DEF Charged
  <1>4. /\ contract.accrued_interest \in Nat
        /\ Charged.accrued_interest \in Nat
    BY <1>2 DEF ContractType
  <1>5. ASSUME facility.credit_limit > 0
        PROVE  ~RevolvingCompletion(Charged, facility)
    <2>1. \/ ~facility.revolving_closed \/ facility.drawn_amount # 0
          \/ contract.accrued_interest # 0 \/ facility.accrued_standby_fees # 0
      BY <1>1, <1>5 DEF RevolvingInductive, ClosedFacilityCompletes
    <2> QED  BY <1>3, <1>4, <1>5, <2>1 DEF RevolvingCompletion
  <1>6. /\ contract'.status = "Active"
        /\ IsFiniteSet(contract'.contributions)
        /\ facility' \in FacilityType /\ contract' \in ContractType
        /\ contribution' \in [Lenders -> ContributionType]
        /\ escrow' \in [Lenders -> EscrowType]
        /\ usdc' \in Nat /\ collateral' \in Nat /\ treasuryUsdc' \in Nat
        /\ totalDebt' = OtherDebt + facility'.drawn_amount
    BY <1>1, <1>2, FacilityFacts DEF SameLenders
  <1>7. facility'.credit_limit > 0 =>
          ~RevolvingCompletion(contract', facility')
    BY <1>1, <1>5
  <1>8. FacilityFits(contract', facility')  BY <1>1, <1>2
  <1> QED  BY <1>1, <1>6, <1>7, <1>8, FacilityKeeps
-----------------------------------------------------------------------------
(* Recalls.  What stays drawn fits the money of the lenders who stay: the  *)
(* leaving lender's part is rounded down, but what is rounded off is less  *)
(* than a unit, and the facility was never drawn beyond its lenders' money.*)
LEMMA RestFits ==
    ASSUME NEW part \in Nat, NEW whole \in Nat \ {0}, NEW amount \in Nat,
           part <= whole, amount <= whole
    PROVE  amount - Share(part, whole, amount) <= whole - part
  <1> DEFINE a == part * amount
             q == a \div whole
             r == a % whole
  <1>1. a \in Nat  OBVIOUS
  <1>2. q \in Nat /\ r \in 0 .. (whole - 1) /\ a = whole * q + r
    <2> HIDE DEF a
    <2> QED  BY <1>1
  <1>3. a = part * amount  OBVIOUS
  <1>4. Share(part, whole, amount) = q  BY DEF Share
  <1> HIDE DEF a, q, r
  <1>5. SUFFICES ASSUME amount - q >= whole - part + 1 PROVE FALSE
    BY <1>2, <1>4
  <1> DEFINE u == whole - amount
             v == whole - part
             n == q + 1
  <1>6. u \in Nat /\ v \in Nat /\ n \in Nat /\ u * v \in Nat
    <2>1. u \in Nat /\ v \in Nat /\ n \in Nat  BY <1>2
    <2>2. \A x, y \in Nat : x * y \in Nat  OBVIOUS
    <2> QED  BY <2>1, <2>2
  <1>7. u * v = whole * whole - whole * part - whole * amount + part * amount
    OBVIOUS
  <1>8. n <= part + amount - whole  BY <1>2, <1>5
  <1>9. whole * n <= whole * (part + amount - whole)
    <2> DEFINE k == part + amount - whole
    <2>1. k \in Nat /\ n <= k  BY <1>6, <1>8
    <2> HIDE DEF k, n
    <2>2. whole * n <= whole * k  BY <1>6, <2>1
    <2> QED  BY <2>2 DEF k
  <1>10. whole * (part + amount - whole) =
           whole * part + whole * amount - whole * whole
    OBVIOUS
  <1>11. whole * n = whole * q + whole  BY <1>2
  <1>12. /\ whole * q \in Nat /\ whole * part \in Nat /\ whole * amount \in Nat
         /\ whole * whole \in Nat
    <2>2. \A x, y \in Nat : x * y \in Nat  OBVIOUS
    <2> QED  BY <1>2, <2>2
  <1>13. whole * q + whole <=
           whole * part + whole * amount - whole * whole
    BY <1>9, <1>10, <1>11
  <1>14. a >= whole * part + whole * amount - whole * whole
    BY <1>1, <1>3, <1>6, <1>7, <1>12
  <1> QED  BY <1>1, <1>2, <1>12, <1>13, <1>14

LEMMA RequestRecallKeepsFacility ==
    ASSUME RevolvingInductive, NEW l \in Lenders, RequestFacilityRecall(l)
    PROVE  RevolvingInductive'
  <1>1. /\ OnLoan /\ RequestRecall(l)
        /\ facility' = [facility EXCEPT !.revolving_closed = TRUE,
                                        !.available_amount = 0]
    BY DEF RequestFacilityRecall, RequestRecall, OnLoan
  <1>2. /\ contract' = [contract EXCEPT !.status = "PendingRecall",
                                        !.recall_requested = TRUE,
                                        !.recall_requested_at = now,
                                        !.recall_requested_by = l]
        /\ UNCHANGED <<now, isPaused, terms, contribution, escrow, approved,
                       usdc, collateral, treasuryUsdc, totalDebt>>
    BY <1>1 DEF RequestRecall
  <1>3. /\ contract \in ContractType /\ facility \in FacilityType
        /\ now \in Nat /\ FacilityFits(contract, facility)
    BY <1>1, FacilityFacts
  <1>4. /\ "PendingRecall" \in Statuses /\ TRUE \in BOOLEAN /\ 0 \in Nat
        /\ l \in Lenders \union {Nobody}
    BY DEF Statuses
  <1>5. contract' \in ContractType
    BY <1>2, <1>3, <1>4, ZenonT(60) DEF ContractType
  <1>6. facility' \in FacilityType
    BY <1>1, <1>3, <1>4, ZenonT(40) DEF FacilityType
  <1>7. /\ contract'.status = "PendingRecall"
        /\ contract'.outstanding_balance = contract.outstanding_balance
        /\ contract'.funded_amount = contract.funded_amount
        /\ contract'.contributions = contract.contributions
    BY <1>2, <1>3 DEF ContractType
  <1>8. /\ facility'.drawn_amount = facility.drawn_amount
        /\ facility'.credit_limit = facility.credit_limit
        /\ facility'.available_amount = 0
    BY <1>1, <1>3 DEF FacilityType
  <1>9. /\ facility.drawn_amount \in Nat /\ facility.credit_limit \in Nat
        /\ facility.available_amount \in Nat
    BY <1>3 DEF FacilityType
  <1>10. FacilityFits(contract', facility')
    BY <1>3, <1>7, <1>8, <1>9 DEF FacilityFits
  <1>11. /\ contribution' \in [Lenders -> ContributionType]
         /\ escrow' \in [Lenders -> EscrowType]
         /\ usdc' \in Nat /\ collateral' \in Nat /\ treasuryUsdc' \in Nat
         /\ totalDebt' = OtherDebt + facility'.drawn_amount
         /\ IsFiniteSet(contract'.contributions)
    BY <1>2, <1>7, <1>8, FacilityFacts
  <1> QED  BY <1>2, <1>5, <1>6, <1>7, <1>10, <1>11, FacilityKeeps

(* The lender's stake is in the facility, and its escrow is there.         *)
LEMMA RecallerFits ==
    ASSUME RevolvingInductive, NEW l \in Lenders, MaySettleRecall(l)
    PROVE  /\ OnLoan /\ StakeFits(l) /\ l \in contract.contributions
           /\ contract.status = "PendingRecall"
           /\ contribution[l] \in ContributionType /\ escrow[l] \in EscrowType
           /\ RecallPart(l, contract.collateral_amount) <= collateral
  <1>1. /\ contract.status = "PendingRecall"
        /\ contribution[l].contribution_amount > 0
        /\ contract.funded_amount >= contribution[l].contribution_amount
        /\ collateral >= RecallPart(l, contract.collateral_amount)
        /\ l \in contract.contributions
    BY DEF MaySettleRecall
  <1>2. /\ contribution[l] \in ContributionType /\ escrow[l] \in EscrowType
        /\ contract.funded_amount \in Nat
        /\ contract.collateral_amount \in Nat /\ collateral \in Nat
    BY FacilityFacts DEF ContractType
  <1>3. contribution[l].contribution_amount \in Nat
    BY <1>2 DEF ContributionType
  <1>4. StakeFits(l)  BY <1>1, <1>2, <1>3 DEF StakeFits
  <1>5. RecallPart(l, contract.collateral_amount) \in Nat
    BY <1>2, <1>4, PartOfStakeFits
  <1> QED  BY <1>1, <1>2, <1>4, <1>5 DEF OnLoan
LEMMA SettleRecallKeepsFacility ==
    ASSUME RevolvingInductive, NEW l \in Lenders, SettleFacilityRecall(l),
           treasuryUsdc' \in Nat
    PROVE  RevolvingInductive'
  <1> DEFINE c == WithoutLender(l)
             debt == contract.outstanding_balance
             part == RecallPart(l, debt)
             stake == contribution[l].contribution_amount
             drawn == c.outstanding_balance
             limit == c.funded_amount
             available == IF facility.revolving_closed THEN 0
                          ELSE MinusSaturating(limit, drawn)
             left == [facility EXCEPT !.drawn_amount = drawn,
                                      !.credit_limit = limit,
                                      !.available_amount = available]
             completed == RevolvingCompletion(c, left) \/ c.contributions = {}
             status == IF completed THEN "Completed" ELSE "Active"
  <1>1. /\ MaySettleRecall(l)
        /\ PoolRepay(l) >= 0 /\ usdc >= PoolRepay(l)
        /\ facility' = left
        /\ contract' = [c EXCEPT !.status = status]
        /\ contribution' = [contribution EXCEPT ![l].is_refunded = TRUE]
        /\ escrow' = [escrow EXCEPT ![l] = Credited(@, 0, stake)]
        /\ usdc' = usdc - PoolRepay(l)
        /\ collateral' = collateral - RecallPart(l, contract.collateral_amount)
        /\ totalDebt' = totalDebt - part
        /\ UNCHANGED <<now, isPaused, terms, approved>>
    BY DEF SettleFacilityRecall
  <1>2. /\ OnLoan /\ StakeFits(l) /\ l \in contract.contributions
        /\ contribution[l] \in ContributionType /\ escrow[l] \in EscrowType
        /\ RecallPart(l, contract.collateral_amount) <= collateral
    BY <1>1, RecallerFits
  <1>3. /\ contract \in ContractType /\ facility \in FacilityType
        /\ FacilityFits(contract, facility)
        /\ IsFiniteSet(contract.contributions)
        /\ usdc \in Nat /\ collateral \in Nat
        /\ contribution \in [Lenders -> ContributionType]
        /\ escrow \in [Lenders -> EscrowType]
        /\ totalDebt = OtherDebt + debt /\ OtherDebt \in Nat
    BY <1>2, FacilityFacts DEF FacilityFits
  <1>4. /\ debt \in Nat /\ contract.collateral_amount \in Nat
        /\ stake \in Nat /\ contract.funded_amount \in Nat \ {0}
        /\ stake <= contract.funded_amount
    BY <1>2, <1>3 DEF ContractType, StakeFits
  <1>5. /\ part \in Nat /\ part <= debt
        /\ RecallPart(l, contract.collateral_amount) \in Nat
    BY <1>2, <1>4, PartOfStakeFits
  <1>6. /\ c \in ContractType /\ drawn = debt - part
        /\ limit = contract.funded_amount - stake
        /\ c.contributions = contract.contributions \ {l}
    BY <1>2, <1>3, WithoutStakeIs
  <1>7. drawn \in Nat /\ limit \in Nat
    BY <1>4, <1>5, <1>6
  <1>8. drawn <= limit
    <2>1. debt <= contract.funded_amount
      <3>1. /\ facility.drawn_amount \in Nat /\ facility.credit_limit \in Nat
            /\ facility.available_amount \in Nat
        BY <1>3 DEF FacilityType
      <3> QED  BY <1>3, <1>4, <3>1 DEF FacilityFits
    <2>2. debt - Share(stake, contract.funded_amount, debt)
            <= contract.funded_amount - stake
      BY <1>4, <2>1, RestFits
    <2> QED  BY <1>6, <2>2 DEF RecallPart
  <1>9. available \in Nat /\ drawn + available <= limit
    BY <1>7, <1>8 DEF MinusSaturating
  <1>10. /\ usdc' \in Nat /\ collateral' \in Nat
    <2>1. PoolRepay(l) \in Int  BY <1>4, <1>5 DEF PoolRepay
    <2> QED  BY <1>1, <1>2, <1>3, <1>5, <2>1
  <1>11. contribution' \in [Lenders -> ContributionType]
    <2>1. [contribution[l] EXCEPT !.is_refunded = TRUE] \in ContributionType
      BY <1>2 DEF ContributionType
    <2> QED  BY <1>1, <1>3, <2>1
  <1>12. escrow' \in [Lenders -> EscrowType]
    <2>1. Credited(escrow[l], 0, stake) \in EscrowType
      BY <1>2, <1>4, CreditedEscrowType
    <2> QED  BY <1>1, <1>3, <2>1
  <1>13. totalDebt' = OtherDebt + drawn
    BY <1>1, <1>3, <1>4, <1>5, <1>6
  <1>14. status \in Statuses  BY DEF Statuses
  <1>15. IsFiniteSet(c.contributions)  BY <1>3, <1>6, FS_RemoveElement
  <1>16. completed <=> RevolvingCompletion(c, left) \/ c.contributions = {}
    OBVIOUS
  <1>17. status = IF completed THEN "Completed" ELSE "Active"  OBVIOUS
  <1> HIDE DEF c, drawn, limit, available, completed, status, part
  <1>18. left \in FacilityType
    BY <1>3, <1>7, <1>9, ZenonT(40) DEF FacilityType
  <1>19. /\ left.drawn_amount = drawn /\ left.credit_limit = limit
         /\ left.available_amount = available
    BY <1>3 DEF FacilityType
  <1>20. contract' \in ContractType
    BY <1>1, <1>6, <1>14, ZenonT(40) DEF ContractType
  <1>21. /\ contract'.status = status
         /\ contract'.outstanding_balance = c.outstanding_balance
         /\ contract'.accrued_interest = c.accrued_interest
         /\ contract'.funded_amount = c.funded_amount
         /\ contract'.contributions = c.contributions
    BY <1>1, <1>6 DEF ContractType
  <1> HIDE DEF left
  <1>22. FacilityFits(contract', facility')
    <2>1. drawn = c.outstanding_balance /\ limit = c.funded_amount
      BY DEF drawn, limit
    <2>2. limit <= limit  BY <1>7
    <2> QED  BY <1>1, <1>9, <1>19, <1>21, <2>1, <2>2 DEF FacilityFits
  <1>23. RevolvingCompletion(contract', facility') <=>
           RevolvingCompletion(c, left)
    BY <1>1, <1>21 DEF RevolvingCompletion
  <1>24. /\ contract'.status = "Active" =>
               ~RevolvingCompletion(contract', facility')
         /\ contract'.status = "Completed" /\ contract'.contributions # {} =>
               RevolvingCompletion(contract', facility')
    BY <1>16, <1>17, <1>21, <1>23
  <1>25. /\ totalDebt' = OtherDebt + facility'.drawn_amount
         /\ IsFiniteSet(contract'.contributions)
         /\ facility' \in FacilityType
    BY <1>1, <1>13, <1>15, <1>18, <1>19, <1>21
  <1> QED
    BY <1>1, <1>10, <1>11, <1>12, <1>20, <1>22, <1>24, <1>25, FacilityKeeps

LEMMA RecallsKeepFacility ==
    ASSUME RevolvingInductive, NEW l \in Lenders,
           \/ BorrowerRepayFacilityRecall(l)
           \/ \E paid \in BOOLEAN : ProcessFacilityRecall(l, paid)
    PROVE  RevolvingInductive'
  <1>1. CASE BorrowerRepayFacilityRecall(l)
    BY <1>1, SettleRecallKeepsFacility, FacilityFacts
       DEF BorrowerRepayFacilityRecall
  <1>2. CASE \E paid \in BOOLEAN : ProcessFacilityRecall(l, paid)
    <2>1. PICK paid \in BOOLEAN : ProcessFacilityRecall(l, paid)  BY <1>2
    <2> DEFINE debtShare == RecallPart(l, contract.outstanding_balance)
               fee == BpsOf(debtShare, RecallFeeBps)
               frontendShare == IF terms.frontend /\ paid
                                THEN BpsOf(fee, FrontendShareBps) ELSE 0
    <2>2. /\ SettleFacilityRecall(l)
          /\ treasuryUsdc' = treasuryUsdc + fee - frontendShare
      BY <2>1 DEF ProcessFacilityRecall
    <2>3. StakeFits(l) /\ contract.outstanding_balance \in Nat
      BY <2>2, RecallerFits, FacilityFacts
         DEF SettleFacilityRecall, ContractType
    <2>4. debtShare \in Nat  BY <2>3, PartOfStakeFits
    <2> HIDE DEF debtShare
    <2>5. fee \in Nat
      BY <2>4, BpsIsNat, ServicingConstantsAreNumbers, ConstantsAreNumbers
    <2> HIDE DEF fee
    <2>6. BpsOf(fee, FrontendShareBps) \in Nat
          /\ BpsOf(fee, FrontendShareBps) <= fee
      BY <2>5, BpsIsNat, ConstantsAreNumbers
    <2>7. frontendShare \in Nat /\ frontendShare <= fee  BY <2>5, <2>6
    <2>8. treasuryUsdc' \in Nat  BY <2>2, <2>5, <2>7, FacilityFacts
    <2> QED  BY <2>2, <2>8, SettleRecallKeepsFacility
  <1> QED  BY <1>1, <1>2
-----------------------------------------------------------------------------
(* Liquidations.                                                           *)
LEMMA LiquidateKeepsFacility ==
    ASSUME RevolvingInductive, NEW price \in Prices, NEW last \in Lenders,
           LiquidateFacility(price, last)
    PROVE  RevolvingInductive'
  <1> DEFINE value == collateral * price
             g == [facility EXCEPT !.revolving_closed = @ \/ TimeTriggered]
             f == WithStandbyFees(g)
             debt == FacilityDebt(Charged, f)
             botPays == Lesser(debt, value)
             lost == debt - botPays
             distributed == botPays + Lesser(f.available_amount, usdc)
  <1>1. /\ OnLoan /\ (f.revolving_closed \/ LimitCoversDrawn)
        /\ contract.funded_amount > 0
        /\ usdc + botPays >= SharesOf(distributed, last)
        /\ contract.outstanding_balance = f.drawn_amount
        /\ escrow' = EscrowsWith(distributed, last)
        /\ usdc' = usdc + botPays - SharesOf(distributed, last)
        /\ facility' = [f EXCEPT !.revolving_closed = TRUE,
                                 !.credit_limit = 0,
                                 !.drawn_amount = 0,
                                 !.accrued_standby_fees = 0,
                                 !.available_amount = 0]
        /\ contract' = [Charged EXCEPT
                          !.status = "Liquidated",
                          !.uncollectable_balance = lost,
                          !.outstanding_balance = 0,
                          !.collateral_amount = 0,
                          !.accrued_interest = 0]
        /\ collateral' = 0
        /\ totalDebt' = MinusSaturating(totalDebt, contract.outstanding_balance)
        /\ UNCHANGED <<now, isPaused, terms, contribution, approved,
                       treasuryUsdc>>
    BY DEF LiquidateFacility
  <1>2. /\ TypeOK /\ facility \in FacilityType
        /\ FacilityFits(contract, facility)
        /\ Charged \in ContractType /\ SameLenders(contract, Charged)
        /\ Charged.accrued_interest \in Nat
        /\ usdc \in Nat /\ collateral \in Nat /\ price \in Nat
        /\ OtherDebt \in Nat
        /\ totalDebt = OtherDebt + contract.outstanding_balance
        /\ contract.outstanding_balance \in Nat
    BY <1>1, FacilityFacts, ChargedIs, ServicingConstantsAreNumbers
       DEF FacilityFits, ContractType
  <1>3. /\ g \in FacilityType /\ g.drawn_amount = facility.drawn_amount
        /\ g.credit_limit = facility.credit_limit
    <2>1. (facility.revolving_closed \/ TimeTriggered) \in BOOLEAN
      BY <1>2 DEF FacilityType
    <2> DEFINE closed == facility.revolving_closed \/ TimeTriggered
    <2>2. g = [facility EXCEPT !.revolving_closed = closed]  BY <1>2
    <2>3. closed \in BOOLEAN  BY <2>1
    <2> HIDE DEF closed, g
    <2>4. g \in FacilityType  BY <1>2, <2>2, <2>3, ZenonT(40) DEF FacilityType
    <2> QED  BY <1>2, <2>2, <2>4 DEF FacilityType
  <1> HIDE DEF g
  <1>4. g.drawn_amount <= g.credit_limit
    BY <1>2, <1>3 DEF FacilityFits, FacilityType
  <1>5. f \in FacilityType  BY <1>2, <1>3, <1>4, StandbyFeesType
  <1>6. /\ f.drawn_amount \in Nat /\ f.accrued_standby_fees \in Nat
        /\ f.available_amount \in Nat
    BY <1>5 DEF FacilityType
  <1>7. debt \in Nat  BY <1>2, <1>6 DEF FacilityDebt
  <1>8. value \in Nat  BY <1>2
  <1> HIDE DEF value, debt
  <1>9. botPays \in Nat /\ botPays <= debt  BY <1>7, <1>8, LesserIs
  <1>10. Lesser(f.available_amount, usdc) \in Nat  BY <1>2, <1>6, LesserIs
  <1>11. distributed \in Nat  BY <1>9, <1>10
  <1> HIDE DEF botPays, f, distributed
  <1>12. lost \in Nat  BY <1>7, <1>9
  <1> HIDE DEF lost
  <1>13. escrow' \in [Lenders -> EscrowType] /\ SharesOf(distributed, last) \in Nat
    BY <1>1, <1>11, FacilityEscrowsType, FacilitySharesType
  <1>14. usdc' \in Nat /\ collateral' \in Nat
    BY <1>1, <1>2, <1>9, <1>13
  <1>15. "Liquidated" \in Statuses /\ 0 \in Nat  BY DEF Statuses
  <1>16. contract' \in ContractType
    BY <1>1, <1>2, <1>12, <1>15, ZenonT(60) DEF ContractType
  <1>17. facility' \in FacilityType
    BY <1>1, <1>5, <1>15, ZenonT(40) DEF FacilityType
  <1>18. facility'.drawn_amount = 0  BY <1>1, <1>5 DEF FacilityType
  <1>19. /\ contract'.status = "Liquidated"
         /\ contract'.contributions = contract.contributions
    BY <1>1, <1>2 DEF ContractType, SameLenders
  <1>20. totalDebt' = OtherDebt + facility'.drawn_amount
    BY <1>1, <1>2, <1>18 DEF MinusSaturating
  <1>21. /\ contribution' \in [Lenders -> ContributionType]
         /\ treasuryUsdc' \in Nat
         /\ IsFiniteSet(contract'.contributions)
    BY <1>1, <1>19, FacilityFacts
  <1> QED
    BY <1>1, <1>13, <1>14, <1>16, <1>17, <1>19, <1>20, <1>21, FacilityKeeps

(* A partial liquidation lowers limit and drawn amount alike.              *)
LEMMA PartialKeepsFacility ==
    ASSUME RevolvingInductive, NEW amount \in Nat, NEW price \in Prices,
           NEW last \in Lenders, NEW toBorrower \in BOOLEAN,
           PartiallyLiquidateFacility(amount, price, last, toBorrower)
    PROVE  RevolvingInductive'
  <1> DEFINE f == WithStandbyFees(facility)
             debt == FacilityDebt(Charged, f)
             pledged == Lesser(collateral, contract.collateral_amount)
             value == pledged * price
             cap == Lesser(BpsOf(debt, PartialCapBps),
                           contract.outstanding_balance)
             repaid == Lesser(amount, cap)
             seized == CollateralToSeize(repaid, pledged, value)
             limit == MinusSaturating(f.credit_limit, repaid)
             drawn == f.drawn_amount - repaid
             room == MinusSaturating(limit, drawn)
             left == [f EXCEPT !.credit_limit = limit,
                               !.drawn_amount = drawn,
                               !.available_amount = room]
             completed == RevolvingCompletion(Charged, left)
             paid == Charged.total_principal_paid + repaid
             rest == Charged.collateral_amount - seized
             kept == IF completed THEN 0 ELSE rest
             available == IF completed THEN 0 ELSE room
             status == IF completed THEN "Completed" ELSE Charged.status
             c == [Charged EXCEPT !.outstanding_balance = drawn,
                                  !.total_principal_paid = @ + repaid,
                                  !.collateral_amount = @ - seized]
  <1>1. /\ OnLoan /\ repaid > 0 /\ value > 0
        /\ contract.funded_amount > 0
        /\ usdc + repaid >= SharesOf(repaid, last)
        /\ escrow' = EscrowsWith(repaid, last)
        /\ usdc' = usdc + repaid - SharesOf(repaid, last)
        /\ facility' = [left EXCEPT !.available_amount =
                                        IF completed THEN 0 ELSE @]
        /\ contract' = [c EXCEPT
                          !.status = IF completed THEN "Completed" ELSE @,
                          !.collateral_amount = IF completed THEN 0 ELSE @]
        /\ collateral' = IF completed /\ toBorrower THEN 0
                         ELSE collateral - seized
        /\ totalDebt' = totalDebt - repaid
        /\ UNCHANGED <<now, isPaused, terms, contribution, approved,
                       treasuryUsdc>>
    BY DEF PartiallyLiquidateFacility
  <1>2. /\ f \in FacilityType /\ SameLimit(facility, f)
        /\ Charged \in ContractType /\ SameLenders(contract, Charged)
        /\ FacilityFits(Charged, f)
        /\ Charged.accrued_interest \in Nat
        /\ Charged.total_principal_paid \in Nat
        /\ Charged.collateral_amount \in Nat
        /\ Charged.collateral_amount = contract.collateral_amount
        /\ contract.outstanding_balance = f.drawn_amount
        /\ f.accrued_standby_fees \in Nat /\ f.drawn_amount \in Nat
        /\ f.credit_limit \in Nat /\ f.available_amount \in Nat
        /\ usdc \in Nat /\ collateral \in Nat /\ price \in Nat
        /\ PartialCapBps \in Nat /\ OtherDebt \in Nat
        /\ totalDebt = OtherDebt + f.drawn_amount
    <2>1. FacilityFits(contract, facility)  BY <1>1, FacilityFacts
    <2> QED
      BY <1>1, <2>1, FacilityFacts, ChargedIs, ServicingConstantsAreNumbers
         DEF FacilityFits, FacilityType, SameLimit, SameLenders
  <1>3. /\ facility' = [left EXCEPT !.available_amount = available]
        /\ contract' = [Charged EXCEPT !.status = status,
                                       !.outstanding_balance = drawn,
                                       !.total_principal_paid = paid,
                                       !.collateral_amount = kept]
    <2>1. facility' = [left EXCEPT !.available_amount = available]
      BY <1>1, <1>2 DEF FacilityType
    <2>2. DOMAIN Charged = DOMAIN c /\ c.status = Charged.status
          /\ c.collateral_amount = rest
      BY <1>2 DEF ContractType
    <2>3. contract' = [c EXCEPT !.status = status, !.collateral_amount = kept]
      BY <1>1, <2>2
    <2> HIDE DEF status, kept, drawn
    <2>4. contract' = [Charged EXCEPT !.status = status,
                                      !.outstanding_balance = drawn,
                                      !.total_principal_paid = paid,
                                      !.collateral_amount = kept]
      BY <1>2, <2>3 DEF ContractType
    <2> QED  BY <2>1, <2>4
  <1> HIDE DEF c
  <1>4. debt \in Nat  BY <1>2 DEF FacilityDebt
  <1> HIDE DEF debt
  <1>5. BpsOf(debt, PartialCapBps) \in Nat  BY <1>2, <1>4, BpsIsNat
  <1>6. cap \in Nat /\ cap <= f.drawn_amount  BY <1>2, <1>5, LesserIs
  <1> HIDE DEF cap
  <1>7. repaid \in Nat /\ repaid <= f.drawn_amount
    <2>1. repaid \in Nat /\ repaid <= cap  BY <1>6, LesserIs
    <2> HIDE DEF repaid, f
    <2> QED  BY <1>2, <1>6, <2>1
  <1>8. /\ pledged \in Nat /\ pledged <= collateral
        /\ pledged <= Charged.collateral_amount
    BY <1>2, LesserIs
  <1> HIDE DEF pledged
  <1>9. value \in Nat \ {0}  BY <1>1, <1>2, <1>8
  <1> HIDE DEF repaid, value
  <1>10. seized \in Nat /\ seized <= pledged  BY <1>7, <1>8, <1>9, SeizedFits
  <1> HIDE DEF seized
  <1>11. /\ rest \in Nat /\ paid \in Nat /\ collateral - seized \in Nat
    BY <1>2, <1>7, <1>8, <1>10
  <1>12. /\ limit \in Nat /\ drawn \in Nat /\ limit = f.credit_limit - repaid
         /\ drawn <= limit
    BY <1>2, <1>7 DEF FacilityFits, MinusSaturating
  <1> HIDE DEF rest, paid, limit
  <1>13. drawn = f.drawn_amount - repaid  OBVIOUS
  <1> HIDE DEF drawn
  <1>14. room \in Nat /\ drawn + room <= limit
    BY <1>12 DEF MinusSaturating
  <1> HIDE DEF room, f
  <1>15. left \in FacilityType
    BY <1>2, <1>12, <1>14, ZenonT(40) DEF FacilityType
  <1>16. /\ left.credit_limit = limit /\ left.drawn_amount = drawn
         /\ left.available_amount = room
    BY <1>2 DEF FacilityType
  <1>17. /\ kept \in Nat /\ available \in Nat /\ drawn + available <= limit
         /\ status \in Statuses
    <2>1. Charged.status \in Statuses  BY <1>2 DEF ContractType
    <2> HIDE DEF completed
    <2> QED  BY <1>11, <1>12, <1>14, <2>1 DEF Statuses
  <1>18. completed <=> RevolvingCompletion(Charged, left)  OBVIOUS
  <1>19. status = IF completed THEN "Completed" ELSE contract.status
    BY <1>2 DEF SameLenders
  <1> HIDE DEF left, kept, available, status, completed
  <1>20. facility' \in FacilityType
    BY <1>3, <1>15, <1>17, ZenonT(40) DEF FacilityType
  <1>21. /\ facility'.credit_limit = limit /\ facility'.drawn_amount = drawn
         /\ facility'.available_amount = available
         /\ facility'.accrued_standby_fees = left.accrued_standby_fees
    BY <1>3, <1>15, <1>16 DEF FacilityType
  <1>21a. facility'.revolving_closed = left.revolving_closed
    BY <1>3, <1>15 DEF FacilityType
  <1>22. contract' \in ContractType
    BY <1>2, <1>3, <1>11, <1>12, <1>17, ZenonT(60) DEF ContractType
  <1>23. /\ contract'.status = status
         /\ contract'.outstanding_balance = drawn
         /\ contract'.accrued_interest = Charged.accrued_interest
         /\ contract'.funded_amount = Charged.funded_amount
         /\ contract'.contributions = contract.contributions
    BY <1>2, <1>3 DEF ContractType, SameLenders
  <1>24. FacilityFits(contract', facility')
    <2>1. Charged.funded_amount \in Nat /\ f.credit_limit <= Charged.funded_amount
      BY <1>2 DEF FacilityFits, ContractType
    <2>2. limit <= Charged.funded_amount  BY <1>2, <1>7, <1>12, <2>1
    <2> QED  BY <1>17, <1>21, <1>23, <2>2 DEF FacilityFits
  <1>25. RevolvingCompletion(contract', facility') <=> completed
    BY <1>16, <1>18, <1>21, <1>21a, <1>23 DEF RevolvingCompletion
  <1>26. /\ contract'.status = "Active" =>
               ~RevolvingCompletion(contract', facility')
         /\ contract'.status = "Completed" =>
               RevolvingCompletion(contract', facility')
    BY <1>1, <1>19, <1>23, <1>25 DEF OnLoan
  <1>27. escrow' \in [Lenders -> EscrowType] /\ SharesOf(repaid, last) \in Nat
    BY <1>1, <1>7, FacilityEscrowsType, FacilitySharesType
  <1>28. usdc' \in Nat /\ collateral' \in Nat
    BY <1>1, <1>2, <1>7, <1>11, <1>27
  <1>29. totalDebt' = OtherDebt + facility'.drawn_amount
    BY <1>1, <1>2, <1>7, <1>13, <1>21
  <1>30. /\ contribution' \in [Lenders -> ContributionType]
         /\ treasuryUsdc' \in Nat
         /\ IsFiniteSet(contract'.contributions)
    BY <1>1, <1>23, FacilityFacts
  <1> QED
    BY <1>1, <1>20, <1>22, <1>24, <1>26, <1>27, <1>28, <1>29, <1>30,
       FacilityKeeps
-----------------------------------------------------------------------------
LEMMA RevolvingInitIs == RevolvingInit => RevolvingInductive
  <1> SUFFICES ASSUME RevolvingInit PROVE RevolvingInductive
    OBVIOUS
  <1>1. PICK stake \in [Lenders -> Amounts \union {0}] :
          /\ StakesAre(stake)
          /\ contract = [FundedContract(stake) EXCEPT
                           !.outstanding_balance = 0,
                           !.last_interest_update = 0,
                           !.last_principal_payment = 0]
    BY DEF RevolvingInit
  <1>2. stake \in [Lenders -> Nat]  BY <1>1, ConstantsAreNumbers
  <1>3. /\ now = 1 /\ isPaused = FALSE /\ terms \in Offers /\ approved = {}
        /\ collateral = terms.collateral_amount /\ treasuryUsdc = 0
        /\ usdc = terms.target_amount /\ totalDebt = OtherDebt
        /\ facility = [credit_limit |-> terms.target_amount,
                       drawn_amount |-> 0,
                       available_amount |-> terms.target_amount,
                       accrued_standby_fees |-> 0,
                       last_standby_fee_update |-> now,
                       revolving_closed |-> FALSE]
    BY DEF RevolvingInit
  <1>4. now \in Nat /\ terms.target_amount \in Nat
        /\ terms.collateral_amount \in Nat /\ OtherDebt \in Nat
    BY <1>3, OffersAreValid, ConstantsAreNumbers DEF ValidOffer
  <1>5. /\ FundedContract(stake) \in ContractType
        /\ FundedContract(stake).status = "Active"
        /\ FundedContract(stake).funded_amount = terms.target_amount
        /\ FundedContract(stake).contributions = Funders(stake)
    BY <1>3, <1>4, FundedContractIs
  <1>6. contract \in ContractType
    BY <1>1, <1>5, ZenonT(40) DEF ContractType
  <1>7. /\ contract.status = "Active"
        /\ contract.funded_amount = terms.target_amount
        /\ contract.contributions = Funders(stake)
        /\ contract.outstanding_balance = 0
    BY <1>1, <1>5 DEF ContractType
  <1>8. IsFiniteSet(contract.contributions)
    BY <1>7, LendersAreFinite, FS_Subset DEF Funders
  <1>9. /\ contribution \in [Lenders -> ContributionType]
        /\ escrow \in [Lenders -> EscrowType]
    BY <1>1, <1>2, <1>4, StakesAreIs
  <1>10. TypeOK  BY <1>3, <1>4, <1>6, <1>9 DEF TypeOK
  <1>11. facility \in FacilityType  BY <1>3, <1>4 DEF FacilityType
  <1>12. FacilityAddsUp  BY <1>3, <1>4, <1>7 DEF FacilityAddsUp
  <1>13. TotalDebtIsDrawn  BY <1>3, <1>4 DEF TotalDebtIsDrawn
  <1>14. ClosedFacilityCompletes  BY <1>3, <1>7 DEF ClosedFacilityCompletes
  <1> QED
    BY <1>8, <1>10, <1>11, <1>12, <1>13, <1>14 DEF RevolvingInductive

LEMMA RevolvingNextInductive ==
    RevolvingInductive /\ [RevolvingNext]_revolvingVars => RevolvingInductive'
  <1> SUFFICES ASSUME RevolvingInductive, [RevolvingNext]_revolvingVars
               PROVE  RevolvingInductive'
    OBVIOUS
  <1>1. CASE BorrowerUsesFacility
    <2>1. CASE \E amount \in Amounts, price \in Prices :
                  DrawFromRevolving(amount, price)
      BY <2>1, DrawKeeps, ConstantsAreNumbers
    <2>2. CASE \E amount \in Amounts : RepayRevolving(amount)
      BY <2>2, RepayKeeps, ConstantsAreNumbers
    <2>3. CASE \E amount \in Payments :
                  \/ PayCharges(amount)
                  \/ \E last \in Lenders :
                        PayChargesWithDistribution(amount, last)
      BY <2>3, PaymentsKeepFacility, ServicingConstantsAreNumbers
    <2>4. CASE CloseRevolvingFacility
      BY <2>4, CloseFacilityKeeps, TerminationFeeType
         DEF CloseRevolvingFacility
    <2>5. CASE SweepContractPool  BY <2>5, SweepKeeps
    <2>6. CASE \E l \in Lenders : BorrowerRepayFacilityRecall(l)
      BY <2>6, RecallsKeepFacility
    <2> QED
      BY <1>1, <2>1, <2>2, <2>3, <2>4, <2>5, <2>6 DEF BorrowerUsesFacility
  <1>2. CASE LendersUseFacility
    BY <1>2, RequestRecallKeepsFacility DEF LendersUseFacility
  <1>3. CASE BotKeepsFacility
    <2>1. CASE UpdateFacilityState  BY <2>1, UpdateKeepsFacility
    <2>2. CASE BotCloseMaturedRevolving
      BY <2>2, CloseFacilityKeeps DEF BotCloseMaturedRevolving
    <2>3. CASE \E last \in Lenders : \/ DistributeStandbyFees(last)
                                     \/ FacilityInterestTransfer(last)
      BY <2>3, DistributeFeesKeeps, InterestTransferKeeps
    <2>4. CASE \E l \in Lenders, paid \in BOOLEAN :
                  ProcessFacilityRecall(l, paid)
      BY <2>4, RecallsKeepFacility
    <2>5. CASE \E price \in Prices, last \in Lenders :
                  LiquidateFacility(price, last)
      BY <2>5, LiquidateKeepsFacility
    <2>6. CASE \E amount \in Payments, price \in Prices, last \in Lenders,
                 toBorrower \in BOOLEAN :
                  PartiallyLiquidateFacility(amount, price, last, toBorrower)
      BY <2>6, PartialKeepsFacility, ServicingConstantsAreNumbers
    <2> QED
      BY <1>3, <2>1, <2>2, <2>3, <2>4, <2>5, <2>6 DEF BotKeepsFacility
  <1>4. CASE TimePasses
    BY <1>4 DEF TimePasses, Tick, RevolvingInductive, TypeOK, FacilityAddsUp,
                TotalDebtIsDrawn, ClosedFacilityCompletes, OnLoan
  <1>5. CASE UNCHANGED revolvingVars
    BY <1>5 DEF revolvingVars, vars, RevolvingInductive, TypeOK,
                FacilityAddsUp, TotalDebtIsDrawn, ClosedFacilityCompletes,
                OnLoan
  <1> QED  BY <1>1, <1>2, <1>3, <1>4, <1>5 DEF RevolvingNext

(* A facility's accounts stay well formed, none of them is overdrawn, and  *)
(* the three invariants below hold together.                               *)
THEOREM RevolvingInvariant == RevolvingSpec => []RevolvingInductive
  <1>1. RevolvingInit => RevolvingInductive  BY RevolvingInitIs
  <1>2. RevolvingInductive /\ [RevolvingNext]_revolvingVars
          => RevolvingInductive'
    BY RevolvingNextInductive
  <1> QED  BY <1>1, <1>2, PTL DEF RevolvingSpec

(* FacilityAddsUp: what is drawn and what may be drawn fit the limit, and  *)
(* the limit the money of the lenders who are still in the facility,       *)
(* through recalls and partial liquidations.                               *)
THEOREM FacilitiesAddUp == RevolvingSpec => []FacilityAddsUp
  BY RevolvingInvariant, PTL DEF RevolvingInductive

(* TotalDebtIsDrawn: a facility's part of State.total_debt is what is drawn*)
(* of it, to the last unit and after its end.                              *)
THEOREM TotalDebtIsAlwaysDrawn == RevolvingSpec => []TotalDebtIsDrawn
  BY RevolvingInvariant, PTL DEF RevolvingInductive

(* ClosedFacilityCompletes: whichever of the instructions pays the last of *)
(* a closed facility completes it, and it is completed no sooner.          *)
THEOREM ClosedFacilitiesComplete == RevolvingSpec => []ClosedFacilityCompletes
  BY RevolvingInvariant, PTL DEF RevolvingInductive
-----------------------------------------------------------------------------
(* What was due before a step is what is charged after it.                 *)
ChargesStand ==
    (/\ facility'.drawn_amount # facility.drawn_amount
     /\ contract'.contributions = contract.contributions
     /\ contract'.status # "Liquidated") => ChargesDue' = ChargesDue

LEMMA ChargedOnce ==
    ASSUME now' = now, now \in Nat,
           contract'.accrued_interest = Charged.accrued_interest,
           contract'.last_interest_update = 0
              \/ contract'.last_interest_update >= now,
           facility'.accrued_standby_fees =
              WithStandbyFees(facility).accrued_standby_fees,
           facility'.revolving_closed
              \/ facility'.last_standby_fee_update >= now
    PROVE  ChargesDue' = ChargesDue
  <1>1. Charged' = contract'  BY DEF Charged, WithDrawnInterest
  <1>2. WithStandbyFees(facility)' = facility'  BY DEF WithStandbyFees
  <1> QED  BY <1>1, <1>2 DEF ChargesDue

LEMMA DrawChargesFirst ==
    ASSUME RevolvingInductive, NEW amount \in Nat, NEW price,
           DrawFromRevolving(amount, price)
    PROVE  ChargesDue' = ChargesDue
  <1> DEFINE f == WithStandbyFees(facility)
  <1>1. /\ contract.status = "Active" /\ OnLoan /\ now' = now
        /\ facility' = [f EXCEPT !.drawn_amount = @ + amount,
                                 !.available_amount = @ - amount]
        /\ \E balance :
              contract' = [Charged EXCEPT !.outstanding_balance = balance,
                                          !.last_interest_update = now]
    BY DEF DrawFromRevolving, OnLoan
  <1>2. /\ TypeOK /\ now \in Nat /\ f \in FacilityType
        /\ facility \in FacilityType /\ FacilityFits(contract, facility)
        /\ Charged \in ContractType
    BY <1>1, FacilityFacts, ChargedIs
  <1>3. f.revolving_closed \/ f.last_standby_fee_update >= now
    BY <1>2, StandbyFeesType DEF FacilityFits, FacilityType
  <1> HIDE DEF f
  <1>4. /\ facility'.accrued_standby_fees = f.accrued_standby_fees
        /\ facility'.last_standby_fee_update = f.last_standby_fee_update
    BY <1>1, <1>2 DEF FacilityType
  <1>5. facility'.revolving_closed = f.revolving_closed
    BY <1>1, <1>2 DEF FacilityType
  <1>6. /\ contract'.accrued_interest = Charged.accrued_interest
        /\ contract'.last_interest_update = now
    BY <1>1, <1>2 DEF ContractType
  <1>7. contract'.last_interest_update >= now  BY <1>2, <1>6
  <1> QED
    BY <1>1, <1>2, <1>3, <1>4, <1>5, <1>6, <1>7, ChargedOnce DEF f

LEMMA ChargedDate ==
    ASSUME RevolvingInductive, OnLoan
    PROVE  /\ \/ Charged.last_interest_update = 0
              \/ Charged.last_interest_update >= now
           /\ \/ WithStandbyFees(facility).revolving_closed
              \/ WithStandbyFees(facility).last_standby_fee_update >= now
  <1>1. /\ TypeOK /\ contract \in ContractType /\ facility \in FacilityType
        /\ FacilityFits(contract, facility)
    BY FacilityFacts
  <1>2. facility.drawn_amount <= facility.credit_limit
    BY <1>1 DEF FacilityFits, FacilityType
  <1>3. \/ Charged.last_interest_update = 0
        \/ Charged.last_interest_update >= now
    BY <1>1, DrawnInterestType DEF Charged
  <1>4. \/ WithStandbyFees(facility).revolving_closed
        \/ WithStandbyFees(facility).last_standby_fee_update >= now
    BY <1>1, <1>2, StandbyFeesType
  <1> QED  BY <1>3, <1>4

LEMMA RepayChargesFirst ==
    ASSUME RevolvingInductive, NEW amount \in Nat, RepayRevolving(amount)
    PROVE  ChargesDue' = ChargesDue
  <1> DEFINE f == WithStandbyFees(facility)
  <1>1. /\ OnLoan /\ now' = now /\ contract' = Settled(Charged, facility')
        /\ \E drawn, available :
              facility' = [f EXCEPT !.drawn_amount = drawn,
                                    !.available_amount = available]
    <2>1. /\ OnLoan /\ now' = now /\ contract' = Settled(Charged, facility')
          /\ facility' = [f EXCEPT !.drawn_amount = @ - amount,
                                   !.available_amount =
                                     IF f.revolving_closed THEN 0
                                     ELSE @ + amount]
      BY DEF RepayRevolving
    <2>2. f \in FacilityType  BY <2>1, ChargedIs
    <2> HIDE DEF f
    <2>3. facility' = [f EXCEPT !.drawn_amount = f.drawn_amount - amount,
                                !.available_amount =
                                  IF f.revolving_closed THEN 0
                                  ELSE f.available_amount + amount]
      BY <2>1, <2>2 DEF FacilityType
    <2> QED  BY <2>1, <2>3
  <1>2. /\ now \in Nat /\ f \in FacilityType /\ Charged \in ContractType
        /\ facility' \in FacilityType
    BY <1>1, FacilityFacts, ChargedIs, RepayKeeps DEF RevolvingInductive
  <1>3. /\ \/ Charged.last_interest_update = 0
           \/ Charged.last_interest_update >= now
        /\ f.revolving_closed \/ f.last_standby_fee_update >= now
    BY <1>1, ChargedDate
  <1> HIDE DEF f
  <1>4. /\ facility'.accrued_standby_fees = f.accrued_standby_fees
        /\ facility'.last_standby_fee_update = f.last_standby_fee_update
    BY <1>1, <1>2 DEF FacilityType
  <1>5. facility'.revolving_closed = f.revolving_closed
    BY <1>1, <1>2 DEF FacilityType
  <1>6. /\ contract'.accrued_interest = Charged.accrued_interest
        /\ contract'.last_interest_update = Charged.last_interest_update
    BY <1>1, <1>2, SettledIs
  <1> QED
    BY <1>1, <1>2, <1>3, <1>4, <1>5, <1>6, ChargedOnce DEF f

LEMMA PartialChargesFirst ==
    ASSUME RevolvingInductive, NEW amount \in Nat, NEW price \in Prices,
           NEW last \in Lenders, NEW toBorrower \in BOOLEAN,
           PartiallyLiquidateFacility(amount, price, last, toBorrower)
    PROVE  ChargesDue' = ChargesDue
  <1> DEFINE f == WithStandbyFees(facility)
             debt == FacilityDebt(Charged, f)
             pledged == Lesser(collateral, contract.collateral_amount)
             repaid == Lesser(amount, Lesser(BpsOf(debt, PartialCapBps),
                                             contract.outstanding_balance))
             seized == CollateralToSeize(repaid, pledged, pledged * price)
             limit == MinusSaturating(f.credit_limit, repaid)
             drawn == f.drawn_amount - repaid
             left == [f EXCEPT !.credit_limit = limit,
                               !.drawn_amount = drawn,
                               !.available_amount =
                                  MinusSaturating(limit, drawn)]
             c == [Charged EXCEPT !.outstanding_balance = drawn,
                                  !.total_principal_paid = @ + repaid,
                                  !.collateral_amount = @ - seized]
             completed == RevolvingCompletion(Charged, left)
  <1>1. /\ OnLoan /\ now' = now
        /\ facility' = [left EXCEPT !.available_amount =
                                        IF completed THEN 0 ELSE @]
        /\ contract' = [c EXCEPT
                          !.status = IF completed THEN "Completed" ELSE @,
                          !.collateral_amount = IF completed THEN 0 ELSE @]
    BY DEF PartiallyLiquidateFacility
  <1>2. now \in Nat /\ f \in FacilityType /\ Charged \in ContractType
    BY <1>1, FacilityFacts, ChargedIs
  <1>3. /\ \/ Charged.last_interest_update = 0
           \/ Charged.last_interest_update >= now
        /\ f.revolving_closed \/ f.last_standby_fee_update >= now
    BY <1>1, ChargedDate
  <1> HIDE DEF f, limit, drawn, repaid, seized, completed
  <1>4. /\ facility'.accrued_standby_fees = f.accrued_standby_fees
        /\ facility'.last_standby_fee_update = f.last_standby_fee_update
    BY <1>1, <1>2 DEF FacilityType
  <1>5. facility'.revolving_closed = f.revolving_closed
    BY <1>1, <1>2 DEF FacilityType
  <1>6. /\ contract'.accrued_interest = Charged.accrued_interest
        /\ contract'.last_interest_update = Charged.last_interest_update
    BY <1>1, <1>2 DEF ContractType
  <1> QED
    BY <1>1, <1>2, <1>3, <1>4, <1>5, <1>6, ChargedOnce DEF f
LEMMA OthersDrawNothing ==
    ASSUME RevolvingInductive,
           \/ \E amount \in Payments :
                 \/ PayCharges(amount)
                 \/ \E last \in Lenders :
                       PayChargesWithDistribution(amount, last)
           \/ \E fee \in Nat : CloseFacility(fee)
           \/ SweepContractPool
           \/ \E l \in Lenders : RequestFacilityRecall(l)
           \/ UpdateFacilityState
           \/ \E last \in Lenders : DistributeStandbyFees(last)
                                    \/ FacilityInterestTransfer(last)
           \/ TimePasses
    PROVE  facility'.drawn_amount = facility.drawn_amount
  <1> DEFINE f == WithStandbyFees(facility)
  <1>0. facility \in FacilityType  BY FacilityFacts
  <1>1. OnLoan => /\ f \in FacilityType
                  /\ f.drawn_amount = facility.drawn_amount
    BY ChargedIs DEF SameLimit
  <1>2. CASE \E amount \in Payments :
                 \/ PayCharges(amount)
                 \/ \E last \in Lenders :
                       PayChargesWithDistribution(amount, last)
    <2>1. PICK amount \in Payments : Pays(amount)
      BY <1>2 DEF PayCharges, PayChargesWithDistribution
    <2>2. OnLoan /\ \E fees : facility' = [f EXCEPT !.accrued_standby_fees = fees]
      BY <2>1 DEF Pays
    <2> HIDE DEF f
    <2> QED  BY <1>1, <2>2 DEF FacilityType
  <1>3. CASE \E fee \in Nat : CloseFacility(fee)
    <2>1. PICK fee \in Nat : CloseFacility(fee)  BY <1>3
    <2>2. OnLoan /\ facility' = Closed(f, fee)
      BY <2>1 DEF CloseFacility, OnLoan
    <2> HIDE DEF f
    <2> QED  BY <1>1, <2>2, ClosedIs
  <1>4. CASE SweepContractPool \/ UpdateFacilityState \/ TimePasses
    BY <1>4 DEF SweepContractPool, UpdateFacilityState, TimePasses
  <1>5. CASE \E l \in Lenders : RequestFacilityRecall(l)
    BY <1>0, <1>5 DEF RequestFacilityRecall, FacilityType
  <1>6. CASE \E last \in Lenders : DistributeStandbyFees(last)
    <2>1. OnLoan /\ \E available :
            facility' = [f EXCEPT !.accrued_standby_fees = 0,
                                  !.available_amount = available]
      <3>1. PICK last \in Lenders : DistributeStandbyFees(last)  BY <1>6
      <3>2. /\ OnLoan
            /\ facility' = [f EXCEPT !.accrued_standby_fees = 0,
                              !.available_amount =
                                 IF f.revolving_closed THEN @
                                 ELSE MinusSaturating(@, f.accrued_standby_fees)]
        BY <3>1 DEF DistributeStandbyFees
      <3> HIDE DEF f
      <3> DEFINE available ==
                   IF f.revolving_closed THEN f.available_amount
                   ELSE MinusSaturating(f.available_amount,
                                        f.accrued_standby_fees)
      <3>3. facility' = [f EXCEPT !.accrued_standby_fees = 0,
                                  !.available_amount = available]
        BY <1>1, <3>2 DEF FacilityType
      <3> QED  BY <3>2, <3>3
    <2> HIDE DEF f
    <2> QED  BY <1>1, <2>1 DEF FacilityType
  <1>7. CASE \E last \in Lenders : FacilityInterestTransfer(last)
    BY <1>1, <1>7 DEF FacilityInterestTransfer
  <1> QED  BY <1>2, <1>3, <1>4, <1>5, <1>6, <1>7

LEMMA RecallTakesLenderOut ==
    ASSUME RevolvingInductive, NEW l \in Lenders, SettleFacilityRecall(l)
    PROVE  contract'.contributions # contract.contributions
  <1>1. /\ MaySettleRecall(l)
        /\ \E status : contract' = [WithoutLender(l) EXCEPT !.status = status]
    BY DEF SettleFacilityRecall
  <1>2. StakeFits(l) /\ l \in contract.contributions
    BY <1>1, RecallerFits
  <1>3. /\ WithoutLender(l) \in ContractType
        /\ WithoutLender(l).contributions = contract.contributions \ {l}
    BY <1>2, FacilityFacts, WithoutStakeIs
  <1>4. contract'.contributions = contract.contributions \ {l}
    BY <1>1, <1>3 DEF ContractType
  <1> QED  BY <1>2, <1>4

LEMMA LiquidationEnds ==
    ASSUME RevolvingInductive, NEW price \in Prices, NEW last \in Lenders,
           LiquidateFacility(price, last)
    PROVE  contract'.status = "Liquidated"
  <1>1. OnLoan  BY DEF LiquidateFacility
  <1>2. \E lost : contract' = [Charged EXCEPT
                                 !.status = "Liquidated",
                                 !.uncollectable_balance = lost,
                                 !.outstanding_balance = 0,
                                 !.collateral_amount = 0,
                                 !.accrued_interest = 0]
    BY DEF LiquidateFacility
  <1>3. Charged \in ContractType  BY <1>1, ChargedIs
  <1> QED  BY <1>2, <1>3 DEF ContractType

LEMMA StepChargesFirst ==
    ASSUME RevolvingInductive, [RevolvingNext]_revolvingVars
    PROVE  ChargesStand
  <1>1. CASE BorrowerUsesFacility
    <2>1. CASE \E amount \in Amounts, price \in Prices :
                  DrawFromRevolving(amount, price)
      BY <2>1, DrawChargesFirst, ConstantsAreNumbers DEF ChargesStand
    <2>2. CASE \E amount \in Amounts : RepayRevolving(amount)
      BY <2>2, RepayChargesFirst, ConstantsAreNumbers DEF ChargesStand
    <2>3. CASE \E amount \in Payments :
                  \/ PayCharges(amount)
                  \/ \E last \in Lenders :
                        PayChargesWithDistribution(amount, last)
      BY <2>3, OthersDrawNothing DEF ChargesStand
    <2>4. CASE CloseRevolvingFacility
      BY <2>4, OthersDrawNothing, TerminationFeeType
         DEF CloseRevolvingFacility, ChargesStand
    <2>5. CASE SweepContractPool  BY <2>5, OthersDrawNothing DEF ChargesStand
    <2>6. CASE \E l \in Lenders : BorrowerRepayFacilityRecall(l)
      BY <2>6, RecallTakesLenderOut
         DEF BorrowerRepayFacilityRecall, ChargesStand
    <2> QED
      BY <1>1, <2>1, <2>2, <2>3, <2>4, <2>5, <2>6 DEF BorrowerUsesFacility
  <1>2. CASE LendersUseFacility
    BY <1>2, OthersDrawNothing DEF LendersUseFacility, ChargesStand
  <1>3. CASE BotKeepsFacility
    <2>1. CASE UpdateFacilityState
      BY <2>1, OthersDrawNothing DEF ChargesStand
    <2>2. CASE BotCloseMaturedRevolving
      <3>1. \E fee \in Nat : CloseFacility(fee)
        BY <2>2 DEF BotCloseMaturedRevolving
      <3> QED  BY <3>1, OthersDrawNothing DEF ChargesStand
    <2>3. CASE \E last \in Lenders : \/ DistributeStandbyFees(last)
                                     \/ FacilityInterestTransfer(last)
      BY <2>3, OthersDrawNothing DEF ChargesStand
    <2>4. CASE \E l \in Lenders, paid \in BOOLEAN :
                  ProcessFacilityRecall(l, paid)
      BY <2>4, RecallTakesLenderOut DEF ProcessFacilityRecall, ChargesStand
    <2>5. CASE \E price \in Prices, last \in Lenders :
                  LiquidateFacility(price, last)
      BY <2>5, LiquidationEnds DEF ChargesStand
    <2>6. CASE \E amount \in Payments, price \in Prices, last \in Lenders,
                 toBorrower \in BOOLEAN :
                  PartiallyLiquidateFacility(amount, price, last, toBorrower)
      BY <2>6, PartialChargesFirst, ServicingConstantsAreNumbers
         DEF ChargesStand
    <2> QED
      BY <1>3, <2>1, <2>2, <2>3, <2>4, <2>5, <2>6 DEF BotKeepsFacility
  <1>4. CASE TimePasses  BY <1>4, OthersDrawNothing DEF ChargesStand
  <1>5. CASE UNCHANGED revolvingVars
    BY <1>5 DEF revolvingVars, vars, ChargesStand
  <1> QED  BY <1>1, <1>2, <1>3, <1>4, <1>5 DEF RevolvingNext

(* PastChargesStand: drawing, repaying and partial liquidations charge what*)
(* has come due before they change what charges are computed of, to the    *)
(* unit.                                                                   *)
THEOREM PastChargesAlwaysStand == RevolvingSpec => PastChargesStand
  <1>1. RevolvingInductive /\ [RevolvingNext]_revolvingVars
          => [ChargesStand]_revolvingVars
    BY StepChargesFirst
  <1>2. [][ChargesStand]_revolvingVars => PastChargesStand
    BY PTL DEF PastChargesStand, ChargesStand
  <1> QED  BY <1>1, <1>2, RevolvingInvariant, PTL DEF RevolvingSpec
=============================================================================
