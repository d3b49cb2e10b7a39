-------------------------- MODULE MCLoanServicing --------------------------
(* Loans of 3 units by two lenders: on demand, with interest added to the  *)
(* balance; committed, with principal due every day and interest accrued   *)
(* apart.                                                                  *)
EXTENDS LoanServicing

DemandOffer ==
    [target_amount |-> 3, max_lenders |-> 2, collateral_amount |-> 4,
     ltv_floor_bps |-> 14, partial_funding |-> TRUE,
     allow_partial_fill |-> FALSE, min_partial_fill_bps |-> 0,
     allowlist |-> FALSE, frontend |-> TRUE, loan_type |-> "Demand",
     interest_rate |-> 1,
     interest_payment_type |-> "OutstandingBalance", term_days |-> 0,
     principal_frequency |-> 0]

CommittedOffer ==
    [DemandOffer EXCEPT !.loan_type = "Committed",
                        !.collateral_amount = 3,
                        !.interest_payment_type = "CollateralTransfer",
                        !.term_days = 3, !.principal_frequency = 1]

LoanOffers == {DemandOffer, CommittedOffer}
DemandOnly == {DemandOffer}
=============================================================================
