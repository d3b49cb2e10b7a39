------------------------------ MODULE MCTrading ------------------------------
(* A demand loan and a committed loan of 3 units, 1 being the least that   *)
(* may be listed, with room for two of three lenders.                      *)
EXTENDS Trading, TLC

DemandLoan ==
    [target_amount |-> 3, max_lenders |-> 2, collateral_amount |-> 4,
     ltv_floor_bps |-> 14, partial_funding |-> TRUE,
     allow_partial_fill |-> FALSE, min_partial_fill_bps |-> 0,
     allowlist |-> FALSE, frontend |-> FALSE, loan_type |-> "Demand",
     interest_rate |-> 1,
     interest_payment_type |-> "OutstandingBalance", term_days |-> 0,
     principal_frequency |-> 0]

CommittedLoan ==
    [DemandLoan EXCEPT !.loan_type = "Committed", !.term_days = 2,
                       !.interest_payment_type = "CollateralTransfer"]

Loans == {DemandLoan, CommittedLoan}

LenderSymmetry == Permutations(Lenders)
=============================================================================
