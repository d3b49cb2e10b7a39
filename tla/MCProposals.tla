----------------------------- MODULE MCProposals -----------------------------
(* A demand loan and a committed loan of 2 units, all of it lent by one of *)
(* two lenders, who may sell the other a part or everything; and a text    *)
(* that is dearer and has a schedule.                                      *)
EXTENDS Proposals, TLC

DemandLoan ==
    [target_amount |-> 2, max_lenders |-> 2, collateral_amount |-> 4,
     ltv_floor_bps |-> 14, partial_funding |-> TRUE,
     allow_partial_fill |-> FALSE, min_partial_fill_bps |-> 0,
     allowlist |-> FALSE, frontend |-> FALSE, loan_type |-> "Demand",
     interest_rate |-> 1,
     interest_payment_type |-> "OutstandingBalance", term_days |-> 0,
     principal_frequency |-> 0]

CommittedLoan ==
    [DemandLoan EXCEPT !.loan_type = "Committed", !.term_days = 2,
                       !.interest_payment_type = "CollateralTransfer"]

Scheduled ==
    [interest_rate |-> 2, term_days |-> 2, principal_frequency |-> 1,
     interest_payment_type |-> "OutstandingBalance", ltv_floor_bps |-> 14]

Loans == {DemandLoan, CommittedLoan}
Texts == {Scheduled}

LenderSymmetry == Permutations(Lenders)
=============================================================================
