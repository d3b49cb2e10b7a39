----------------------------- MODULE MCRevolving -----------------------------
(* Facilities of 2 units by two lenders: on demand, with interest that the *)
(* contract's account pays, and committed for two days, with interest that *)
(* the bot pays against collateral.                                        *)
EXTENDS Revolving, TLC

DemandFacility ==
    [target_amount |-> 2, max_lenders |-> 2, collateral_amount |-> 4,
     ltv_floor_bps |-> 14, partial_funding |-> TRUE,
     allow_partial_fill |-> FALSE, min_partial_fill_bps |-> 0,
     allowlist |-> FALSE, frontend |-> FALSE, loan_type |-> "Demand",
     interest_rate |-> 2,
     interest_payment_type |-> "OutstandingBalance", term_days |-> 0,
     principal_frequency |-> 0]

CommittedFacility ==
    [DemandFacility EXCEPT !.loan_type = "Committed", !.term_days = 2,
                           !.interest_payment_type = "CollateralTransfer"]

Facilities == {DemandFacility, CommittedFacility}

LenderSymmetry == Permutations(Lenders)
=============================================================================
