--------------------------- MODULE MCDebtContract ---------------------------
(* The listings of one contract: each offer opens another part of the      *)
(* funding rules.                                                          *)
EXTENDS DebtContract, TLC

PlainOffer ==
    [target_amount |-> 3, max_lenders |-> 2, collateral_amount |-> 1,
     ltv_floor_bps |-> 5, partial_funding |-> TRUE,
     allow_partial_fill |-> FALSE, min_partial_fill_bps |-> 0,
     allowlist |-> FALSE, frontend |-> FALSE, loan_type |-> "Committed",
     interest_rate |-> 1,
     interest_payment_type |-> "OutstandingBalance", term_days |-> 0,
     principal_frequency |-> 0]

ListingOffers ==
    {PlainOffer,
     [PlainOffer EXCEPT !.max_lenders = 3, !.allow_partial_fill = TRUE,
                        !.min_partial_fill_bps = 6, !.frontend = TRUE],
     [PlainOffer EXCEPT !.partial_funding = FALSE, !.target_amount = 2,
                        !.collateral_amount = 0, !.ltv_floor_bps = 0],
     [PlainOffer EXCEPT !.allowlist = TRUE, !.target_amount = 2]}

LenderSymmetry == Permutations(Lenders)
=============================================================================
