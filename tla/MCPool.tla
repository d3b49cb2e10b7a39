------------------------------- MODULE MCPool -------------------------------
(* Small pools.  Each configuration opens one part of the interface and    *)
(* closes the others by giving them an empty set of inputs.                *)
EXTENDS Pool

NoTermsChange ==
    [rate_bps |-> Keep, capacity |-> Keep, minimum_deposit |-> Keep,
     allowed_loan_type |-> Keep, min_ltv_bps |-> Keep,
     max_term_days |-> Keep, withdrawal_queue_enabled |-> Keep]

PlainTerms ==
    [rate_bps |-> 0, capacity |-> 3, minimum_deposit |-> 0,
     allowed_loan_type |-> "Both", min_ltv_bps |-> 0, max_term_days |-> 0,
     withdrawal_queue_enabled |-> TRUE]

AnyContract ==
    {[loan_type |-> "Demand", ltv_floor_bps |-> 2, term_days |-> 0],
     [loan_type |-> "Committed", ltv_floor_bps |-> 1, term_days |-> 3]}

(* Queue: no yield, a queue the operator may switch off.                   *)
QueueTerms == {PlainTerms}
QueueChanges ==
    {[NoTermsChange EXCEPT !.withdrawal_queue_enabled = FALSE],
     [NoTermsChange EXCEPT !.capacity = 1, !.withdrawal_queue_enabled = TRUE]}

(* Yield: one unit per unit deposited and YieldDenom seconds.              *)
YieldTerms ==
    {[PlainTerms EXCEPT !.rate_bps = 1, !.capacity = 2,
                        !.withdrawal_queue_enabled = FALSE]}
YieldChanges == {}
OneContract == {[loan_type |-> "Demand", ltv_floor_bps |-> 2, term_days |-> 0]}

(* Terms: what deployments are checked against, and the rate.              *)
TimelockTerms ==
    {[PlainTerms EXCEPT !.rate_bps = 1, !.capacity = 2,
                        !.withdrawal_queue_enabled = FALSE]}
TimelockChanges ==
    {[NoTermsChange EXCEPT !.rate_bps = 2, !.capacity = 1],
     [NoTermsChange EXCEPT !.allowed_loan_type = "Demand",
                           !.min_ltv_bps = 2, !.max_term_days = 2,
                           !.minimum_deposit = 2]}

(* No property names a depositor.                                          *)
DepositorSymmetry == Permutations(Depositors)
=============================================================================
