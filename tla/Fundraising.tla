----------------------------- MODULE Fundraising -----------------------------
(***************************************************************************)
(* What a listing promises the lenders: what they stake is kept for them   *)
(* in one pot, out of which comes either one loan, of all that is in it    *)
(* and of no less than the borrower wanted, or every stake, once, to who   *)
(* brought it.  DebtContract implements this.                              *)
(***************************************************************************)
EXTENDS Integers

CONSTANT Lenders

VARIABLES
    phase,            \* "unlisted", "open", then "lent" or "cancelled"
    goal,             \* what the borrower asks for
    least,            \* with how little the borrower would start
    stakes,           \* what each lender has in the pot, or in the loan
    pot,              \* the money that is held
    loan              \* what the borrower got

fundVars == <<phase, goal, least, stakes, pot, loan>>

Init ==
    /\ phase = "unlisted"
    /\ goal \in Nat /\ least \in 0 .. goal
    /\ stakes = [l \in Lenders |-> 0]
    /\ pot = 0
    /\ loan = 0

List ==
    /\ phase = "unlisted"
    /\ phase' = "open"
    /\ UNCHANGED <<goal, least, stakes, pot, loan>>

(* The stake that reaches the goal starts the loan.                        *)
Stake(l, amount) ==
    /\ phase = "open"
    /\ stakes[l] = 0 /\ amount > 0
    /\ pot + amount <= goal
    /\ stakes' = [stakes EXCEPT ![l] = amount]
    /\ IF pot + amount = goal
       THEN phase' = "lent" /\ loan' = goal /\ pot' = 0
       ELSE pot' = pot + amount /\ UNCHANGED <<phase, loan>>
    /\ UNCHANGED <<goal, least>>

Unstake(l) ==
    /\ phase = "open"
    /\ stakes[l] > 0
    /\ stakes' = [stakes EXCEPT ![l] = 0]
    /\ pot' = pot - stakes[l]
    /\ UNCHANGED <<phase, goal, least, loan>>

Start ==
    /\ phase = "open"
    /\ pot > 0 /\ pot >= least
    /\ phase' = "lent" /\ loan' = pot /\ pot' = 0
    /\ UNCHANGED <<goal, least, stakes>>

Cancel ==
    /\ phase = "open"
    /\ phase' = "cancelled"
    /\ UNCHANGED <<goal, least, stakes, pot, loan>>

Refund(l) ==
    /\ phase = "cancelled"
    /\ stakes[l] > 0
    /\ stakes' = [stakes EXCEPT ![l] = 0]
    /\ pot' = pot - stakes[l]
    /\ UNCHANGED <<phase, goal, least, loan>>

Next ==
    \/ List \/ Start \/ Cancel
    \/ \E l \in Lenders :
          \/ \E amount \in 1 .. goal : Stake(l, amount)
          \/ Unstake(l)
          \/ Refund(l)

Spec == Init /\ [][Next]_fundVars
=============================================================================
