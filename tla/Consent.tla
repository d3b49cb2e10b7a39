------------------------------- MODULE Consent -------------------------------
(***************************************************************************)
(* What term proposals promise the parties of a loan: the terms in force   *)
(* are replaced only by a text that was put to everybody who was in the    *)
(* loan at that time, and to which each of them has agreed, one by one.    *)
(* Parties may leave the loan meanwhile, whose consent is asked all the    *)
(* same, and others may take their place, who are bound without having     *)
(* been asked.  Proposals implements this.                                 *)
(***************************************************************************)
CONSTANTS
    Parties,          \* whoever may be in the loan
    Texts,            \* what the terms may be
    Ballots           \* names of ballots

VARIABLES
    inForce,          \* the terms
    members,          \* the parties in the loan
    ballots           \* the ballots that are open or carried

consentVars == <<inForce, members, ballots>>

Init ==
    /\ members \subseteq Parties
    /\ inForce \in Texts
    /\ ballots = {}

(* A ballot besides the others; once everybody who was asked has agreed it *)
(* is carried, and its text comes into force.                              *)
Counted(ballot, others) ==
    /\ ballots' = others \union {ballot}
    /\ inForce' = IF ballot.agreed = ballot.electorate THEN ballot.text
                  ELSE inForce
    /\ UNCHANGED members

Call(name, p, text) ==
    /\ \A ballot \in ballots : ballot.name # name
    /\ Counted([name |-> name, text |-> text, electorate |-> members,
                agreed |-> {p}], ballots)

Agree(ballot, p) ==
    Counted([ballot EXCEPT !.agreed = @ \union {p}], ballots \ {ballot})

(* An open ballot is dropped; one that was carried is filed away.          *)
Drop(ballot) ==
    /\ ballots' = ballots \ {ballot}
    /\ UNCHANGED <<inForce, members>>

Leave(p) ==
    /\ members' = members \ {p}
    /\ UNCHANGED <<inForce, ballots>>

(* p gives q a part of its own place in the loan, or all of it.            *)
Admit(p, q) ==
    /\ members' \in {members \union {q}, (members \ {p}) \union {q}}
    /\ UNCHANGED <<inForce, ballots>>

Next ==
    \/ \E p \in members :
          \/ \E text \in Texts \ {inForce}, name \in Ballots :
                Call(name, p, text)
          \/ Leave(p)
          \/ \E q \in Parties \ members : Admit(p, q)
    \/ \E ballot \in ballots :
          \/ \E p \in ballot.electorate \ ballot.agreed : Agree(ballot, p)
          \/ Drop(ballot)

Spec == Init /\ [][Next]_consentVars
=============================================================================
