----------------------------- MODULE MCApproval -----------------------------
(* Instances of Approval for TLC.                                           *)
EXTENDS Approval, TLC

(* The handlers are interchangeable; so are the co-reps with a seat.        *)
Symmetry == Permutations(Handlers) \cup Permutations(FirstSeats)

(* Two changes are followed without a withdrawal, one with it: a bound on   *)
(* what ApprovalRaces explores.                                             *)
SigningOrTeam == changes < 2 \/ \A p \in Payouts : payout[p].status = "none"
=============================================================================
