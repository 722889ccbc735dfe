---------------------------- MODULE MCWithdrawal ----------------------------
(* Instances of Withdrawal for TLC.                                         *)
EXTENDS Withdrawal, TLC

CONSTANTS d1, d2

MCDueOrder == <<d1, d2>>
MCOneDue == <<d1>>

(* Payout ids are interchangeable; so are the handlers of one kind.         *)
Symmetry == Permutations(Payouts) \cup Permutations(DuePayments) \cup Permutations(Workers) \cup Permutations(Reconcilers)
=============================================================================
