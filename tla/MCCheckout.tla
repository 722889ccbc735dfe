----------------------------- MODULE MCCheckout -----------------------------
(* Instances of Checkout for TLC.                                           *)
EXTENDS Checkout, TLC

CONSTANTS d1, d2

MCDueOrder == <<d1, d2>>
MCOneDue == <<d1>>

(* Handlers, checkouts and charges are interchangeable.                     *)
Symmetry == Permutations(Handlers) \cup Permutations(Checkouts) \cup Permutations(Charges)
=============================================================================
