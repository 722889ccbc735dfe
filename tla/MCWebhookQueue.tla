--------------------------- MODULE MCWebhookQueue ---------------------------
(* Instances of WebhookQueue for TLC.                                       *)
EXTENDS WebhookQueue

(* Workers are interchangeable.                                             *)
Symmetry == Permutations(Workers)
=============================================================================
