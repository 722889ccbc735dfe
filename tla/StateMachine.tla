---------------------------- MODULE StateMachine ----------------------------
(***************************************************************************)
(* The transition tables of lib/stateMachine.ts, as sets of pairs.  Every  *)
(* status write of a checkout or a payout goes through one of them.        *)
(***************************************************************************)

CheckoutStatus == {"pending", "paid", "expired", "underpaid"}

\* Mutant: an expired checkout stays expired whatever arrives.
CHECKOUT_TRANSITIONS_ExpiredIsFinal ==
    {<<"pending", "paid">>, <<"pending", "expired">>, <<"pending", "underpaid">>,
     <<"underpaid", "paid">>}

CHECKOUT_TRANSITIONS ==
    {<<"pending", "paid">>, <<"pending", "expired">>, <<"pending", "underpaid">>,
     <<"expired", "paid">>,       \* money after the window is still honoured
     <<"underpaid", "paid">>}

PayoutStatus == {"awaiting_approval", "pending", "processing", "success",
                 "failed", "reversed", "cancelled"}

PAYOUT_TRANSITIONS ==
    {<<"awaiting_approval", "pending">>, <<"awaiting_approval", "cancelled">>,
     <<"pending", "processing">>, <<"pending", "failed">>,
     <<"processing", "success">>, <<"processing", "failed">>,
     <<"processing", "reversed">>,
     <<"success", "reversed">>}

CanTransitionCheckout(from, to) == <<from, to>> \in CHECKOUT_TRANSITIONS

CanTransitionPayout(from, to) == <<from, to>> \in PAYOUT_TRANSITIONS

(* Statuses in which a payout's funds are still debited from the space.     *)
PAYOUT_ACTIVE == {"awaiting_approval", "pending", "processing"}
=============================================================================
