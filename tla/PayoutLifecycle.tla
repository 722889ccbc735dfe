-------------------------- MODULE PayoutLifecycle ---------------------------
(***************************************************************************)
(* What the withdrawal service promises about one space's money, with no   *)
(* handlers, provider or webhooks: a withdrawal takes its gross amount off *)
(* the balance when it is opened, one at a time and only if covered; its   *)
(* status then follows the table; and the amount comes back exactly when   *)
(* it ends without having paid anyone.                                     *)
(***************************************************************************)
EXTENDS Integers, StateMachine

CONSTANT Payouts

VARIABLES status,   \* [Payouts -> status], "none" before it is opened
          amount,   \* [Payouts -> Nat], the gross amount it reserved
          balance   \* what the space can still withdraw

lifecycleVars == <<status, amount, balance>>

RESTORING == {"failed", "reversed", "cancelled"}

LifecycleInit ==
    /\ status = [p \in Payouts |-> "none"]
    /\ amount = [p \in Payouts |-> 0]
    /\ balance = 0

(* Money arrives from students.                                             *)
Collect ==
    /\ balance' \in Int /\ balance' > balance
    /\ UNCHANGED <<status, amount>>

Open(p) ==
    /\ status[p] = "none"
    /\ \A q \in Payouts : status[q] \notin PAYOUT_ACTIVE
    /\ amount'[p] \in 1..balance
    /\ status'[p] \in {"awaiting_approval", "pending"}
    /\ status' = [status EXCEPT ![p] = status'[p]]
    /\ amount' = [amount EXCEPT ![p] = amount'[p]]
    /\ balance' = balance - amount'[p]

(* A move along the table that leaves the money where it is.                *)
Advance(p, to) ==
    /\ CanTransitionPayout(status[p], to)
    /\ to \notin RESTORING
    /\ status' = [status EXCEPT ![p] = to]
    /\ UNCHANGED <<amount, balance>>

(* An ending that gives the whole amount back to the space.                 *)
Restore(p, to) ==
    /\ CanTransitionPayout(status[p], to)
    /\ to \in RESTORING
    /\ status' = [status EXCEPT ![p] = to]
    /\ balance' = balance + amount[p]
    /\ UNCHANGED amount

LifecycleNext ==
    \/ Collect
    \/ \E p \in Payouts :
          \/ Open(p)
          \/ \E to \in PayoutStatus : Advance(p, to) \/ Restore(p, to)

LifecycleSpec == LifecycleInit /\ [][LifecycleNext]_lifecycleVars
=============================================================================
