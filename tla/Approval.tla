------------------------------ MODULE Approval ------------------------------
(***************************************************************************)
(* Who may take money out of one space: its reps, their signatory seats,   *)
(* the withdrawal mode with its code and its 24-hour hold, and the         *)
(* signatures on a waiting withdrawal.  services/signatory.service.ts,     *)
(* services/withdrawalApproval.service.ts, the authorisation half of       *)
(* services/withdrawal.service.ts, and the rep routes of circle.ts,        *)
(* payouts.ts and admin.ts.                                                *)
(*                                                                         *)
(* Every handler first reads, then writes: call[h] holds what it read.     *)
(* Its write is one transaction.  Balances, dispatch and what happens to   *)
(* a withdrawal once it is released are Withdrawal's business.             *)
(***************************************************************************)
EXTENDS Integers, FiniteSets, StateMachine

CONSTANTS Users,
          FirstLead,      \* the lead, and
          FirstSeats,     \* the co-reps with a seat, in the initial states;
          FirstReps,      \* everyone who is a co-rep there
          Payouts, Handlers,
          AdminRoles,     \* the roles an admin assigns
          MaxChanges,     \* bound on changes to the team and the settings
          MaxInterrupts

ASSUME ApprovalAssumption ==
    /\ FirstLead \in Users \ FirstReps
    /\ FirstSeats \subseteq FirstReps /\ FirstReps \subseteq Users /\ IsFiniteSet(FirstReps)
    /\ AdminRoles \subseteq {"lead", "co"}
    /\ MaxChanges \in Nat /\ MaxInterrupts \in Nat

REQUIRED_SIGNATORIES == 3
REQUIRED_APPROVALS == 2

VARIABLES rep,         \* the role of each user in the space
          seats,       \* reps with isSignatory (the lead signs without it)
          inactive,    \* suspended or deactivated accounts
          mode,        \* withdrawalAuthMode
          pin,         \* is a withdrawal code set
          hold,        \* is withdrawalPinHoldUntil in the future
          payout,      \* the payouts, as far as signing goes
          decision,    \* the payout_approvals table
          otp,         \* outstanding codes
          call, changes, interrupts,
          overtaken    \* history: handlers whose read another has overtaken

team == <<rep, seats, inactive>>
security == <<mode, pin, hold>>
signing == <<payout, decision, otp>>
bounds == <<changes, interrupts>>
state == <<team, security, signing, call, bounds>>

vars == <<rep, seats, inactive, mode, pin, hold, payout, decision, otp, call, changes, interrupts, overtaken>>

-----------------------------------------------------------------------------
Row == [status : {"none", "awaiting_approval", "pending", "closed", "cancelled"},
        needsApproval : BOOLEAN,
        requestedBy : Users,
        account : Users,        \* whose provider account it pays from
        expired : BOOLEAN]      \* approvalExpiresAt has passed

NoRow == [status |-> "none", needsApproval |-> FALSE, requestedBy |-> FirstLead,
          account |-> FirstLead, expired |-> FALSE]

(* Where a handler stands:                                                  *)
(* create    requestWithdrawal, its checks passed                           *)
(* announce  announceForApproval, for the requester's own code              *)
(* otp       sendApprovalOtp, about to store the code                       *)
(* sign      approvePayout, loaded and the code checked                     *)
(* reject    rejectPayout, about to record the rejection                    *)
(* cancel    about to enter cancelPayout                                    *)
(* transfer  POST /transfer-lead, its checks passed                         *)
(* sweep     about to cancel what waits after a change of lead              *)
(* remove    DELETE /reps, its checks passed                                *)
(* seats, mode, pin   about to write a security setting                     *)
Call ==
    [at : {"idle", "sweep"}]
    \cup [at : {"create"}, u : Users, account : Users, needsApproval : BOOLEAN]
    \cup [at : {"announce", "otp", "reject"}, p : Payouts, u : Users]
    \cup [at : {"sign"}, p : Payouts, u : Users, signatories : SUBSET Users]
    \cup [at : {"cancel"}, p : Payouts]
    \cup [at : {"transfer"}, u : Users, v : Users, seat : BOOLEAN]
    \cup [at : {"remove"}, v : Users]
    \cup [at : {"seats"}, wanted : SUBSET Users, hold : BOOLEAN]
    \cup [at : {"mode"}, mode : {"pin", "multisig"}, hold : BOOLEAN]
    \cup [at : {"pin"}, hold : BOOLEAN]

Idle == [at |-> "idle"]

TypeOK ==
    /\ rep \in [Users -> {"none", "co", "lead"}]
    /\ seats \subseteq {u \in Users : rep[u] # "none"} /\ inactive \subseteq Users
    /\ mode \in {"pin", "multisig"} /\ pin \in BOOLEAN /\ hold \in BOOLEAN
    /\ payout \in [Payouts -> Row]
    /\ decision \in [Payouts \X Users -> {"none", "approved", "rejected"}]
    /\ otp \subseteq Payouts \X Users
    /\ call \in [Handlers -> Call]
    /\ changes \in 0..MaxChanges /\ interrupts \in 0..MaxInterrupts
    /\ overtaken \subseteq Handlers

(* An established space, in either mode.                                    *)
Init ==
    /\ rep = [u \in Users |-> IF u = FirstLead THEN "lead" ELSE IF u \in FirstReps THEN "co" ELSE "none"]
    /\ seats = FirstSeats /\ inactive = {}
    /\ mode \in {"pin", "multisig"} /\ pin = TRUE /\ hold = FALSE
    /\ payout = [p \in Payouts |-> NoRow]
    /\ decision = [pu \in Payouts \X Users |-> "none"]
    /\ otp = {}
    /\ call = [h \in Handlers |-> Idle]
    /\ changes = 0 /\ interrupts = 0 /\ overtaken = {}

Goto(h, next) == call' = [call EXCEPT ![h] = next]

Start(h, next) == call[h] = Idle /\ Goto(h, next)

Leads == {u \in Users : rep[u] = "lead"}

(* requireSpaceRep and requireSpaceRep(true).                               *)
Acting(u) == rep[u] # "none" /\ u \notin inactive
Leading(u) == rep[u] = "lead" /\ u \notin inactive

(* getSignatoryIds.                                                         *)
Signatories == (Leads \cup seats) \ inactive

Waiting(p) == payout[p].status = "awaiting_approval"

-----------------------------------------------------------------------------
(* POST /payout/request                                                    *)

(* The checks: no hold in force, then a full set of signatories or the      *)
(* right code.  The lead whose account will pay is read here.               *)
RequestWithdrawal(h, u) ==
    /\ Acting(u)
    /\ ~hold
    /\ IF mode = "multisig" THEN Cardinality(Signatories) >= REQUIRED_SIGNATORIES ELSE pin
    /\ \E lead \in Leads :
          Start(h, [at |-> "create", u |-> u, account |-> lead, needsApproval |-> mode = "multisig"])
    /\ UNCHANGED <<team, security, signing, bounds>>

(* The transaction: refused if a withdrawal is in flight or the balance is  *)
(* too low; otherwise created, and announced or sent.                       *)
CreatePayout(h) ==
    /\ call[h].at = "create"
    /\ \/ /\ \A q \in Payouts : payout[q].status \notin PAYOUT_ACTIVE
          /\ \E p \in Payouts :
                /\ payout[p].status = "none"
                /\ payout' = [payout EXCEPT ![p] =
                      [status |-> IF call[h].needsApproval THEN "awaiting_approval" ELSE "pending",
                       needsApproval |-> call[h].needsApproval, requestedBy |-> call[h].u,
                       account |-> call[h].account, expired |-> FALSE]]
                /\ Goto(h, IF call[h].needsApproval THEN [at |-> "announce", p |-> p, u |-> call[h].u] ELSE Idle)
       \/ Goto(h, Idle) /\ UNCHANGED payout
    /\ UNCHANGED <<team, security, decision, otp, bounds>>

-----------------------------------------------------------------------------
(* Signing                                                                 *)

(* loadForSigning, then on to next; a withdrawal found out of time is       *)
(* cancelled instead.                                                       *)
LoadForSigning(h, p, u, next) ==
    /\ Waiting(p)
    /\ IF payout[p].expired
       THEN Goto(h, [at |-> "cancel", p |-> p])
       ELSE /\ u \in Signatories
            /\ decision[<<p, u>>] = "none"
            /\ Goto(h, next)

SendApprovalOtp(h, p, u) ==
    /\ call[h] = Idle /\ Acting(u)
    /\ LoadForSigning(h, p, u, [at |-> "otp", p |-> p, u |-> u])
    /\ UNCHANGED <<team, security, signing, bounds>>

(* The requester's own code, if they are a signatory; errors are swallowed. *)
AnnounceForApproval(h) ==
    LET p == call[h].p
        u == call[h].u
    IN  /\ call[h].at = "announce"
        /\ \/ u \in Signatories /\ LoadForSigning(h, p, u, [at |-> "otp", p |-> p, u |-> u])
           \/ Goto(h, Idle)
        /\ UNCHANGED <<team, security, signing, bounds>>

StoreOtp(h) ==
    /\ call[h].at = "otp"
    /\ otp' = otp \cup {<<call[h].p, call[h].u>>}
    /\ Goto(h, Idle)
    /\ UNCHANGED <<team, security, payout, decision, bounds>>

(* A code runs out after OTP_TTL_MS, or a fifth wrong guess voids it.       *)
LoseOtp(p, u) ==
    /\ <<p, u>> \in otp
    /\ otp' = otp \ {<<p, u>>}
    /\ UNCHANGED <<team, security, payout, decision, call, bounds>>

(* approvePayout up to its transaction: loaded, with the signatories of the *)
(* moment, and the code matched.                                            *)
ApprovePayout(h, p, u) ==
    /\ call[h] = Idle /\ Acting(u)
    /\ payout[p].expired \/ <<p, u>> \in otp
    /\ LoadForSigning(h, p, u, [at |-> "sign", p |-> p, u |-> u, signatories |-> Signatories])
    /\ UNCHANGED <<team, security, signing, bounds>>

\* Mutant: one signature is enough.
Releases_AnyOne(p, ok) == Cardinality({u \in ok : decision'[<<p, u>>] = "approved"}) >= 1

\* Mutant: every stored signature counts, whoever it is from.
Releases_Everyone(p, ok) == Cardinality({u \in Users : decision'[<<p, u>>] = "approved"}) >= REQUIRED_APPROVALS

(* The signatures that count: those of the signatories ok.                  *)
Releases(p, ok) == Cardinality({u \in ok : decision'[<<p, u>>] = "approved"}) >= REQUIRED_APPROVALS

\* Mutant: the status is not looked at again under the lock.
CastApproval_Unlocked(h) ==
    LET p == call[h].p
        u == call[h].u
    IN  /\ call[h].at = "sign"
        /\ Goto(h, Idle)
        /\ decision' = [decision EXCEPT ![<<p, u>>] = "approved"]
        /\ otp' = otp \ {<<p, u>>}
        /\ payout' = IF Releases(p, call[h].signatories)
                     THEN [payout EXCEPT ![p].status = "pending"] ELSE payout
        /\ UNCHANGED <<team, security, bounds>>

(* Its transaction, under lockPayout; a second signature of one user is     *)
(* refused by the unique key.                                               *)
CastApproval(h) ==
    LET p == call[h].p
        u == call[h].u
    IN  /\ call[h].at = "sign"
        /\ Goto(h, Idle)
        /\ IF Waiting(p) /\ decision[<<p, u>>] = "none"
           THEN /\ decision' = [decision EXCEPT ![<<p, u>>] = "approved"]
                /\ otp' = otp \ {<<p, u>>}
                /\ payout' = IF Releases(p, call[h].signatories)
                             THEN [payout EXCEPT ![p] = [@ EXCEPT !.status = "pending", !.expired = FALSE]]
                             ELSE payout
           ELSE UNCHANGED signing
        /\ UNCHANGED <<team, security, bounds>>

(* rejectPayout: a signatory's rejection is stored first, by an upsert that *)
(* looks at nothing; a requester without a seat only cancels.               *)
RejectPayout(h, p, u) ==
    /\ Acting(u) /\ Waiting(p)
    /\ \/ u \in Signatories /\ Start(h, [at |-> "reject", p |-> p, u |-> u])
       \/ u \notin Signatories /\ payout[p].requestedBy = u /\ Start(h, [at |-> "cancel", p |-> p])
    /\ UNCHANGED <<team, security, signing, bounds>>

\* Mutant: the rejection is recorded, and that is all.
RecordRejection_Only(h) ==
    /\ call[h].at = "reject"
    /\ decision' = [decision EXCEPT ![<<call[h].p, call[h].u>>] = "rejected"]
    /\ Goto(h, Idle)
    /\ UNCHANGED <<team, security, payout, otp, bounds>>

RecordRejection(h) ==
    /\ call[h].at = "reject"
    /\ decision' = [decision EXCEPT ![<<call[h].p, call[h].u>>] = "rejected"]
    /\ Goto(h, [at |-> "cancel", p |-> call[h].p])
    /\ UNCHANGED <<team, security, payout, otp, bounds>>

(* cancelPayout of each of P, under lockPayout: nothing unless it waits;    *)
(* the window is closed and the outstanding codes are deleted.              *)
Cancelled(P) ==
    LET now == {p \in P : Waiting(p)} IN
    /\ payout' = [p \in Payouts |-> IF p \in now
                                   THEN [payout[p] EXCEPT !.status = "cancelled", !.expired = FALSE]
                                   ELSE payout[p]]
    /\ otp' = {pu \in otp : pu[1] \notin now}

CancelPayout(h) ==
    /\ call[h].at = "cancel"
    /\ Cancelled({call[h].p})
    /\ Goto(h, Idle)
    /\ UNCHANGED <<team, security, decision, bounds>>

\* Mutant: the job looks at released withdrawals.
ExpireStaleApprovals_Released(h, p) ==
    /\ payout[p].status = "pending" /\ payout[p].expired
    /\ Start(h, [at |-> "cancel", p |-> p])
    /\ UNCHANGED <<team, security, signing, bounds>>

(* One row of the reconciliation job's sweep.                               *)
ExpireStaleApprovals(h, p) ==
    /\ Waiting(p) /\ payout[p].expired
    /\ Start(h, [at |-> "cancel", p |-> p])
    /\ UNCHANGED <<team, security, signing, bounds>>

(* APPROVAL_WINDOW_MS passes.                                               *)
WindowPasses(p) ==
    /\ Waiting(p) /\ ~payout[p].expired
    /\ payout' = [payout EXCEPT ![p].expired = TRUE]
    /\ UNCHANGED <<team, security, decision, otp, call, bounds>>

(* Withdrawal brings a released payout to one of its ends: paid, failed or  *)
(* reversed, all "closed" here.                                             *)
Ends(p) ==
    /\ payout[p].status = "pending"
    /\ payout' = [payout EXCEPT ![p].status = "closed"]
    /\ UNCHANGED <<team, security, decision, otp, call, bounds>>

-----------------------------------------------------------------------------
(* The team                                                                *)

(* A change to the team or the settings, counted against its bound.         *)
Change == changes < MaxChanges /\ changes' = changes + 1

(* POST /reps                                                               *)
AddRep(h, u, v) ==
    /\ call[h] = Idle /\ Change
    /\ Leading(u) /\ rep[v] = "none" /\ v \notin inactive
    /\ rep' = [rep EXCEPT ![v] = "co"]
    /\ UNCHANGED <<seats, inactive, security, signing, call, interrupts>>

\* Mutant: the last lead is not refused.
RemoveRep_LastLead(h, u, v) ==
    /\ Change
    /\ Leading(u) /\ rep[v] # "none"
    /\ Start(h, [at |-> "remove", v |-> v])
    /\ UNCHANGED <<team, security, signing, interrupts>>

(* DELETE /reps/:userId: the role is read, and the last lead refused...     *)
RemoveRep(h, u, v) ==
    /\ Change
    /\ Leading(u) /\ rep[v] # "none"
    /\ rep[v] = "lead" => Cardinality(Leads) > 1
    /\ Start(h, [at |-> "remove", v |-> v])
    /\ UNCHANGED <<team, security, signing, interrupts>>

\* Mutant: the rep loses the role and keeps the seat.
DeleteRep_KeepsSeat(h) ==
    /\ call[h].at = "remove"
    /\ Goto(h, Idle)
    /\ rep' = [rep EXCEPT ![call[h].v] = "none"]
    /\ UNCHANGED <<seats, inactive, security, signing, bounds>>

(* ... then the row is deleted, if it is still there.                       *)
DeleteRep(h) ==
    LET v == call[h].v IN
    /\ call[h].at = "remove"
    /\ Goto(h, Idle)
    /\ rep' = [rep EXCEPT ![v] = "none"]
    /\ seats' = seats \ {v}
    /\ UNCHANGED <<inactive, security, signing, bounds>>

(* POST /transfer-lead: the reads...                                        *)
TransferLead(h, u, v) ==
    /\ Change
    /\ Leading(u) /\ rep[v] = "co"
    /\ Start(h, [at |-> "transfer", u |-> u, v |-> v, seat |-> v \in seats])
    /\ UNCHANGED <<team, security, signing, interrupts>>

\* Mutant: the old lead gets no seat.
SeatsAfterHandover_Dropped(u, v, seat) == seats \ {u, v}

(* The old lead u takes the seat the new one v had when it was read.        *)
SeatsAfterHandover(u, v, seat) == (seats \ {u, v}) \cup (IF seat THEN {u} ELSE {})

(* ... then the transaction, which fails if either row is gone, and wipes   *)
(* the code with its hold (CLEARED_PIN).                                    *)
HandOver(h) ==
    LET u == call[h].u
        v == call[h].v
    IN  /\ call[h].at = "transfer"
        /\ IF rep[u] = "none" \/ rep[v] = "none"
           THEN Goto(h, Idle) /\ UNCHANGED <<rep, seats, pin, hold>>
           ELSE /\ rep' = [rep EXCEPT ![v] = "lead", ![u] = "co"]
                /\ seats' = SeatsAfterHandover(u, v, call[h].seat)
                /\ pin' = FALSE /\ hold' = FALSE
                /\ Goto(h, [at |-> "sweep"])
        /\ UNCHANGED <<inactive, mode, signing, bounds>>

(* POST /admin/spaces/:spaceId/assign-rep, one transaction.                 *)
AssignRep(h, v, role) ==
    LET demoted == IF role = "lead" THEN Leads \ {v} ELSE {} IN
    /\ Change
    /\ v \notin inactive
    /\ rep' = [x \in Users |-> IF x = v THEN role ELSE IF x \in demoted THEN "co" ELSE rep[x]]
    /\ seats' = seats \ (demoted \cup (IF role = "lead" THEN {v} ELSE {}))
    /\ IF role = "lead" /\ rep[v] # "lead" THEN pin' = FALSE /\ hold' = FALSE ELSE UNCHANGED <<pin, hold>>
    /\ Start(h, IF demoted = {} THEN Idle ELSE [at |-> "sweep"])
    /\ UNCHANGED <<inactive, mode, signing, interrupts>>

\* Mutant: what waits for signatures is left waiting.
CancelWaiting_None(h) ==
    /\ call[h].at = "sweep"
    /\ Goto(h, Idle)
    /\ UNCHANGED <<team, security, signing, bounds>>

(* After a change of lead: whatever waits for signatures is cancelled.      *)
CancelWaiting(h) ==
    /\ call[h].at = "sweep"
    /\ Cancelled(Payouts)
    /\ Goto(h, Idle)
    /\ UNCHANGED <<team, security, decision, bounds>>

(* Admins suspend and reinstate accounts; users delete theirs.              *)
Suspend(h, u) ==
    /\ call[h] = Idle /\ Change
    /\ inactive' \in {inactive \cup {u}, inactive \ {u}} \ {inactive}
    /\ UNCHANGED <<rep, seats, security, signing, call, interrupts>>

-----------------------------------------------------------------------------
(* Withdrawal security                                                     *)

(* PUT /payout/signatories: active co-reps, two of them in multisig mode.   *)
SetSignatories(h, u, wanted) ==
    /\ Change
    /\ Leading(u)
    /\ \A v \in wanted : rep[v] = "co" /\ v \notin inactive
    /\ Cardinality(wanted) <= REQUIRED_SIGNATORIES - 1
    /\ mode = "multisig" => Cardinality(wanted) = REQUIRED_SIGNATORIES - 1
    /\ wanted # {v \in seats : rep[v] = "co"}
    /\ Start(h, [at |-> "seats", wanted |-> wanted, hold |-> mode = "multisig"])
    /\ UNCHANGED <<team, security, signing, interrupts>>

WriteSeats(h) ==
    /\ call[h].at = "seats"
    /\ seats' = {v \in call[h].wanted : rep[v] # "none"}
    /\ hold' = (hold \/ call[h].hold)
    /\ Goto(h, Idle)
    /\ UNCHANGED <<rep, inactive, mode, pin, signing, bounds>>

\* Mutant: turning approvals on writes no hold.
SetWithdrawalAuthMode_NoHold(h, u, m) ==
    /\ Change
    /\ Leading(u) /\ mode # m
    /\ m = "multisig" => Cardinality(Signatories) >= REQUIRED_SIGNATORIES
    /\ Start(h, [at |-> "mode", mode |-> m, hold |-> m = "pin"])
    /\ UNCHANGED <<team, security, signing, interrupts>>

(* PUT /payout/security: the hold to write is settled when the row is read. *)
SetWithdrawalAuthMode(h, u, m) ==
    /\ Change
    /\ Leading(u) /\ mode # m
    /\ m = "multisig" => Cardinality(Signatories) >= REQUIRED_SIGNATORIES
    /\ Start(h, [at |-> "mode", mode |-> m, hold |-> m = "pin" \/ hold])
    /\ UNCHANGED <<team, security, signing, interrupts>>

WriteMode(h) ==
    /\ call[h].at = "mode"
    /\ mode' = call[h].mode /\ hold' = call[h].hold
    /\ Goto(h, Idle)
    /\ UNCHANGED <<team, pin, signing, bounds>>

(* PUT /payout/pin and POST /payout/pin/reset (forgot).                     *)
SetWithdrawalPin(h, u, forgot) ==
    /\ Change
    /\ Leading(u)
    /\ Start(h, [at |-> "pin", hold |-> hold \/ (forgot /\ pin)])
    /\ UNCHANGED <<team, security, signing, interrupts>>

WritePin(h) ==
    /\ call[h].at = "pin"
    /\ pin' = TRUE /\ hold' = call[h].hold
    /\ Goto(h, Idle)
    /\ UNCHANGED <<team, mode, signing, bounds>>

(* DELETE /admin/spaces/:spaceId/withdrawal-pin                             *)
ClearPin(h) ==
    /\ call[h] = Idle /\ Change
    /\ pin' = FALSE /\ hold' = FALSE
    /\ UNCHANGED <<team, mode, signing, call, interrupts>>

(* 24 hours pass; not while a request that read the hold is about to write  *)
(* it back, which would write a date in the past.                           *)
HoldExpires ==
    /\ hold
    /\ \A h \in Handlers : call[h].at \in {"mode", "pin"} => ~call[h].hold
    /\ hold' = FALSE
    /\ UNCHANGED <<team, mode, pin, signing, call, bounds>>

(* The process dies between two steps of a handler.                         *)
Interrupt(h) ==
    /\ call[h] # Idle
    /\ interrupts < MaxInterrupts
    /\ interrupts' = interrupts + 1
    /\ Goto(h, Idle)
    /\ UNCHANGED <<team, security, signing, changes>>

-----------------------------------------------------------------------------
Ask(h) ==
    \E u \in Users :
        \/ RequestWithdrawal(h, u)
        \/ \E p \in Payouts : SendApprovalOtp(h, p, u) \/ ApprovePayout(h, p, u) \/ RejectPayout(h, p, u)

Manage(h) ==
    \/ \E u, v \in Users : AddRep(h, u, v) \/ RemoveRep(h, u, v) \/ TransferLead(h, u, v)
    \/ \E v \in Users, role \in AdminRoles : AssignRep(h, v, role)
    \/ \E u \in Users, wanted \in SUBSET Users : SetSignatories(h, u, wanted)
    \/ \E u \in Users, m \in {"pin", "multisig"} : SetWithdrawalAuthMode(h, u, m)
    \/ \E u \in Users, forgot \in BOOLEAN : SetWithdrawalPin(h, u, forgot)
    \/ \E u \in Users : Suspend(h, u)
    \/ ClearPin(h)

Continue(h) ==
    \/ CreatePayout(h) \/ AnnounceForApproval(h) \/ StoreOtp(h) \/ CastApproval(h)
    \/ RecordRejection(h) \/ CancelPayout(h)
    \/ DeleteRep(h) \/ HandOver(h) \/ CancelWaiting(h)
    \/ WriteSeats(h) \/ WriteMode(h) \/ WritePin(h)

Step ==
    \/ \E h \in Handlers : Ask(h) \/ Manage(h) \/ Continue(h) \/ Interrupt(h)
    \/ \E h \in Handlers, p \in Payouts : ExpireStaleApprovals(h, p)
    \/ \E p \in Payouts : WindowPasses(p) \/ Ends(p) \/ \E u \in Users : LoseOtp(p, u)
    \/ HoldExpires

(* Where a handler goes by what it has read of the team and of the hold.    *)
Relying == {"create", "sign", "transfer", "remove", "mode", "pin"}

(* history: the handlers that go by what they read, and since then another  *)
(* one has changed the team or started a hold.                              *)
Overtaken ==
    {h \in Handlers :
        /\ call'[h].at \in Relying
        /\ h \in overtaken \/ (call'[h] = call[h] /\ (team' # team \/ (hold' /\ ~hold)))}

Next == Step /\ overtaken' = Overtaken

Spec == Init /\ [][Next]_vars

(* Handlers run on unless interrupted, time passes, and the reconciliation  *)
(* job takes up a row that stays overdue again and again.  Nobody has to    *)
(* sign.                                                                    *)
Fairness ==
    /\ \A h \in Handlers : WF_state(Continue(h))
    /\ \A p \in Payouts : WF_state(WindowPasses(p))
    /\ \A h \in Handlers, p \in Payouts : SF_state(ExpireStaleApprovals(h, p))

FairSpec == Spec /\ Fairness
-----------------------------------------------------------------------------
(* Properties                                                              *)

Released(p) == payout[p].needsApproval /\ payout[p].status \in {"pending", "closed"}

(* A withdrawal that needed approval leaves only after two different people *)
(* have recorded a decision on it, whatever raced with the second one.      *)
ReleasedByTwo ==
    \A p \in Payouts :
        Released(p) => Cardinality({u \in Users : decision[<<p, u>>] # "none"}) >= REQUIRED_APPROVALS

(* A cancelled withdrawal is never released nor a released one cancelled,   *)
(* and a rejection is never turned into an approval, in any interleaving of *)
(* approvals, rejections, expiry and changes of lead.                       *)
DecisionsAreFinal ==
    [][/\ \A p \in Payouts :
             /\ payout[p].status = "cancelled" => payout'[p].status = "cancelled"
             /\ Released(p) => payout'[p].status \in {"pending", "closed"}
       /\ \A pu \in Payouts \X Users : decision[pu] = "rejected" => decision'[pu] = "rejected"]_vars

(* "Only current signatories count: a signature from someone since replaced *)
(* doesn't" (approvePayout): when a withdrawal is released, two of those    *)
(* who signed it are signatories at that moment, unless another request     *)
(* changed the team after the last of them was checked (line 118, before    *)
(* the transaction).                                                        *)
CurrentSignatoriesCount ==
    [][\A p \in Payouts :
          Waiting(p) /\ payout'[p].status = "pending" =>
              \/ Cardinality({u \in Signatories : decision'[<<p, u>>] = "approved"}) >= REQUIRED_APPROVALS
              \/ \E h \in overtaken : call[h].at = "sign" /\ call[h].p = p /\ CastApproval(h)]_vars

(* "A space has exactly one lead: assigning a new one demotes the old"      *)
(* (assign-rep).                                                            *)
OneLead == Cardinality(Leads) = 1

(* The lead is lost, or there come to be two, only when a handover or a     *)
(* removal goes by roles that were changed after it read them, or an admin  *)
(* assigns the lead as co-rep.                                              *)
LeadStays ==
    [][OneLead /\ ~OneLead' =>
          \/ \E h \in overtaken : HandOver(h) \/ DeleteRep(h)
          \/ \E h \in Handlers, v \in Leads : AssignRep(h, v, "co")]_vars

(* "A withdrawal still waiting for signatures would pay out of the old      *)
(* lead's account" (transfer-lead): once the handler that changed the lead  *)
(* is through, what waits pays from a current lead's account.               *)
WaitingPaysFromLead ==
    (\A h \in Handlers : call[h].at # "sweep") =>
        \A p \in Payouts : Waiting(p) => payout[p].account \in Leads

(* It does, as long as there is one lead, until a request is created on a   *)
(* lead who was replaced after it was read, or the sweep is cut short.      *)
WaitingGoesOnPayingLead ==
    [][OneLead /\ OneLead' /\ WaitingPaysFromLead /\ ~WaitingPaysFromLead' =>
          \/ \E h \in overtaken : CreatePayout(h)
          \/ \E h \in Handlers : call[h].at = "sweep" /\ Interrupt(h)]_vars

(* "Any signatory can reject it and the requester can withdraw it; either   *)
(* cancels it" (withdrawalApproval.service.ts): what was rejected is        *)
(* cancelled, or still waits for the handler that is about to.              *)
RejectionCancels(p, u) ==
    decision[<<p, u>>] = "rejected" =>
        \/ payout[p].status = "cancelled"
        \/ Waiting(p) /\ \E h \in Handlers : call[h] = [at |-> "cancel", p |-> p]

(* A rejection comes to nothing only when the last signature lands before   *)
(* it, or between it and the cancellation (which are two transactions), or  *)
(* the handler dies between them.                                           *)
RejectionsCount ==
    [][\A p \in Payouts, u \in Users :
          RejectionCancels(p, u) /\ ~RejectionCancels(p, u)' =>
              \E h \in Handlers :
                  \/ ~Waiting(p) /\ call[h] = [at |-> "reject", p |-> p, u |-> u]
                  \/ call[h] = [at |-> "cancel", p |-> p] /\ (Interrupt(h) \/ payout'[p].status = "pending")]_vars

(* A space keeps one lead, what waits for signatures pays that lead, and    *)
(* what was rejected is cancelled, in any interleaving but for those named. *)
LeadIsSound ==
    /\ LeadStays
    /\ WaitingGoesOnPayingLead
    /\ RejectionsCount

(* "so a multisig space keeps its three signatories through the handover"   *)
(* (transfer-lead): handing over the lead keeps the number of seats, unless *)
(* the team was changed after the handler read it.                          *)
HandoverKeepsSeats ==
    [][\A h \in Handlers \ overtaken :
          call[h].at = "transfer" /\ call'[h].at = "sweep" =>
              Cardinality(Leads' \cup seats') = Cardinality(Leads \cup seats)]_vars

(* "Withdrawals reopen 24 hours after the change" (verifyAuthorisation): no *)
(* sequence of settings changes shortens a hold.  It ends by time, when an  *)
(* admin clears the code, when the lead changes (CLEARED_PIN, which also    *)
(* lifts a hold that had nothing to do with the code), or when a handover   *)
(* or a change of the settings that was overtaken writes it away.           *)
HoldLasts ==
    [][hold /\ ~hold' =>
          \/ HoldExpires \/ Leads' # Leads
          \/ \E h \in Handlers : ClearPin(h)
          \/ \E h \in overtaken : HandOver(h) \/ WriteMode(h) \/ WritePin(h)]_vars

(* No sequence of changes to the team and its settings loses a seat in a    *)
(* handover or shortens a hold, but by a write that was overtaken.          *)
ChangesAreSafe ==
    /\ HandoverKeepsSeats
    /\ HoldLasts

(* A withdrawal does not wait for signatures for ever: it is released, or   *)
(* cancelled once its window has passed.                                    *)
EventuallyDecided == \A p \in Payouts : Waiting(p) ~> ~Waiting(p)
=============================================================================
