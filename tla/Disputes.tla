------------------------------ MODULE Disputes ------------------------------
(***************************************************************************)
(* One dispute, filed by a user and decided by an admin:                   *)
(* routes/disputes.ts and the dispute handlers of routes/admin.ts.  What   *)
(* the dispute is about and the note with a decision are left out.         *)
(***************************************************************************)
CONSTANTS Admins, NoAdmin

ASSUME DisputesAssumption == NoAdmin \notin Admins

VARIABLES dispute,   \* the row
          acall,     \* each admin's request
          stale      \* history: a claim had read the dispute when it was resolved

disputeVars == <<dispute, acall, stale>>

Decisions == {"upheld", "rejected"}

Dispute == [status : {"none", "open", "under_review", "resolved"},
            claimedById : Admins \cup {NoAdmin},
            resolution : Decisions \cup {"none"}]

AdminCall == [at : {"idle", "claim"}] \cup [at : {"resolve"}, resolution : Decisions]

AtEase == [at |-> "idle"]

DisputesTypeOK ==
    /\ dispute \in Dispute
    /\ acall \in [Admins -> AdminCall]
    /\ stale \in BOOLEAN
    /\ dispute.status = "under_review" => dispute.claimedById \in Admins

DisputesInit ==
    /\ dispute = [status |-> "none", claimedById |-> NoAdmin, resolution |-> "none"]
    /\ acall = [a \in Admins |-> AtEase]
    /\ stale = FALSE

AdminTo(a, next) == acall' = [acall EXCEPT ![a] = next]

-----------------------------------------------------------------------------
(* POST /disputes, about a transaction of the caller's own.                 *)
FileDispute ==
    /\ dispute.status = "none"
    /\ dispute' = [dispute EXCEPT !.status = "open"]
    /\ UNCHANGED <<acall, stale>>

(* POST /admin/disputes/:id/claim: the dispute is read, and is not resolved; *)
(* another admin's claim does not matter.                                   *)
ClaimDispute(a) ==
    /\ dispute.status \in {"open", "under_review"} /\ acall[a] = AtEase
    /\ AdminTo(a, [at |-> "claim"])
    /\ UNCHANGED <<dispute, stale>>

\* Mutant: who claimed it is not recorded.
WriteClaim_Anonymous(a) ==
    /\ acall[a].at = "claim"
    /\ dispute' = [dispute EXCEPT !.status = "under_review"]
    /\ AdminTo(a, AtEase)
    /\ UNCHANGED stale

(* Whatever it has become meanwhile, it is under review.                    *)
WriteClaim(a) ==
    /\ acall[a].at = "claim"
    /\ dispute' = [dispute EXCEPT !.status = "under_review", !.claimedById = a]
    /\ AdminTo(a, AtEase)
    /\ UNCHANGED stale

(* POST /admin/disputes/:id/resolve, claimed or not: it exists,             *)
ResolveDispute(a) ==
    /\ dispute.status # "none" /\ acall[a] = AtEase
    /\ \E r \in Decisions : AdminTo(a, [at |-> "resolve", resolution |-> r])
    /\ UNCHANGED <<dispute, stale>>

Resolved(a) ==
    /\ dispute' = [dispute EXCEPT !.status = "resolved", !.resolution = acall[a].resolution]
    /\ stale' = (stale \/ \E b \in Admins : acall[b].at = "claim")

\* Mutant: the dispute is updated by its id alone.
WriteResolution_Unconditional(a) ==
    /\ acall[a].at = "resolve"
    /\ Resolved(a)
    /\ AdminTo(a, AtEase)

(* and the update is conditional; of two admins the later one gets a 409.   *)
WriteResolution(a) ==
    /\ acall[a].at = "resolve"
    /\ IF dispute.status # "resolved" THEN Resolved(a) ELSE UNCHANGED <<dispute, stale>>
    /\ AdminTo(a, AtEase)

(* The process dies.                                                        *)
AdminInterrupt(a) ==
    /\ acall[a] # AtEase
    /\ AdminTo(a, AtEase)
    /\ UNCHANGED <<dispute, stale>>

DisputesNext ==
    \/ FileDispute
    \/ \E a \in Admins : \/ ClaimDispute(a) \/ WriteClaim(a) \/ ResolveDispute(a)
                         \/ WriteResolution(a) \/ AdminInterrupt(a)

DisputesSpec == DisputesInit /\ [][DisputesNext]_disputeVars

-----------------------------------------------------------------------------
(* "Conditional update so two admins can't both resolve the same dispute"   *)
(* (POST /admin/disputes/:id/resolve): the decision the user was told is    *)
(* never replaced, in any order of claims and decisions but one: a claim    *)
(* that had read the dispute before it was resolved opens it again.         *)
DecidedOnce ==
    [][dispute.resolution # "none" => stale \/ dispute'.resolution = dispute.resolution]_disputeVars
=============================================================================
