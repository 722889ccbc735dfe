----------------------------- MODULE Onboarding -----------------------------
(***************************************************************************)
(* One rep applicant: the identity check at Bachs, the student ID card an  *)
(* admin reviews, and the application itself.  services/kyc.service.ts     *)
(* with the routes of kycHandlers.ts, the identity calls of BachsProvider, *)
(* and the reviews, the approval and the rejection in routes/admin.ts.     *)
(*                                                                         *)
(* A handler reads the row, talks to the file store or to Bachs, and       *)
(* writes the row later without looking at it again: call[h] holds what it *)
(* read.  Bachs is external; the webhook queue delivers its identity       *)
(* events at least once (WebhookQueue).                                    *)
(***************************************************************************)
EXTENDS Naturals

CONSTANTS Reps,          \* handlers of the applicant, of admins and webhooks
          Files, NoFile,
          MaxRefusals,   \* bound on submissions Bachs refuses
          MaxOverlapAttempts

ASSUME OnboardingAssumption == NoFile \notin Files /\ MaxRefusals \in Nat /\ MaxOverlapAttempts \in Nat

MAX_KYC_ATTEMPTS == 3

VARIABLES row,       \* the applicant's row of the users table
          bachs,     \* the provider's side (external)
          event,     \* an identity.updated event is to be processed
          stored,    \* the files in private storage that the rest refers to
          rcall,     \* the handlers
          hist       \* history, for the properties

onboardingVars == <<row, bachs, event, stored, rcall, hist>>

-----------------------------------------------------------------------------
Verdicts == {"pending", "verified", "rejected"}

Row == [application : {"pending", "approved", "rejected"}, isRep : BOOLEAN,
        spaces : 0..2,                         \* created by an approval
        kycStatus : Verdicts \cup {"unverified"},
        person : BOOLEAN,                      \* bachsAccountId, bachsPersonId
        payoutsActive : BOOLEAN,
        kycAttempts : 0..MaxRefusals, locked : BOOLEAN,
        studentId : {"none", "pending", "approved", "rejected"},
        studentIdFile : Files \cup {NoFile}]

(* The persons and the verdict on the applicant's account.                  *)
Bachs == [persons : 0..2, verdict : Verdicts, payouts : BOOLEAN]

(* overlap: two handlers ran at once, and the rest is no longer recorded.   *)
(* seen: the card an admin was shown last.  last: who wrote kycStatus last. *)
(* refusals: submissions refused since Bachs last verified.                 *)
Hist == [overlap : BOOLEAN, seen : Files \cup {NoFile}, last : {"bachs", "refusal", "admin"},
         refusals : 0..MaxRefusals]

(* What refreshIdentity reads.                                              *)
Read == [kycStatus : Verdicts \cup {"unverified"}, payoutsActive : BOOLEAN,
         kycAttempts : 0..MaxRefusals, locked : BOOLEAN]

(* Where a handler stands:                                                  *)
(* store     submitKyc or resubmitStudentId, about to store the card f      *)
(* find      about to look for the representative at Bachs                  *)
(* send      about to send the person's details                             *)
(* failed    the details were refused                                       *)
(* write     about to write the submission                                  *)
(* card      about to write the replaced card                               *)
(* discard   about to delete the file f                                     *)
(* refresh   about to enter refreshIdentity                                 *)
(* ask       in it, about to ask Bachs                                      *)
(* apply     about to write its answer                                      *)
(* review, approve, reject   an admin's decision, about to be written       *)
RepCall ==
    [at : {"idle", "refresh", "reject"}]
    \cup [at : {"store"}, what : {"kyc", "card"}, old : Files \cup {NoFile}, attempts : 0..MaxRefusals, found : BOOLEAN]
    \cup [at : {"find", "send"}, f : Files, old : Files \cup {NoFile}, attempts : 0..MaxRefusals, found : BOOLEAN]
    \cup [at : {"failed"}, attempts : 0..MaxRefusals]
    \cup [at : {"write"}, f : Files, old : Files \cup {NoFile}, verdict : Verdicts, payouts : BOOLEAN]
    \cup [at : {"card"}, f : Files, old : Files \cup {NoFile}]
    \cup [at : {"discard"}, f : Files]
    \cup [at : {"ask"}, read : Read]
    \cup [at : {"apply"}, read : Read, verdict : Verdicts, payouts : BOOLEAN]
    \cup [at : {"review"}, decision : {"approved", "rejected"}]
    \cup [at : {"approve"}, pendingCard : BOOLEAN]

RepIdle == [at |-> "idle"]

OnboardingTypeOK ==
    /\ row \in Row /\ bachs \in Bachs /\ event \in BOOLEAN
    /\ stored \subseteq Files
    /\ rcall \in [Reps -> RepCall]
    /\ hist \in Hist
    /\ row.studentId = "none" <=> row.studentIdFile = NoFile

NoHist == [overlap |-> FALSE, seen |-> NoFile, last |-> "bachs", refusals |-> 0]

(* A rep application was filed at sign-up (Sessions).                       *)
OnboardingInit ==
    /\ row = [application |-> "pending", isRep |-> FALSE, spaces |-> 0, kycStatus |-> "unverified",
              person |-> FALSE, payoutsActive |-> FALSE, kycAttempts |-> 0, locked |-> FALSE,
              studentId |-> "none", studentIdFile |-> NoFile]
    /\ bachs = [persons |-> 0, verdict |-> "pending", payouts |-> FALSE]
    /\ event = FALSE
    /\ stored = {}
    /\ rcall = [h \in Reps |-> RepIdle]
    /\ hist = NoHist

RepGoto(h, next) == rcall' = [rcall EXCEPT ![h] = next]

(* history: record next, unless handlers have overlapped.                   *)
Record(next) == hist' = IF hist.overlap THEN hist ELSE next

(* A behaviour is followed up to the first two handlers that overlap: no    *)
(* third one begins after them, and they overlap while at most              *)
(* MaxOverlapAttempts submissions have failed (the bounds on this module).  *)
Began(h, next) ==
    /\ ~hist.overlap
    /\ IF \E g \in Reps \ {h} : rcall[g] # RepIdle
       THEN row.kycAttempts <= MaxOverlapAttempts /\ hist' = [NoHist EXCEPT !.overlap = TRUE]
       ELSE hist' = next

(* A handler begins.                                                        *)
RepStart(h, next) ==
    /\ rcall[h] = RepIdle
    /\ RepGoto(h, next)

Shown == [hist EXCEPT !.seen = row.studentIdFile]

isRepOrApplicant == row.isRep \/ row.application \in {"pending", "approved"}

-----------------------------------------------------------------------------
(* Submitting                                                              *)

(* What both kinds of submission read.                                      *)
Submission(what) ==
    [at |-> "store", what |-> what, old |-> row.studentIdFile, attempts |-> row.kycAttempts, found |-> row.person]

(* submitKyc: what it refuses.                                              *)
SubmitKyc(h) ==
    /\ isRepOrApplicant
    /\ row.kycStatus # "verified"
    /\ ~(row.kycStatus = "pending" /\ row.person)
    /\ ~row.locked
    /\ RepStart(h, Submission("kyc")) /\ Began(h, hist)
    /\ UNCHANGED <<row, bachs, event, stored>>

(* resubmitStudentId: what it refuses.                                      *)
ResubmitStudentId(h) ==
    /\ isRepOrApplicant
    /\ row.studentId \notin {"approved", "pending"}
    /\ RepStart(h, Submission("card")) /\ Began(h, hist)
    /\ UNCHANGED <<row, bachs, event, stored>>

(* The files that the row or a handler of R refers to.  Any other file,     *)
(* deleted or left behind, makes no more difference, and its name is taken  *)
(* again.                                                                   *)
Referenced(R) ==
    {row.studentIdFile} \cup UNION {{rcall[g][c] : c \in {"f", "old"} \cap DOMAIN rcall[g]} : g \in R}

NewName(f) == f \notin stored \cup Referenced(Reps)

(* storeStudentId, which may fail and end the request.                      *)
StoreStudentId(h) ==
    /\ rcall[h].at = "store"
    /\ \/ \E f \in Files :
             /\ NewName(f)
             /\ stored' = stored \cup {f}
             /\ Record([hist EXCEPT !.seen = IF @ = f THEN NoFile ELSE @])
             /\ RepGoto(h, IF rcall[h].what = "card" THEN [at |-> "card", f |-> f, old |-> rcall[h].old]
                           ELSE [at |-> "find", f |-> f, old |-> rcall[h].old,
                                 attempts |-> rcall[h].attempts, found |-> rcall[h].found])
       \/ RepGoto(h, RepIdle) /\ UNCHANGED <<stored, hist>>
    /\ UNCHANGED <<row, bachs, event>>

\* Mutant: the representative is not looked for.
FindRepresentative_Skipped(h) ==
    /\ rcall[h].at = "find"
    /\ RepGoto(h, [rcall[h] EXCEPT !.at = "send"])
    /\ UNCHANGED <<row, bachs, event, stored, hist>>

(* verifyIdentity: the account is there or is created under the user's own  *)
(* idempotency key; the representative is the one on the row, or is looked  *)
(* for.                                                                     *)
FindRepresentative(h) ==
    /\ rcall[h].at = "find"
    /\ RepGoto(h, [rcall[h] EXCEPT !.at = "send", !.found = @ \/ bachs.persons > 0])
    /\ UNCHANGED <<row, bachs, event, stored, hist>>

(* The details are sent, for the person found or as a new one: a 4xx, to    *)
(* them or to the read of the verdict that follows; lost, before or after   *)
(* they took effect; or taken, with the verdict of the moment.  The stored  *)
(* card is discarded, best effort, unless they were taken.                  *)
SendPerson(h) ==
    LET taken == [bachs EXCEPT !.persons = IF rcall[h].found THEN @ ELSE @ + 1]
    IN  /\ rcall[h].at = "send"
        /\ \/ /\ rcall[h].attempts < MaxRefusals
              /\ bachs' \in {bachs, taken}
              /\ stored' = stored \cap Referenced(Reps \ {h})
              /\ RepGoto(h, [at |-> "failed", attempts |-> rcall[h].attempts])
           \/ /\ bachs' \in {bachs, taken}
              /\ RepGoto(h, [at |-> "discard", f |-> rcall[h].f])
              /\ UNCHANGED stored
           \/ /\ bachs' = taken
              /\ RepGoto(h, [at |-> "write", f |-> rcall[h].f, old |-> rcall[h].old,
                             verdict |-> bachs.verdict, payouts |-> bachs.payouts])
              /\ UNCHANGED stored
        /\ UNCHANGED <<row, event, hist>>

\* Mutant: the fourth failed attempt locks.
Locks_Late(attempts) == attempts > MAX_KYC_ATTEMPTS

Locks(attempts) == attempts >= MAX_KYC_ATTEMPTS

(* recordFailedAttempt counts from what submitKyc read.                     *)
RecordFailedAttempt(h) ==
    LET attempts == rcall[h].attempts + 1 IN
    /\ rcall[h].at = "failed"
    /\ row' = [row EXCEPT !.kycAttempts = attempts, !.kycStatus = "rejected", !.locked = Locks(attempts)]
    /\ Record([hist EXCEPT !.last = "refusal", !.refusals = @ + 1])
    /\ RepGoto(h, RepIdle)
    /\ UNCHANGED <<bachs, event, stored>>

(* On to the removal of a file, if there is one.                            *)
Discarding(f) == IF f = NoFile THEN RepIdle ELSE [at |-> "discard", f |-> f]

\* Mutant: the review of the previous card stands.
WriteSubmission_KeepsReview(h) ==
    /\ rcall[h].at = "write"
    /\ row' = [row EXCEPT !.person = TRUE, !.kycStatus = rcall[h].verdict, !.payoutsActive = rcall[h].payouts,
                          !.studentId = IF @ = "none" THEN "pending" ELSE @, !.studentIdFile = rcall[h].f]
    /\ Record([hist EXCEPT !.last = "bachs"])
    /\ RepGoto(h, Discarding(rcall[h].old))
    /\ UNCHANGED <<bachs, event, stored>>

\* Mutant: the file on the row is discarded, once the new one is there.
WriteSubmission_DiscardsNew(h) ==
    /\ rcall[h].at = "write"
    /\ row' = [row EXCEPT !.person = TRUE, !.kycStatus = rcall[h].verdict, !.payoutsActive = rcall[h].payouts,
                          !.studentId = "pending", !.studentIdFile = rcall[h].f]
    /\ Record([hist EXCEPT !.last = "bachs"])
    /\ RepGoto(h, Discarding(row'.studentIdFile))
    /\ UNCHANGED <<bachs, event, stored>>

(* The last write of submitKyc; the card awaits review again, and the file  *)
(* that was on the row when the request began is discarded.                 *)
WriteSubmission(h) ==
    /\ rcall[h].at = "write"
    /\ row' = [row EXCEPT !.person = TRUE, !.kycStatus = rcall[h].verdict, !.payoutsActive = rcall[h].payouts,
                          !.studentId = "pending", !.studentIdFile = rcall[h].f]
    /\ Record([hist EXCEPT !.last = "bachs"])
    /\ RepGoto(h, Discarding(rcall[h].old))
    /\ UNCHANGED <<bachs, event, stored>>

\* Mutant: the status of the replaced card stands.
WriteCard_KeepsStatus(h) ==
    /\ rcall[h].at = "card"
    /\ row' = [row EXCEPT !.studentIdFile = rcall[h].f]
    /\ RepGoto(h, Discarding(rcall[h].old))
    /\ UNCHANGED <<bachs, event, stored, hist>>

(* The write of resubmitStudentId.                                          *)
WriteCard(h) ==
    /\ rcall[h].at = "card"
    /\ row' = [row EXCEPT !.studentId = "pending", !.studentIdFile = rcall[h].f]
    /\ RepGoto(h, Discarding(rcall[h].old))
    /\ UNCHANGED <<bachs, event, stored, hist>>

(* discardFile, best effort.                                                *)
DiscardFile(h) ==
    /\ rcall[h].at = "discard"
    /\ \E left \in {stored, stored \ {rcall[h].f}} : stored' = left \cap Referenced(Reps \ {h})
    /\ RepGoto(h, RepIdle)
    /\ UNCHANGED <<row, bachs, event, hist>>

-----------------------------------------------------------------------------
(* What Bachs decides                                                      *)

(* Bachs changes its mind, or activates payouts, and announces it.  (After  *)
(* an overlap its decisions are no longer followed: same bound.)            *)
BachsDecides ==
    /\ ~hist.overlap
    /\ bachs.persons > 0
    /\ \E v \in Verdicts, p \in BOOLEAN :
          /\ bachs' = [bachs EXCEPT !.verdict = v, !.payouts = p]
          /\ bachs' # bachs
    /\ event' = TRUE
    /\ UNCHANGED <<row, stored, rcall, hist>>

(* The webhook, and POST /kyc/payout-destination once Bachs has the bank    *)
(* account: both re-read the identity.                                      *)
IdentityEvent(h) ==
    /\ event
    /\ event' = FALSE
    /\ RepStart(h, [at |-> "refresh"]) /\ Began(h, hist)
    /\ UNCHANGED <<row, bachs, stored>>

SubmitPayoutDestination(h) ==
    /\ row.person
    /\ RepStart(h, [at |-> "refresh"]) /\ Began(h, hist)
    /\ UNCHANGED <<row, bachs, event, stored>>

(* refreshIdentity: an account that is not on the row is unknown;           *)
RefreshIdentity(h) ==
    /\ rcall[h].at = "refresh"
    /\ RepGoto(h, IF row.person THEN [at |-> "ask", read |-> [kycStatus |-> row.kycStatus, payoutsActive |-> row.payoutsActive,
                                         kycAttempts |-> row.kycAttempts, locked |-> row.locked]]
                  ELSE RepIdle)
    /\ UNCHANGED <<row, bachs, event, stored, hist>>

\* Mutant: only the verdict is compared.
Unchanged_Verdict(read) == bachs.verdict = read.kycStatus

(* no news for the row that was read;                                       *)
Unchanged(read) == bachs.verdict = read.kycStatus /\ bachs.payouts = read.payoutsActive

(* the answer, compared with it (or there is news in the requirements,      *)
(* which are not modelled);                                                 *)
GetIdentityStatus(h) ==
    LET read == rcall[h].read IN
    /\ rcall[h].at = "ask"
    /\ \/ Unchanged(read) /\ RepGoto(h, RepIdle)
       \/ RepGoto(h, [at |-> "apply", read |-> read, verdict |-> bachs.verdict, payouts |-> bachs.payouts])
    /\ UNCHANGED <<row, bachs, event, stored, hist>>

(* and the write, over whatever the row says by then.  A new rejection is a *)
(* failed attempt.                                                          *)
ApplyVerdict(h) ==
    LET read == rcall[h].read
        verdict == rcall[h].verdict
        becameRejected == verdict = "rejected" /\ read.kycStatus # "rejected"
        attempts == IF becameRejected THEN read.kycAttempts + 1 ELSE read.kycAttempts
    IN  /\ rcall[h].at = "apply"
        /\ attempts <= MaxRefusals
        /\ row' = [row EXCEPT !.kycStatus = verdict, !.payoutsActive = rcall[h].payouts,
                              !.kycAttempts = IF verdict = "verified" THEN 0 ELSE attempts,
                              !.locked = IF becameRejected /\ Locks(attempts) THEN TRUE ELSE read.locked]
        /\ Record([hist EXCEPT !.last = "bachs", !.refusals = IF verdict = "verified" THEN 0 ELSE @])
        /\ RepGoto(h, RepIdle)
        /\ UNCHANGED <<bachs, event, stored>>

(* KYC_RETRY_LOCK_MS passes; not under a request that read the lock, which  *)
(* would write a date in the past.                                          *)
LockPasses ==
    /\ row.locked
    /\ \A h \in Reps : rcall[h].at \in {"ask", "apply"} => ~rcall[h].read.locked
    /\ row' = [row EXCEPT !.locked = FALSE]
    /\ UNCHANGED <<bachs, event, stored, rcall, hist>>

-----------------------------------------------------------------------------
(* Administrators                                                          *)

(* POST /admin/users/:userId/kyc/review                                     *)
RevokeKyc(h) ==
    /\ rcall[h] = RepIdle
    /\ row' = [row EXCEPT !.kycStatus = "rejected"]
    /\ Began(h, [hist EXCEPT !.last = "admin"])
    /\ UNCHANGED <<bachs, event, stored, rcall>>

(* reviewStudentId: the card that awaits review,                            *)
ReviewStudentId(h, decision) ==
    /\ row.studentId = "pending"
    /\ RepStart(h, [at |-> "review", decision |-> decision]) /\ Began(h, Shown)
    /\ UNCHANGED <<row, bachs, event, stored>>

(* and the decision, on whichever card is there by then.                    *)
WriteReview(h) ==
    /\ rcall[h].at = "review"
    /\ row' = [row EXCEPT !.studentId = rcall[h].decision]
    /\ RepGoto(h, RepIdle)
    /\ UNCHANGED <<bachs, event, stored, hist>>

\* Mutant: an application that was decided can be approved.
VerifyRep_Decided(h) ==
    /\ row.kycStatus = "verified"
    /\ row.studentId \in {"pending", "approved"}
    /\ RepStart(h, [at |-> "approve", pendingCard |-> row.studentId = "pending"]) /\ Began(h, Shown)
    /\ UNCHANGED <<row, bachs, event, stored>>

(* POST /admin/reps/:repId/verify: the checks,                              *)
VerifyRep(h) ==
    /\ row.application = "pending"
    /\ row.kycStatus = "verified"
    /\ row.studentId \in {"pending", "approved"}
    /\ RepStart(h, [at |-> "approve", pendingCard |-> row.studentId = "pending"]) /\ Began(h, Shown)
    /\ UNCHANGED <<row, bachs, event, stored>>

(* and the transaction: the space with its lead, and the card approved with *)
(* the application.  (The partner code is redeemed afterwards: Partners.)   *)
ApproveApplication(h) ==
    /\ rcall[h].at = "approve"
    /\ row.spaces < 2
    /\ row' = [row EXCEPT !.application = "approved", !.isRep = TRUE, !.spaces = @ + 1,
                          !.studentId = IF rcall[h].pendingCard THEN "approved" ELSE @]
    /\ RepGoto(h, RepIdle)
    /\ UNCHANGED <<bachs, event, stored, hist>>

(* POST /admin/reps/:repId/reject                                           *)
RejectRep(h) ==
    /\ row.application = "pending"
    /\ RepStart(h, [at |-> "reject"]) /\ Began(h, hist)
    /\ UNCHANGED <<row, bachs, event, stored>>

RejectApplication(h) ==
    /\ rcall[h].at = "reject"
    /\ row' = [row EXCEPT !.application = "rejected"]
    /\ RepGoto(h, RepIdle)
    /\ UNCHANGED <<bachs, event, stored, hist>>

(* Made a rep of an existing space (POST /reps, assign-rep), KYC or not.    *)
AttachRep(h) ==
    /\ rcall[h] = RepIdle
    /\ ~row.isRep
    /\ row' = [row EXCEPT !.application = "approved", !.isRep = TRUE]
    /\ Began(h, hist)
    /\ UNCHANGED <<bachs, event, stored, rcall>>

(* The process dies in a handler; the queue delivers the event again.       *)
RepInterrupt(h) ==
    /\ rcall[h] # RepIdle
    /\ RepGoto(h, RepIdle)
    /\ event' = (event \/ rcall[h].at \in {"refresh", "ask", "apply"})
    /\ stored' = stored \cap Referenced(Reps \ {h})
    /\ UNCHANGED <<row, bachs, hist>>

-----------------------------------------------------------------------------
OnboardingNext ==
    \/ \E h \in Reps :
          \/ SubmitKyc(h) \/ ResubmitStudentId(h) \/ StoreStudentId(h) \/ FindRepresentative(h) \/ SendPerson(h)
          \/ RecordFailedAttempt(h) \/ WriteSubmission(h) \/ WriteCard(h) \/ DiscardFile(h)
          \/ IdentityEvent(h) \/ SubmitPayoutDestination(h) \/ RefreshIdentity(h) \/ GetIdentityStatus(h)
          \/ ApplyVerdict(h) \/ RevokeKyc(h) \/ WriteReview(h)
          \/ VerifyRep(h) \/ ApproveApplication(h) \/ RejectRep(h) \/ RejectApplication(h)
          \/ AttachRep(h) \/ RepInterrupt(h)
          \/ \E decision \in {"approved", "rejected"} : ReviewStudentId(h, decision)
    \/ BachsDecides \/ LockPasses

OnboardingSpec == OnboardingInit /\ [][OnboardingNext]_onboardingVars
-----------------------------------------------------------------------------
(* Properties                                                              *)

(* The card on the row is in the file store, whichever requests replaced it *)
(* at the same time and whichever of them failed (discardFile).             *)
CardIsOnFile == row.studentIdFile # NoFile => row.studentIdFile \in stored

(* "the student ID the admin just reviewed" (POST /reps/:repId/verify): as  *)
(* long as requests do not overlap, an approved card is one that an admin   *)
(* was shown, through any sequence of submissions and reviews.              *)
ApprovedCardWasSeen ==
    ~hist.overlap /\ row.studentId = "approved" => row.studentIdFile = hist.seen

(* "Re-use the representative if one exists (a retry, or a create that      *)
(* timed out after Bachs had already stored it) rather than adding a second *)
(* person" (verifyIdentity): one person per account, as long as submissions *)
(* do not overlap.                                                          *)
OneRepresentative == ~hist.overlap => bachs.persons <= 1

(* identity.updated "re-read the verdict and the outstanding requirements   *)
(* from the provider and apply them" (refreshIdentity): once the events are *)
(* processed, one at a time, the row says what Bachs says, unless a refused *)
(* submission or an admin spoke last.                                       *)
RowFollowsBachs ==
    (/\ ~hist.overlap /\ ~event /\ row.person /\ hist.last = "bachs"
     /\ \A h \in Reps : rcall[h] = RepIdle)
        => row.kycStatus = bachs.verdict /\ row.payoutsActive = bachs.payouts

(* "three failed attempts lock retries for 24 hours" (kyc.service.ts): the  *)
(* third refusal since Bachs last verified, and each one after it, locks,   *)
(* as long as no two requests overlap: of two at once each may write over   *)
(* what the other has counted.                                              *)
ThirdRefusalLocks ==
    [][hist'.refusals > hist.refusals /\ hist'.refusals >= MAX_KYC_ATTEMPTS /\ ~hist.overlap
          => row'.locked]_onboardingVars

(* An application gets one space, unless two admins approve it at once.     *)
OneSpacePerApplication == ~hist.overlap => row.spaces <= 1

(* An applicant is vetted on what was seen: the card on file is the one     *)
(* reviewed, the verdict is the provider's, about one person there, and an  *)
(* application makes one space (kyc.service.ts, admin.ts).                  *)
ApplicantIsVetted ==
    /\ CardIsOnFile
    /\ ApprovedCardWasSeen
    /\ RowFollowsBachs
    /\ OneRepresentative
    /\ OneSpacePerApplication
=============================================================================
