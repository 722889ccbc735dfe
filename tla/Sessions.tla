------------------------------ MODULE Sessions ------------------------------
(***************************************************************************)
(* One e-mail address: its account, the refresh tokens that are its        *)
(* sessions, and the links sent to its inbox.  routes/auth.ts and          *)
(* services/auth.service.ts, the account half of routes/me.ts, the account *)
(* actions of routes/admin.ts and the guest payer of routes/guestPay.ts.   *)
(*                                                                         *)
(* A handler reads the account, hashes or compares a password (which takes *)
(* a while), and writes later: call[h] holds what it read.  A password     *)
(* stands for its hash.  Access tokens are not stored anywhere; whoever    *)
(* was ever given one may still hold it.                                   *)
(***************************************************************************)
EXTENDS Naturals

CONSTANTS Tokens,        \* refresh tokens
          Links,         \* e-mailed verification and reset links
          Passwords, Handlers,
          NoPassword, NoToken, Google,
          Stale          \* history: opened by a request a new password overtook

ASSUME SessionsAssumption ==
    /\ NoToken \notin Tokens
    /\ Passwords \cap {NoPassword, Google, Stale} = {}
    /\ NoPassword # Google /\ NoPassword # Stale /\ Google # Stale

VARIABLES user,      \* the row of the users table
          token,     \* the refresh_tokens table
          link,      \* the email_verifications and password_resets tables
          outbox,    \* links on their way: sendVerification, sendPasswordReset
          call

tables == <<user, token, link, outbox>>
sessionVars == <<user, token, link, outbox, call>>

-----------------------------------------------------------------------------
User == [exists : BOOLEAN, isGuest : BOOLEAN,
         passwordHash : Passwords \cup {NoPassword},
         emailVerified : BOOLEAN,
         isSuspended : BOOLEAN, isDeactivated : BOOLEAN,
         applicant : BOOLEAN,     \* repApplicationStatus is pending
         wasGuest : BOOLEAN]      \* history: the row began as a guest payer's

NoUser == [exists |-> FALSE, isGuest |-> FALSE, passwordHash |-> NoPassword, emailVerified |-> FALSE,
           isSuspended |-> FALSE, isDeactivated |-> FALSE, applicant |-> FALSE, wasGuest |-> FALSE]

(* cred and parent are history: what a live session was opened with, and    *)
(* the token it was rotated from.                                           *)
Creds == Passwords \cup {NoPassword, Google, Stale}

Token == [status : {"none", "live", "revoked"}, expired : BOOLEAN, cred : Creds, parent : Tokens \cup {NoToken}]

NoSession == [status |-> "none", expired |-> FALSE, cred |-> NoPassword, parent |-> NoToken]

(* A used link may be past its date as well, which nobody looks at then.    *)
(* done is history: how often the link set a password.                      *)
Link == [kind : {"none", "verify", "reset"}, state : {"open", "used", "expired"}, done : 0..2]

NoLink == [kind |-> "none", state |-> "open", done |-> 0]

(* Where a handler stands:                                                  *)
(* register, google, guest   found no account, about to create one          *)
(* claim          POST /google found a guest payer's account                *)
(* mint           about to store a new refresh token (createTokens)         *)
(* refresh        the two queries of POST /refresh                          *)
(* refused        the presented token could not be rotated                  *)
(* revokeAll      about to revoke every session                             *)
(* verify, reset  read a link                                               *)
(* newPassword    claimed a reset link, hashing the password                *)
(* change, close  PUT /me/password and DELETE /me, the password checked     *)
(* barred is history: the request began while the account was suspended or  *)
(* deactivated, and it has been ever since.                                 *)
Call ==
    [at : {"idle", "guest", "claim", "revokeAll", "close"}]
    \cup [at : {"register"}, pw : Passwords, applicant : BOOLEAN]
    \cup [at : {"google"}, applicant : BOOLEAN]
    \cup [at : {"mint"}, cred : Creds, parent : Tokens \cup {NoToken}, barred : BOOLEAN]
    \cup [at : {"refresh"}, t : Tokens, rotated : BOOLEAN, cred : Creds, seen : {"todo", "active", "inactive"},
          barred : BOOLEAN]
    \cup [at : {"refused"}, t : Tokens]
    \cup [at : {"verify"}, l : Links]
    \cup [at : {"reset", "newPassword"}, l : Links, pw : Passwords]
    \cup [at : {"change"}, pw : Passwords, keep : Tokens \cup {NoToken}]

Idle == [at |-> "idle"]

SessionsTypeOK ==
    /\ user \in User
    /\ user.isGuest => user.passwordHash = NoPassword /\ ~user.applicant
    /\ token \in [Tokens -> Token]
    /\ link \in [Links -> Link]
    /\ outbox \subseteq {"verify", "reset"}
    /\ call \in [Handlers -> Call]

SessionsInit ==
    /\ user = NoUser
    /\ token = [t \in Tokens |-> NoSession]
    /\ link = [l \in Links |-> NoLink]
    /\ outbox = {}
    /\ call = [h \in Handlers |-> Idle]

Goto(h, next) == call' = [call EXCEPT ![h] = next]

Start(h, next) == call[h] = Idle /\ Goto(h, next)

Inactive == user.isSuspended \/ user.isDeactivated

Live(t) == token[t].status = "live"

(* updateMany({ userId, revokedAt: null }): the live ones of T.             *)
Revoked(T) == [t \in Tokens |-> IF t \in T /\ Live(t) THEN [token[t] EXCEPT !.status = "revoked", !.cred = NoPassword]
                                ELSE token[t]]

(* A link to be sent, while there are Links left for it (the bound on how   *)
(* many are ever sent).                                                     *)
Queued(kind) == IF \E l \in Links : link[l].kind = "none" THEN outbox \cup {kind} ELSE outbox

(* Someone was handed an access token.                                      *)
SignedIn == \E t \in Tokens : token[t].status # "none"

-----------------------------------------------------------------------------
(* Signing in                                                              *)

Minting(cred) == [at |-> "mint", cred |-> cred, parent |-> NoToken, barred |-> FALSE]

(* createTokens.                                                            *)
CreateTokens(h) ==
    /\ call[h].at = "mint"
    /\ \E t \in Tokens :
          /\ token[t].status = "none"
          /\ token' = [token EXCEPT ![t] = [status |-> "live", expired |-> FALSE, cred |-> call[h].cred,
                                           parent |-> call[h].parent]]
    /\ Goto(h, Idle)
    /\ UNCHANGED <<user, link, outbox>>

(* POST /register: refused if the address is known, a guest payer's too.    *)
Register(h, pw, applicant) ==
    /\ ~user.exists
    /\ Start(h, [at |-> "register", pw |-> pw, applicant |-> applicant])
    /\ UNCHANGED tables

\* Mutant: an upsert by address, where the code inserts.
CreateAccount_Upsert(h) ==
    /\ call[h].at = "register"
    /\ user' = [user EXCEPT !.exists = TRUE, !.isGuest = FALSE,
                            !.passwordHash = call[h].pw, !.applicant = call[h].applicant]
    /\ outbox' = Queued("verify")
    /\ Goto(h, IF call[h].applicant THEN Idle ELSE Minting(call[h].pw))
    /\ UNCHANGED <<token, link>>

\* Mutant: a rep applicant gets a session at once, like everybody else.
CreateAccount_Session(h) ==
    /\ call[h].at = "register"
    /\ ~user.exists
    /\ user' = [NoUser EXCEPT !.exists = TRUE, !.passwordHash = call[h].pw, !.applicant = call[h].applicant]
    /\ outbox' = Queued("verify")
    /\ Goto(h, Minting(call[h].pw))
    /\ UNCHANGED <<token, link>>

(* The insert, which the unique address refuses if there is an account by   *)
(* now; a rep applicant gets no session.                                    *)
CreateAccount(h) ==
    /\ call[h].at = "register"
    /\ IF user.exists
       THEN Goto(h, Idle) /\ UNCHANGED <<user, outbox>>
       ELSE /\ user' = [NoUser EXCEPT !.exists = TRUE, !.passwordHash = call[h].pw, !.applicant = call[h].applicant]
            /\ outbox' = Queued("verify")
            /\ Goto(h, IF call[h].applicant THEN Idle ELSE Minting(call[h].pw))
    /\ UNCHANGED <<token, link>>

(* POST /login: the right password, and an account that may sign in.        *)
Login(h, pw) ==
    /\ user.exists /\ user.passwordHash = pw
    /\ ~Inactive
    /\ user.applicant => user.emailVerified
    /\ Start(h, Minting(pw))
    /\ UNCHANGED tables

(* POST /google, the address verified by Google: no account, a guest        *)
(* payer's, or one that may sign in.                                        *)
GoogleSignIn(h, applicant) ==
    /\ \/ ~user.exists /\ Start(h, [at |-> "google", applicant |-> applicant])
       \/ user.isGuest /\ Start(h, [at |-> "claim"])
       \/ user.exists /\ ~user.isGuest /\ ~Inactive /\ Start(h, Minting(Google))
    /\ UNCHANGED tables

CreateGoogleAccount(h) ==
    /\ call[h].at = "google"
    /\ IF user.exists
       THEN Goto(h, Idle) /\ UNCHANGED user
       ELSE /\ user' = [NoUser EXCEPT !.exists = TRUE, !.emailVerified = TRUE, !.applicant = call[h].applicant]
            /\ Goto(h, Minting(Google))
    /\ UNCHANGED <<token, link, outbox>>

(* The guest's account becomes theirs, and then the account is looked at.   *)
ClaimGuestAccount(h) ==
    /\ call[h].at = "claim"
    /\ user' = [user EXCEPT !.isGuest = FALSE, !.emailVerified = TRUE]
    /\ Goto(h, IF Inactive THEN Idle ELSE Minting(Google))
    /\ UNCHANGED <<token, link, outbox>>

(* guestPayer: a first payment without an account creates one.              *)
GuestPayer(h) ==
    /\ ~user.exists
    /\ Start(h, [at |-> "guest"])
    /\ UNCHANGED tables

CreateGuest(h) ==
    /\ call[h].at = "guest"
    /\ user' = IF user.exists THEN user
               ELSE [NoUser EXCEPT !.exists = TRUE, !.isGuest = TRUE, !.wasGuest = TRUE]
    /\ Goto(h, Idle)
    /\ UNCHANGED <<token, link, outbox>>

-----------------------------------------------------------------------------
(* POST /refresh                                                           *)

(* The cookie holds t, whatever has become of it; a token past its date     *)
(* does not verify.                                                         *)
Refresh(h, t) ==
    /\ token[t].status # "none" /\ ~token[t].expired
    /\ Start(h, [at |-> "refresh", t |-> t, rotated |-> FALSE, cred |-> NoPassword, seen |-> "todo",
                 barred |-> Inactive])
    /\ UNCHANGED tables

\* Mutant: the token is found, and revoked afterwards.
Rotate_Found(h) ==
    /\ call[h].at = "refresh" /\ ~call[h].rotated
    /\ token' = Revoked({call[h].t})
    /\ Goto(h, [call[h] EXCEPT !.rotated = TRUE, !.cred = Stale])
    /\ UNCHANGED <<user, link, outbox>>

(* Its two queries, in either order: the rotation, one conditional update   *)
(* (against the date as of the request; if it hits nothing, the other       *)
(* query's answer is not used)...                                           *)
Rotate(h) ==
    LET t == call[h].t IN
    /\ call[h].at = "refresh" /\ ~call[h].rotated
    /\ IF Live(t)
       THEN token' = Revoked({t}) /\ Goto(h, [call[h] EXCEPT !.rotated = TRUE, !.cred = token[call[h].t].cred])
       ELSE token' = token /\ Goto(h, [at |-> "refused", t |-> t])
    /\ UNCHANGED <<user, link, outbox>>

(* ... and loadSessionUser.                                                 *)
LoadSessionUser(h) ==
    /\ call[h].at = "refresh" /\ call[h].seen = "todo"
    /\ Goto(h, [call[h] EXCEPT !.seen = IF Inactive THEN "inactive" ELSE "active"])
    /\ UNCHANGED tables

(* A token that could not be rotated and turns out to be a revoked one ends *)
(* every session.                                                           *)
RefuseRefresh(h) ==
    /\ call[h].at = "refused"
    /\ Goto(h, IF token[call[h].t].status = "revoked" THEN [at |-> "revokeAll"] ELSE Idle)
    /\ UNCHANGED tables

\* Mutant: whether the account is active is not looked at.
AnswerRefresh_Inactive(h) ==
    /\ call[h].at = "refresh" /\ call[h].rotated /\ call[h].seen # "todo"
    /\ Goto(h, [at |-> "mint", cred |-> call[h].cred, parent |-> call[h].t, barred |-> call[h].barred])
    /\ UNCHANGED tables

(* An inactive account gets nothing for its token, an active one the next.  *)
AnswerRefresh(h) ==
    /\ call[h].at = "refresh" /\ call[h].rotated /\ call[h].seen # "todo"
    /\ Goto(h, IF call[h].seen = "inactive" THEN Idle
               ELSE [at |-> "mint", cred |-> call[h].cred, parent |-> call[h].t, barred |-> call[h].barred])
    /\ UNCHANGED tables

(* The last step of a replayed refresh, of a suspension and of an           *)
(* administrator's deactivation.                                            *)
RevokeAll(h) ==
    /\ call[h].at = "revokeAll"
    /\ token' = Revoked(Tokens)
    /\ Goto(h, Idle)
    /\ UNCHANGED <<user, link, outbox>>

(* POST /logout with the cookie; without it nothing happens.                *)
EndSession(h, t) ==
    /\ call[h] = Idle
    /\ Live(t)
    /\ token' = Revoked({t})
    /\ UNCHANGED <<user, link, outbox, call>>

(* DELETE /me/sessions/:sessionId, from any session.                        *)
DeleteSession(h, t) == SignedIn /\ EndSession(h, t)

-----------------------------------------------------------------------------
(* Links in the inbox                                                      *)

(* POST /resend-verification.                                               *)
ResendVerification(h) ==
    /\ call[h] = Idle
    /\ user.exists /\ ~user.emailVerified /\ ~user.isDeactivated
    /\ outbox' = Queued("verify")
    /\ UNCHANGED <<user, token, link, call>>

(* POST /forgot-password, for a guest payer too.                            *)
ForgotPassword(h) ==
    /\ call[h] = Idle
    /\ user.exists
    /\ outbox' = Queued("reset")
    /\ UNCHANGED <<user, token, link, call>>

(* sendVerification and sendPasswordReset, in the background.               *)
SendLink(kind, l) ==
    /\ kind \in outbox /\ link[l].kind = "none"
    /\ link' = [link EXCEPT ![l].kind = kind]
    /\ outbox' = IF \E k \in Links \ {l} : link[k].kind = "none" THEN outbox \ {kind} ELSE {}
    /\ UNCHANGED <<user, token, call>>

Open(l, kind) == link[l].kind = kind /\ link[l].state = "open"

(* POST /verify-email: the read, then one transaction.                      *)
VerifyEmail(h, l) ==
    /\ Open(l, "verify")
    /\ Start(h, [at |-> "verify", l |-> l])
    /\ UNCHANGED tables

MarkVerified(h) ==
    /\ call[h].at = "verify"
    /\ link' = [link EXCEPT ![call[h].l].state = "used"]
    /\ user' = [user EXCEPT !.emailVerified = TRUE]
    /\ Goto(h, Idle)
    /\ UNCHANGED <<token, outbox>>

(* POST /reset-password: the read,                                          *)
ResetPassword(h, l, pw) ==
    /\ Open(l, "reset")
    /\ Start(h, [at |-> "reset", l |-> l, pw |-> pw])
    /\ UNCHANGED tables

\* Mutant: the link is marked as used without a look at whether it was.
ClaimReset_Again(h) ==
    /\ call[h].at = "reset"
    /\ link' = [link EXCEPT ![call[h].l].state = "used"]
    /\ Goto(h, [call[h] EXCEPT !.at = "newPassword"])
    /\ UNCHANGED <<user, token, outbox>>

(* the claim,                                                               *)
ClaimReset(h) ==
    LET l == call[h].l IN
    /\ call[h].at = "reset"
    /\ link' = [link EXCEPT ![l].state = "used"]
    /\ Goto(h, IF link[l].state = "used" THEN Idle ELSE [call[h] EXCEPT !.at = "newPassword"])
    /\ UNCHANGED <<user, token, outbox>>

(* history: the requests that are past their checks and may still mint a    *)
(* session are overtaken by h's change of password.                         *)
Overtaken(h) ==
    [g \in Handlers |-> IF g = h THEN Idle
                        ELSE IF call[g].at = "mint" \/ (call[g].at = "refresh" /\ call[g].rotated)
                        THEN [call[g] EXCEPT !.cred = Stale] ELSE call[g]]

\* Mutant: a guest payer's account gets a password and stays a guest's.
StorePassword_StaysGuest(h) ==
    /\ call[h].at = "newPassword"
    /\ link' = [l \in Links |-> IF link[l].kind # "reset" THEN link[l]
                                ELSE [link[l] EXCEPT !.state = "used", !.done = IF l = call[h].l THEN @ + 1 ELSE @]]
    /\ user' = [user EXCEPT !.passwordHash = call[h].pw, !.emailVerified = TRUE]
    /\ token' = Revoked(Tokens)
    /\ call' = Overtaken(h)
    /\ UNCHANGED outbox

\* Mutant: the sessions are left alone.
StorePassword_KeepsSessions(h) ==
    /\ call[h].at = "newPassword"
    /\ link' = [l \in Links |-> IF link[l].kind # "reset" THEN link[l]
                                ELSE [link[l] EXCEPT !.state = "used", !.done = IF l = call[h].l THEN 1 ELSE @]]
    /\ user' = [user EXCEPT !.passwordHash = call[h].pw, !.isGuest = FALSE, !.emailVerified = TRUE]
    /\ call' = Overtaken(h)
    /\ UNCHANGED <<token, outbox>>

(* and the transaction: the other reset links die, the password is set, a   *)
(* guest payer's account is claimed, every session ends.                    *)
StorePassword(h) ==
    /\ call[h].at = "newPassword"
    /\ link' = [l \in Links |-> IF link[l].kind # "reset" THEN link[l]
                                ELSE [link[l] EXCEPT !.state = "used", !.done = IF l = call[h].l THEN @ + 1 ELSE @]]
    /\ user' = [user EXCEPT !.passwordHash = call[h].pw, !.isGuest = FALSE, !.emailVerified = TRUE]
    /\ token' = Revoked(Tokens)
    /\ call' = Overtaken(h)
    /\ UNCHANGED <<outbox>>

-----------------------------------------------------------------------------
(* The signed-in user                                                      *)

(* PUT /me/password: the current one checked, with the live session of the  *)
(* cookie that came along, if any.  A new hash is never the old one.        *)
PutPassword(h, pw, keep) ==
    /\ SignedIn
    /\ user.passwordHash # NoPassword /\ pw # user.passwordHash
    /\ keep = NoToken \/ (keep \in Tokens /\ Live(keep))
    /\ Start(h, [at |-> "change", pw |-> pw, keep |-> keep])
    /\ UNCHANGED tables

(* Its transaction, which does not look at the password again.  The session *)
(* kept counts as opened with the new one.                                  *)
ChangePassword(h) ==
    LET keep == call[h].keep IN
    /\ call[h].at = "change"
    /\ user' = [user EXCEPT !.passwordHash = call[h].pw]
    /\ token' = [t \in Tokens |-> IF t = keep /\ Live(t)
                                  THEN [token[t] EXCEPT !.cred = IF @ \in Passwords THEN call[h].pw ELSE @]
                                  ELSE Revoked(Tokens)[t]]
    /\ call' = Overtaken(h)
    /\ UNCHANGED <<link, outbox>>

(* DELETE /me: the password, and no active dues to lead.                    *)
DeleteMe(h) ==
    /\ SignedIn
    /\ user.passwordHash # NoPassword
    /\ Start(h, [at |-> "close"])
    /\ UNCHANGED tables

CloseAccount(h) ==
    /\ call[h].at = "close"
    /\ user' = [user EXCEPT !.isDeactivated = TRUE]
    /\ token' = Revoked(Tokens)
    /\ Goto(h, Idle)
    /\ UNCHANGED <<link, outbox>>

-----------------------------------------------------------------------------
(* Administrators                                                          *)

(* POST /admin/users/:userId/suspend, /admin/reps/:repId/suspend and        *)
(* /admin/users/:userId/deactivate: the row first, the sessions next.       *)
Bar(h, flag) ==
    /\ user.exists
    /\ user' = IF flag = "suspend" THEN [user EXCEPT !.isSuspended = TRUE] ELSE [user EXCEPT !.isDeactivated = TRUE]
    /\ Start(h, [at |-> "revokeAll"])
    /\ UNCHANGED <<token, link, outbox>>

(* POST /admin/users/:userId/unsuspend and /admin/reps/:repId/reinstate.    *)
Unsuspend ==
    /\ user.isSuspended
    /\ user' = [user EXCEPT !.isSuspended = FALSE]
    /\ call' = IF user.isDeactivated THEN call
               ELSE [h \in Handlers |-> IF call[h].at \in {"mint", "refresh"} THEN [call[h] EXCEPT !.barred = FALSE]
                                        ELSE call[h]]
    /\ UNCHANGED <<token, link, outbox>>

(* The rep application is approved or rejected (Onboarding).                *)
DecideApplication ==
    /\ user.applicant
    /\ user' = [user EXCEPT !.applicant = FALSE]
    /\ UNCHANGED <<token, link, outbox, call>>

-----------------------------------------------------------------------------
ExpireToken(t) ==
    /\ Live(t) /\ ~token[t].expired
    /\ token' = [token EXCEPT ![t].expired = TRUE]
    /\ UNCHANGED <<user, link, outbox, call>>

ExpireLink(l) ==
    /\ link[l].kind # "none" /\ link[l].state = "open"
    /\ link' = [link EXCEPT ![l].state = "expired"]
    /\ UNCHANGED <<user, token, outbox, call>>

(* The process dies between two steps of a handler.                         *)
Interrupt(h) ==
    /\ call[h] # Idle
    /\ Goto(h, Idle)
    /\ UNCHANGED tables

Ask(h) ==
    \/ \E pw \in Passwords : Login(h, pw)
    \/ \E pw \in Passwords, applicant \in BOOLEAN : Register(h, pw, applicant)
    \/ \E applicant \in BOOLEAN : GoogleSignIn(h, applicant)
    \/ GuestPayer(h) \/ ResendVerification(h) \/ ForgotPassword(h) \/ DeleteMe(h)
    \/ \E t \in Tokens : Refresh(h, t) \/ EndSession(h, t) \/ DeleteSession(h, t)
    \/ \E l \in Links : VerifyEmail(h, l) \/ \E pw \in Passwords : ResetPassword(h, l, pw)
    \/ \E pw \in Passwords, keep \in Tokens \cup {NoToken} : PutPassword(h, pw, keep)

Continue(h) ==
    \/ CreateTokens(h) \/ CreateAccount(h) \/ CreateGoogleAccount(h) \/ ClaimGuestAccount(h) \/ CreateGuest(h)
    \/ Rotate(h) \/ LoadSessionUser(h) \/ RefuseRefresh(h) \/ AnswerRefresh(h) \/ RevokeAll(h)
    \/ MarkVerified(h) \/ ClaimReset(h) \/ StorePassword(h) \/ ChangePassword(h) \/ CloseAccount(h)

SessionsNext ==
    \/ \E h \in Handlers : Ask(h) \/ Continue(h) \/ Interrupt(h) \/ \E flag \in {"suspend", "deactivate"} : Bar(h, flag)
    \/ \E l \in Links : ExpireLink(l) \/ \E kind \in {"verify", "reset"} : SendLink(kind, l)
    \/ \E t \in Tokens : ExpireToken(t)
    \/ Unsuspend \/ DecideApplication

SessionsSpec == SessionsInit /\ [][SessionsNext]_sessionVars
-----------------------------------------------------------------------------
(* Properties                                                              *)

(* "two concurrent refreshes can't both mint a session" (POST /refresh): a  *)
(* refresh token is rotated into one session, by one handler.               *)
RotatedOnce ==
    /\ \A s, t \in Tokens : s # t /\ token[s].parent # NoToken => token[s].parent # token[t].parent
    /\ \A h \in Handlers, t \in Tokens :
          call[h].at = "mint" /\ call[h].parent # NoToken => token[t].parent # call[h].parent

(* A suspended or deactivated account gets no new session from a request    *)
(* that began after it was barred, whatever sessions a suspension cut short *)
(* by a crash, or overtaken by a sign-in, has left behind.                  *)
BarredStaysOut ==
    \A h \in Handlers : call[h].at = "mint" => ~call[h].barred

(* "Invalidate all active refresh tokens for security" (POST                *)
(* /reset-password) and "revoke other sessions" (PUT /me/password): a       *)
(* session opened with a password lives, through any chain of refreshes,    *)
(* only while that password is the account's; the exception is a request    *)
(* that was already past its checks when the password changed.              *)
SessionsKnowThePassword ==
    \A t \in Tokens : Live(t) => token[t].cred \in {user.passwordHash, Google, Stale}

(* "Claim the token before doing anything else so it can only be used once" *)
(* (POST /reset-password): one reset link sets one password.                *)
ResetOnce == \A l \in Links : link[l].done <= 1

(* "Signup issues a session without proving the email, which would hand     *)
(* that payment history to anyone who typed it" (POST /register): what      *)
(* began as a guest payer's account has a password or a session only once   *)
(* its inbox was proved, however sign-up and the guest's payment interleave.*)
GuestIsClaimedByInbox ==
    user.wasGuest /\ (user.passwordHash # NoPassword \/ SignedIn) => user.emailVerified /\ ~user.isGuest

(* "Rep applicants confirm their email before they can sign in and start    *)
(* KYC" (POST /login): an applicant's session that was opened with a        *)
(* password has a verified address behind it, along any chain of refreshes. *)
ApplicantIsVerified ==
    \A t \in Tokens : user.applicant /\ token[t].cred \in Passwords => user.emailVerified

(* Whoever has a session has earned it: links and tokens work once, and the *)
(* account is open, verified, claimed from its inbox, and known by its      *)
(* current password (auth.ts, me.ts).                                       *)
SessionsAreEarned ==
    /\ RotatedOnce
    /\ ResetOnce
    /\ BarredStaysOut
    /\ SessionsKnowThePassword
    /\ GuestIsClaimedByInbox
    /\ ApplicantIsVerified
=============================================================================
