---------------------------- MODULE MembersProofs ----------------------------
(***************************************************************************)
(* Proofs about what a student meets: Sessions, Dues and Reminders, for    *)
(* any number of handlers, tokens, links, people and passes, and about     *)
(* MCMembers, which puts them side by side.                                *)
(***************************************************************************)
EXTENDS MCMembers, FiniteSetTheorems, TLAPS

-----------------------------------------------------------------------------
(* Sessions: the invariant                                                 *)

(* A session may be opened with cred: Google's word, a request that a new   *)
(* password overtook, or the password of the account, which an applicant    *)
(* may use with a verified address only.                                    *)
Known(cred) ==
    \/ cred \in {Google, Stale}
    \/ cred \in Passwords /\ cred = user.passwordHash /\ (user.applicant => user.emailVerified)

(* The token that a handler at c has rotated, and opens the next one for.   *)
RotatedAt(c) ==
    IF c.at = "mint" THEN c.parent ELSE IF c.at = "refresh" /\ c.rotated THEN c.t ELSE NoToken

(* What a handler's place c says about the tables.                          *)
Fits(c) ==
    /\ c.at \notin {"idle", "register", "google", "guest"} => user.exists
    /\ c.at \in {"mint", "refresh", "change"} => ~user.isGuest
    /\ c.at = "mint" => Known(c.cred) /\ ~c.barred
    /\ c.at = "refresh" /\ c.rotated => Known(c.cred)
    /\ c.at = "refresh" /\ c.barred => Inactive /\ c.seen # "active"
    /\ RotatedAt(c) # NoToken =>
          token[RotatedAt(c)].status = "revoked" /\ \A t \in Tokens : token[t].parent # RotatedAt(c)
    /\ c.at \in {"reset", "newPassword"} => link[c.l].kind = "reset"
    /\ c.at = "newPassword" => link[c.l].state = "used" /\ link[c.l].done = 0

(* The account: nothing hangs on one that is not there, and one that began  *)
(* as a guest payer's is open to nobody until its inbox was proved.         *)
AccountInv ==
    /\ ~user.exists => user = NoUser /\ outbox = {} /\ ~SignedIn /\ \A l \in Links : link[l].kind = "none"
    /\ user.isGuest => user.passwordHash = NoPassword /\ ~SignedIn
    /\ user.wasGuest /\ ~user.isGuest => user.emailVerified

(* The tokens: a live one was opened with a credential that still counts,   *)
(* and no two were rotated from one, which is revoked.                      *)
TokensInv ==
    /\ \A t \in Tokens : IF Live(t) THEN Known(token[t].cred) ELSE token[t].cred = NoPassword
    /\ \A t \in Tokens : token[t].parent # NoToken => token[token[t].parent].status = "revoked"
    /\ \A s, t \in Tokens : s # t /\ token[s].parent # NoToken => token[s].parent # token[t].parent

(* The links: one that set a password is a used one.                        *)
LinksInv == \A l \in Links : link[l].done # 0 => link[l].done = 1 /\ link[l].kind = "reset" /\ link[l].state = "used"

(* Two handlers have not rotated one token, nor claimed one link.           *)
Apart(c, d) ==
    /\ RotatedAt(c) # NoToken => RotatedAt(c) # RotatedAt(d)
    /\ c.at = "newPassword" /\ d.at = "newPassword" => c.l # d.l

HandlersInv ==
    /\ \A h \in Handlers : Fits(call[h])
    /\ \A g, h \in Handlers : g # h => Apart(call[g], call[h])

SessionsInv == SessionsTypeOK /\ AccountInv /\ TokensInv /\ LinksInv /\ HandlersInv

-----------------------------------------------------------------------------
(* Sessions: places and what keeps them                                    *)

(* What a handler holds at each place.                                      *)
LEMMA CallFields ==
  ASSUME NEW c \in Call
  PROVE  /\ c.at = "register" => c.pw \in Passwords /\ c.applicant \in BOOLEAN
         /\ c.at = "google" => c.applicant \in BOOLEAN
         /\ c.at = "mint" => c \in [at : {"mint"}, cred : Creds, parent : Tokens \cup {NoToken}, barred : BOOLEAN]
         /\ c.at = "refresh" => c \in [at : {"refresh"}, t : Tokens, rotated : BOOLEAN, cred : Creds,
                                       seen : {"todo", "active", "inactive"}, barred : BOOLEAN]
         /\ c.at = "refused" => c.t \in Tokens
         /\ c.at = "verify" => c.l \in Links
         /\ c.at \in {"reset", "newPassword"} => c \in [at : {"reset", "newPassword"}, l : Links, pw : Passwords]
         /\ c.at = "change" => c.pw \in Passwords /\ c.keep \in Tokens \cup {NoToken}
<1>1. CASE c \in [at : {"idle", "guest", "claim", "revokeAll", "close"}]
  BY <1>1
<1>2. CASE c \in [at : {"register"}, pw : Passwords, applicant : BOOLEAN]
  BY <1>2
<1>3. CASE c \in [at : {"google"}, applicant : BOOLEAN]
  BY <1>3
<1>4. CASE c \in [at : {"mint"}, cred : Creds, parent : Tokens \cup {NoToken}, barred : BOOLEAN]
  BY <1>4
<1>5. CASE c \in [at : {"refresh"}, t : Tokens, rotated : BOOLEAN, cred : Creds,
                  seen : {"todo", "active", "inactive"}, barred : BOOLEAN]
  BY <1>5
<1>6. CASE c \in [at : {"refused"}, t : Tokens]
  BY <1>6
<1>7. CASE c \in [at : {"verify"}, l : Links]
  BY <1>7
<1>8. CASE c \in [at : {"reset", "newPassword"}, l : Links, pw : Passwords]
  BY <1>8
<1>9. CASE c \in [at : {"change"}, pw : Passwords, keep : Tokens \cup {NoToken}]
  BY <1>9
<1> QED BY <1>1, <1>2, <1>3, <1>4, <1>5, <1>6, <1>7, <1>8, <1>9 DEF Call

LEMMA CallPlaces ==
  /\ \A c \in [at : {"idle", "guest", "claim", "revokeAll", "close"}] : c \in Call
  /\ \A c \in [at : {"mint"}, cred : Creds, parent : Tokens \cup {NoToken}, barred : BOOLEAN] : c \in Call
  /\ \A c \in [at : {"refresh"}, t : Tokens, rotated : BOOLEAN, cred : Creds,
               seen : {"todo", "active", "inactive"}, barred : BOOLEAN] : c \in Call
  /\ \A c \in [at : {"reset", "newPassword"}, l : Links, pw : Passwords] : c \in Call
  BY DEF Call

LEMMA RotatedIsToken == ASSUME NEW c \in Call PROVE RotatedAt(c) \in Tokens \cup {NoToken}
  BY CallFields DEF RotatedAt

LEMMA SessionGoto ==
  ASSUME call \in [Handlers -> Call], NEW h \in Handlers, NEW c \in Call, Goto(h, c)
  PROVE  call' \in [Handlers -> Call] /\ call'[h] = c /\ \A g \in Handlers \ {h} : call'[g] = call[g]
  BY DEF Goto

(* What a step must not do to the tables if c is to fit them still.         *)
Keeps(c) ==
    /\ user.exists => user'.exists
    /\ user'.isGuest => user.isGuest \/ ~user.exists
    /\ (c.at = "mint" \/ (c.at = "refresh" /\ c.rotated)) /\ Known(c.cred) => Known(c.cred)'
    /\ c.at = "refresh" /\ c.barred /\ Inactive => Inactive'
    /\ \A t \in Tokens : token[t].status = "revoked" => token'[t].status = "revoked"
    /\ \A t \in Tokens : token'[t].parent \in {token[t].parent, NoToken} \/ token'[t].parent # RotatedAt(c)
    /\ \A l \in Links : link[l].kind = "reset" =>
          link'[l].kind = "reset" /\ (link[l].state = "used" => link'[l].state = "used")
    /\ c.at = "newPassword" => link'[c.l].done = link[c.l].done

(* ... where c is the place of handler g before the step.                   *)
KeepsAt(g) == \A c \in Call : c = call[g] => Keeps(c)

LEMMA FitsKept == ASSUME NEW c \in Call, Fits(c), Keeps(c) PROVE Fits(c)'
<1> USE DEF Fits, Keeps
<1>1. RotatedAt(c) \in Tokens \cup {NoToken}
  BY RotatedIsToken
<1>2. RotatedAt(c)' = RotatedAt(c)
  BY DEF RotatedAt
<1>3. (c.at \notin {"idle", "register", "google", "guest"} => user.exists)'
  OBVIOUS
<1>4. (c.at \in {"mint", "refresh", "change"} => ~user.isGuest)'
  OBVIOUS
<1>5. (c.at = "mint" => Known(c.cred) /\ ~c.barred)' /\ (c.at = "refresh" /\ c.rotated => Known(c.cred))'
  OBVIOUS
<1>6. (c.at = "refresh" /\ c.barred => Inactive /\ c.seen # "active")'
  OBVIOUS
<1>7. (RotatedAt(c) # NoToken =>
          token[RotatedAt(c)].status = "revoked" /\ \A t \in Tokens : token[t].parent # RotatedAt(c))'
  BY <1>1, <1>2
<1>8. (c.at \in {"reset", "newPassword"} => link[c.l].kind = "reset")'
      /\ (c.at = "newPassword" => link[c.l].state = "used" /\ link[c.l].done = 0)'
  BY CallFields
<1> QED BY <1>3, <1>4, <1>5, <1>6, <1>7, <1>8

(* A step that keeps all of them.                                           *)
Steady ==
    /\ user.exists => user'.exists
    /\ user'.isGuest => user.isGuest \/ ~user.exists
    /\ \A cred : Known(cred) => Known(cred)'
    /\ Inactive => Inactive'
    /\ \A t \in Tokens : token[t].status = "revoked" => token'[t].status = "revoked"
    /\ \A t \in Tokens : token'[t].parent = token[t].parent
    /\ \A l \in Links : link[l].kind = "reset" =>
          link'[l].kind = "reset" /\ (link[l].state = "used" => link'[l].state = "used")
    /\ \A l \in Links : link'[l].done = link[l].done

LEMMA SteadyKeeps == ASSUME Steady, NEW c \in Call PROVE Keeps(c)
  BY CallFields DEF Steady, Keeps

LEMMA Arrived == ASSUME NEW h \in Handlers, NEW c, call'[h] = c, Fits(c)' PROVE Fits(call[h])'
  BY DEF Fits, RotatedAt

(* Handlers after a step: everyone fits, and h, which moves to c, is apart  *)
(* from the rest.                                                           *)
LEMMA HandlersMove ==
  ASSUME SessionsTypeOK, HandlersInv, NEW h \in Handlers, NEW c \in Call, Goto(h, c), Fits(c)',
         \A g \in Handlers \ {h} : KeepsAt(g) /\ Apart(c, call[g]) /\ Apart(call[g], c)
  PROVE  HandlersInv'
<1>1. call'[h] = c /\ \A g \in Handlers \ {h} : call'[g] = call[g]
  BY SessionGoto DEF SessionsTypeOK
<1>2. ASSUME NEW g \in Handlers PROVE Fits(call[g])'
  <2>1. CASE g = h
    BY <1>1, <2>1, Arrived
  <2>2. CASE g # h
    <3>1. PICK d \in Call : d = call[g]
      BY DEF SessionsTypeOK
    <3>2. Fits(d) /\ Keeps(d)
      BY <2>2, <3>1 DEF HandlersInv, KeepsAt
    <3>3. Fits(d)'
      BY <3>2, FitsKept
    <3>4. call'[g] = d
      BY <1>1, <2>2, <3>1
    <3> QED BY <3>3, <3>4, Arrived
  <2> QED BY <2>1, <2>2
<1>3. ASSUME NEW f \in Handlers, NEW g \in Handlers, f # g PROVE Apart(call[f], call[g])'
  <2>1. CASE f = h
    BY <1>1, <1>3, <2>1 DEF Apart, RotatedAt
  <2>2. CASE g = h
    BY <1>1, <1>3, <2>2 DEF Apart, RotatedAt
  <2>3. CASE f # h /\ g # h
    BY <1>1, <1>3, <2>3 DEF Apart, RotatedAt, HandlersInv
  <2> QED BY <2>1, <2>2, <2>3
<1> QED BY <1>2, <1>3 DEF HandlersInv

(* ... and when it stands for no token and no link that it did not before.  *)
LEMMA HandlersSteady ==
  ASSUME SessionsTypeOK, HandlersInv, Steady, NEW h \in Handlers, NEW c \in Call, Goto(h, c), Fits(c)',
         RotatedAt(c) \in {NoToken, RotatedAt(call[h])}, c.at # "newPassword"
  PROVE  HandlersInv'
<1>1. ASSUME NEW g \in Handlers \ {h} PROVE KeepsAt(g) /\ Apart(c, call[g]) /\ Apart(call[g], c)
  <2>1. KeepsAt(g)
    BY SteadyKeeps DEF KeepsAt
  <2>2. Apart(call[h], call[g]) /\ Apart(call[g], call[h])
    BY DEF HandlersInv
  <2> QED BY <2>1, <2>2 DEF Apart
<1> QED BY <1>1, HandlersMove

LEMMA HandlersStay == ASSUME SessionsTypeOK, HandlersInv, Steady, UNCHANGED call PROVE HandlersInv'
<1>1. ASSUME NEW g \in Handlers PROVE Fits(call[g])'
  <2>1. PICK e \in Call : e = call[g]
    BY DEF SessionsTypeOK
  <2>2. Fits(e)'
    BY <2>1, FitsKept, SteadyKeeps DEF HandlersInv
  <2> QED BY <2>1, <2>2, Arrived
<1>2. ASSUME NEW f \in Handlers, NEW g \in Handlers, f # g PROVE Apart(call[f], call[g])'
  BY <1>2 DEF Apart, RotatedAt, HandlersInv
<1> QED BY <1>1, <1>2 DEF HandlersInv

(* ... when a step may change every handler's place, but lets it stand for  *)
(* nothing new.                                                             *)
Succeeds(d, c) ==
    /\ RotatedAt(d) \in {NoToken, RotatedAt(c)}
    /\ d.at = "newPassword" => c.at = "newPassword" /\ d.l = c.l

LEMMA HandlersChange ==
  ASSUME HandlersInv,
         \A g \in Handlers : \E d \in Call : call'[g] = d /\ Fits(d) /\ Keeps(d) /\ Succeeds(d, call[g])
  PROVE  HandlersInv'
<1>1. ASSUME NEW g \in Handlers PROVE Fits(call[g])'
  <2>1. PICK d \in Call : call'[g] = d /\ Fits(d) /\ Keeps(d)
    OBVIOUS
  <2> QED BY <2>1, FitsKept, Arrived
<1>2. ASSUME NEW f \in Handlers, NEW g \in Handlers, f # g PROVE Apart(call[f], call[g])'
  <2>1. PICK d \in Call : call'[f] = d /\ Succeeds(d, call[f])
    OBVIOUS
  <2>2. PICK e \in Call : call'[g] = e /\ Succeeds(e, call[g])
    OBVIOUS
  <2>3. Apart(call[f], call[g]) /\ Apart(call[g], call[f])
    BY <1>2 DEF HandlersInv
  <2>4. Apart(d, e)
    BY <2>1, <2>2, <2>3 DEF Apart, Succeeds
  <2> QED BY <2>1, <2>2, <2>4 DEF Apart, RotatedAt
<1> QED BY <1>1, <1>2 DEF HandlersInv

-----------------------------------------------------------------------------
(* Sessions: the handlers that only read                                   *)

(* h goes to c, which fits, for no token and no link that is new to it.     *)
Consults(h, c) ==
    /\ c \in Call /\ Goto(h, c) /\ Fits(c)
    /\ RotatedAt(c) \in {NoToken, RotatedAt(call[h])} /\ c.at # "newPassword"
    /\ UNCHANGED tables

Consulting(h) ==
    \/ \E pw \in Passwords : Login(h, pw)
    \/ \E pw \in Passwords, applicant \in BOOLEAN : Register(h, pw, applicant)
    \/ \E applicant \in BOOLEAN : GoogleSignIn(h, applicant)
    \/ GuestPayer(h) \/ DeleteMe(h) \/ LoadSessionUser(h) \/ RefuseRefresh(h) \/ AnswerRefresh(h) \/ Interrupt(h)
    \/ \E t \in Tokens : Refresh(h, t)
    \/ \E l \in Links : VerifyEmail(h, l) \/ \E pw \in Passwords : ResetPassword(h, l, pw)
    \/ \E pw \in Passwords, keep \in Tokens \cup {NoToken} : PutPassword(h, pw, keep)

(* Places that need nothing or an account only.                             *)
LEMMA PlainPlaces ==
  ASSUME SessionsTypeOK, NEW c \in Call, c.at \notin {"mint", "refresh", "change", "reset", "newPassword"},
         c.at \notin {"idle", "register", "google", "guest"} => user.exists
  PROVE  Fits(c) /\ RotatedAt(c) = NoToken /\ c.at # "newPassword"
  BY DEF Fits, RotatedAt

(* A first session may be minted with a known credential.                   *)
LEMMA MintPlace ==
  ASSUME NEW cred \in Creds
  PROVE  /\ Minting(cred) \in Call /\ RotatedAt(Minting(cred)) = NoToken /\ Minting(cred).at # "newPassword"
         /\ user.exists /\ ~user.isGuest /\ Known(cred) => Fits(Minting(cred))
         /\ (user.exists /\ ~user.isGuest /\ Known(cred))' => Fits(Minting(cred))'
<1> DEFINE c == Minting(cred)
<1>1. c \in [at : {"mint"}, cred : Creds, parent : Tokens \cup {NoToken}, barred : BOOLEAN]
  BY DEF Minting
<1>2. c.at = "mint" /\ c.cred = cred /\ c.parent = NoToken /\ c.barred = FALSE
  BY DEF Minting
<1>3. c \in Call
  BY <1>1, CallPlaces
<1> HIDE DEF c
<1>4. RotatedAt(c) = NoToken /\ c.at # "newPassword"
  BY <1>2 DEF RotatedAt
<1>5. user.exists /\ ~user.isGuest /\ Known(cred) => Fits(c)
  BY <1>2, <1>4 DEF Fits
<1>6. RotatedAt(c)' = NoToken
  BY <1>2 DEF RotatedAt
<1>7. (user.exists /\ ~user.isGuest /\ Known(cred))' => Fits(c)'
  BY <1>2, <1>6 DEF Fits
<1> QED BY <1>3, <1>4, <1>5, <1>7 DEF c

LEMMA ConsultStep ==
  ASSUME SessionsTypeOK, AccountInv, TokensInv, HandlersInv, NEW h \in Handlers, Consulting(h)
  PROVE  \E c \in Call : Consults(h, c)
<1> USE DEF SessionsTypeOK
<1>p. ASSUME NEW c \in Call, Goto(h, c), UNCHANGED tables,
             c.at \notin {"mint", "refresh", "change", "reset", "newPassword"},
             c.at \notin {"idle", "register", "google", "guest"} => user.exists
      PROVE  \E d \in Call : Consults(h, d)
  BY <1>p, PlainPlaces DEF Consults
<1>m. ASSUME NEW cred \in Creds, Goto(h, Minting(cred)), UNCHANGED tables, user.exists, ~user.isGuest, Known(cred)
      PROVE  \E d \in Call : Consults(h, d)
  BY <1>m, MintPlace DEF Consults
<1>1. ASSUME NEW pw \in Passwords, Login(h, pw) PROVE \E c \in Call : Consults(h, c)
  <2>1. Goto(h, Minting(pw)) /\ UNCHANGED tables /\ user.exists /\ user.passwordHash = pw
        /\ (user.applicant => user.emailVerified)
    BY <1>1 DEF Login, Start
  <2>2. pw \in Creds /\ Known(pw)
    BY <2>1 DEF Creds, Known
  <2>3. ~user.isGuest
    BY <2>1, SessionsAssumption DEF AccountInv
  <2> QED BY <1>m, <2>1, <2>2, <2>3
<1>2. ASSUME NEW pw \in Passwords, NEW applicant \in BOOLEAN, Register(h, pw, applicant)
      PROVE  \E c \in Call : Consults(h, c)
  <2> DEFINE c == [at |-> "register", pw |-> pw, applicant |-> applicant]
  <2>1. c \in Call
    BY DEF Call
  <2>2. Goto(h, c) /\ UNCHANGED tables
    BY <1>2 DEF Register, Start
  <2> QED BY <1>p, <2>1, <2>2
<1>3. ASSUME NEW applicant \in BOOLEAN, GoogleSignIn(h, applicant) PROVE \E c \in Call : Consults(h, c)
  <2>0. UNCHANGED tables
    BY <1>3 DEF GoogleSignIn
  <2>1. CASE Start(h, [at |-> "google", applicant |-> applicant])
    <3> DEFINE c == [at |-> "google", applicant |-> applicant]
    <3>1. c \in Call
      BY DEF Call
    <3> QED BY <1>p, <2>0, <2>1, <3>1 DEF Start
  <2>2. CASE user.isGuest /\ Start(h, [at |-> "claim"])
    <3>1. [at |-> "claim"] \in Call
      BY CallPlaces
    <3>2. user.exists
      BY <2>2 DEF AccountInv, NoUser
    <3> QED BY <1>p, <2>0, <2>2, <3>1, <3>2 DEF Start
  <2>3. CASE user.exists /\ ~user.isGuest /\ Start(h, Minting(Google))
    <3>1. Google \in Creds /\ Known(Google)
      BY DEF Creds, Known
    <3> QED BY <1>m, <2>0, <2>3, <3>1 DEF Start
  <2> QED BY <1>3, <2>1, <2>2, <2>3 DEF GoogleSignIn
<1>4. CASE GuestPayer(h)
  <2>1. [at |-> "guest"] \in Call
    BY CallPlaces
  <2> QED BY <1>4, <1>p, <2>1 DEF GuestPayer, Start
<1>5. CASE DeleteMe(h)
  <2>1. [at |-> "close"] \in Call
    BY CallPlaces
  <2>2. user.exists
    BY <1>5 DEF DeleteMe, AccountInv
  <2> QED BY <1>5, <1>p, <2>1, <2>2 DEF DeleteMe, Start
<1>6. CASE LoadSessionUser(h)
  <2> DEFINE c == call[h]
             d == [c EXCEPT !.seen = IF Inactive THEN "inactive" ELSE "active"]
  <2>1. c \in [at : {"refresh"}, t : Tokens, rotated : BOOLEAN, cred : Creds,
               seen : {"todo", "active", "inactive"}, barred : BOOLEAN]
    BY <1>6, CallFields DEF LoadSessionUser
  <2>2. d \in [at : {"refresh"}, t : Tokens, rotated : BOOLEAN, cred : Creds,
               seen : {"todo", "active", "inactive"}, barred : BOOLEAN]
        /\ d.at = c.at /\ d.t = c.t /\ d.rotated = c.rotated /\ d.cred = c.cred /\ d.barred = c.barred
        /\ d.seen = IF Inactive THEN "inactive" ELSE "active"
    BY <2>1
  <2>3. d \in Call
    BY <2>2, CallPlaces
  <2>4. Goto(h, d) /\ UNCHANGED tables
    BY <1>6 DEF LoadSessionUser
  <2>5. Fits(c) /\ c.at = "refresh"
    BY <1>6 DEF LoadSessionUser, HandlersInv
  <2>6. RotatedAt(d) = RotatedAt(c)
    BY <2>2 DEF RotatedAt
  <2>7. Fits(d)
    <3> HIDE DEF d, c
    <3> QED BY <2>2, <2>5, <2>6 DEF Fits
  <2> HIDE DEF d
  <2> QED BY <2>2, <2>3, <2>4, <2>5, <2>6, <2>7 DEF Consults
<1>7. CASE RefuseRefresh(h)
  <2>1. PICK c \in {[at |-> "revokeAll"], Idle} : Goto(h, c)
    BY <1>7 DEF RefuseRefresh
  <2>2. c \in Call
    BY CallPlaces DEF Idle
  <2>3. user.exists
    BY <1>7 DEF RefuseRefresh, HandlersInv, Fits
  <2>4. UNCHANGED tables
    BY <1>7 DEF RefuseRefresh
  <2> QED BY <1>p, <2>1, <2>2, <2>3, <2>4 DEF Idle
<1>8. CASE AnswerRefresh(h)
  <2> DEFINE c == call[h]
             d == [at |-> "mint", cred |-> c.cred, parent |-> c.t, barred |-> c.barred]
  <2>0. UNCHANGED tables /\ c.at = "refresh" /\ c.rotated /\ c.seen # "todo"
    BY <1>8 DEF AnswerRefresh
  <2>1. c \in [at : {"refresh"}, t : Tokens, rotated : BOOLEAN, cred : Creds,
               seen : {"todo", "active", "inactive"}, barred : BOOLEAN]
    BY <2>0, CallFields
  <2>2. CASE c.seen = "inactive"
    <3>1. Goto(h, Idle)
      BY <1>8, <2>2 DEF AnswerRefresh
    <3>2. Idle \in Call /\ Idle.at = "idle"
      BY CallPlaces DEF Idle
    <3> QED BY <1>p, <2>0, <3>1, <3>2
  <2>3. CASE c.seen # "inactive"
    <3>1. Goto(h, d)
      BY <1>8, <2>3 DEF AnswerRefresh
    <3>2. d \in [at : {"mint"}, cred : Creds, parent : Tokens \cup {NoToken}, barred : BOOLEAN]
          /\ d.at = "mint" /\ d.cred = c.cred /\ d.parent = c.t /\ d.barred = c.barred
      BY <2>1
    <3>3. d \in Call
      BY <3>2, CallPlaces
    <3>4. Fits(c) /\ c.seen = "active"
      BY <2>1, <2>0, <2>3 DEF HandlersInv
    <3>5. RotatedAt(d) = RotatedAt(c)
      BY <2>0, <3>2 DEF RotatedAt
    <3>6. Fits(d)
      <4> HIDE DEF d, c
      <4> QED BY <2>0, <3>2, <3>4, <3>5 DEF Fits
    <3> HIDE DEF d
    <3> QED BY <2>0, <3>1, <3>2, <3>3, <3>5, <3>6 DEF Consults
  <2> QED BY <2>2, <2>3
<1>9. CASE Interrupt(h)
  <2>1. Idle \in Call /\ Idle.at = "idle"
    BY CallPlaces DEF Idle
  <2> QED BY <1>9, <1>p, <2>1 DEF Interrupt
<1>10. ASSUME NEW t \in Tokens, Refresh(h, t) PROVE \E c \in Call : Consults(h, c)
  <2> DEFINE c == [at |-> "refresh", t |-> t, rotated |-> FALSE, cred |-> NoPassword, seen |-> "todo", barred |-> Inactive]
  <2>1. c \in [at : {"refresh"}, t : Tokens, rotated : BOOLEAN, cred : Creds,
               seen : {"todo", "active", "inactive"}, barred : BOOLEAN]
        /\ c.at = "refresh" /\ ~c.rotated /\ c.seen = "todo" /\ (c.barred => Inactive)
    BY DEF Creds, Inactive, User
  <2>2. c \in Call
    BY <2>1, CallPlaces
  <2>3. Goto(h, c) /\ UNCHANGED tables
    BY <1>10 DEF Refresh, Start
  <2>4. SignedIn
    BY <1>10 DEF Refresh, SignedIn
  <2>5. user.exists /\ ~user.isGuest
    BY <2>4 DEF AccountInv
  <2>6. RotatedAt(c) = NoToken
    BY <2>1 DEF RotatedAt
  <2>7. Fits(c)
    <3> HIDE DEF c
    <3> QED BY <2>1, <2>5, <2>6 DEF Fits
  <2> HIDE DEF c
  <2> QED BY <2>1, <2>2, <2>3, <2>6, <2>7 DEF Consults
<1>11. ASSUME NEW l \in Links, VerifyEmail(h, l) PROVE \E c \in Call : Consults(h, c)
  <2> DEFINE c == [at |-> "verify", l |-> l]
  <2>1. c \in Call
    BY DEF Call
  <2>2. Goto(h, c) /\ UNCHANGED tables /\ link[l].kind = "verify"
    BY <1>11 DEF VerifyEmail, Start, Open
  <2>3. user.exists
    BY <2>2 DEF AccountInv
  <2> QED BY <1>p, <2>1, <2>2, <2>3
<1>12. ASSUME NEW l \in Links, NEW pw \in Passwords, ResetPassword(h, l, pw) PROVE \E c \in Call : Consults(h, c)
  <2> DEFINE c == [at |-> "reset", l |-> l, pw |-> pw]
  <2>1. c \in [at : {"reset", "newPassword"}, l : Links, pw : Passwords] /\ c.at = "reset" /\ c.l = l
    OBVIOUS
  <2>2. c \in Call
    BY <2>1, CallPlaces
  <2>3. Goto(h, c) /\ UNCHANGED tables /\ link[l].kind = "reset"
    BY <1>12 DEF ResetPassword, Start, Open
  <2>4. user.exists
    BY <2>3 DEF AccountInv
  <2> HIDE DEF c
  <2>5. RotatedAt(c) = NoToken /\ Fits(c)
    BY <2>1, <2>3, <2>4 DEF RotatedAt, Fits
  <2> QED BY <2>1, <2>2, <2>3, <2>5 DEF Consults
<1>13. ASSUME NEW pw \in Passwords, NEW keep \in Tokens \cup {NoToken}, PutPassword(h, pw, keep)
       PROVE  \E c \in Call : Consults(h, c)
  <2> DEFINE c == [at |-> "change", pw |-> pw, keep |-> keep]
  <2>1. c \in Call /\ c.at = "change"
    BY DEF Call
  <2>2. Goto(h, c) /\ UNCHANGED tables /\ SignedIn
    BY <1>13 DEF PutPassword, Start
  <2>3. user.exists /\ ~user.isGuest
    BY <2>2 DEF AccountInv
  <2> HIDE DEF c
  <2>4. RotatedAt(c) = NoToken /\ Fits(c)
    BY <2>1, <2>3 DEF RotatedAt, Fits
  <2> QED BY <2>1, <2>2, <2>4 DEF Consults
<1> QED BY <1>1, <1>2, <1>3, <1>4, <1>5, <1>6, <1>7, <1>8, <1>9, <1>10, <1>11, <1>12, <1>13 DEF Consulting

(* Reading keeps the invariant.                                             *)
LEMMA ConsultKeeps ==
  ASSUME SessionsInv, NEW h \in Handlers, NEW c \in Call, Consults(h, c)
  PROVE  SessionsInv'
<1>1. UNCHANGED <<user, token, link, outbox>> /\ Goto(h, c) /\ Fits(c)
  BY DEF Consults, tables
<1>2. Steady
  BY <1>1 DEF Steady, Inactive, Known
<1>3. Fits(c)'
  BY <1>1 DEF Fits, Known, Inactive, RotatedAt
<1>4. HandlersInv'
  BY <1>1, <1>2, <1>3, HandlersSteady DEF Consults, SessionsInv
<1>5. SessionsTypeOK'
  BY <1>1, SessionGoto DEF SessionsTypeOK, SessionsInv
<1>6. AccountInv' /\ TokensInv' /\ LinksInv'
  BY <1>1 DEF AccountInv, TokensInv, LinksInv, SessionsInv, SignedIn, Live, Known
<1> QED BY <1>4, <1>5, <1>6 DEF SessionsInv

-----------------------------------------------------------------------------
(* Sessions: the handlers that write                                       *)

(* Revoking keeps every token's history, and what it leaves live must still *)
(* be known.                                                                *)
LEMMA RevokedTokens ==
  ASSUME SessionsTypeOK, TokensInv, NEW T \in SUBSET Tokens, token' = Revoked(T),
         \A cred \in Creds, t \in Tokens \ T : Live(t) /\ token[t].cred = cred => Known(cred)'
  PROVE  /\ token' \in [Tokens -> Token] /\ TokensInv' /\ SignedIn' = SignedIn
         /\ \A t \in Tokens : token[t].status = "revoked" => token'[t].status = "revoked"
         /\ \A t \in Tokens : token'[t].parent = token[t].parent
         /\ \A t \in Tokens : t \in T /\ Live(t) => token'[t].status = "revoked"
<1> USE DEF SessionsTypeOK
<1>1. ASSUME NEW t \in Tokens
      PROVE  /\ token'[t] \in Token
             /\ token'[t].parent = token[t].parent
             /\ (t \in T /\ Live(t) => token'[t].status = "revoked" /\ token'[t].cred = NoPassword)
             /\ (~(t \in T /\ Live(t)) => token'[t] = token[t])
  <2>1. CASE t \in T /\ Live(t)
    <3>1. token'[t] = [token[t] EXCEPT !.status = "revoked", !.cred = NoPassword]
      BY <2>1 DEF Revoked
    <3>2. token[t] \in Token /\ NoPassword \in Creds
      BY DEF Creds
    <3> QED BY <2>1, <3>1, <3>2 DEF Token
  <2>2. CASE ~(t \in T /\ Live(t))
    BY <2>2 DEF Revoked
  <2> QED BY <2>1, <2>2
<1>2. token' \in [Tokens -> Token]
  <2>1. token' = [t \in Tokens |-> IF t \in T /\ Live(t) THEN [token[t] EXCEPT !.status = "revoked", !.cred = NoPassword]
                                   ELSE token[t]]
    BY DEF Revoked
  <2> QED BY <1>1, <2>1
<1>3. \A t \in Tokens : token[t].status = "revoked" => token'[t].status = "revoked"
  BY <1>1 DEF Live
<1>4. SignedIn' = SignedIn
  BY <1>1 DEF SignedIn, Live
<1>5. ASSUME NEW t \in Tokens PROVE IF Live(t)' THEN Known(token[t].cred)' ELSE token'[t].cred = NoPassword
  <2>1. CASE t \in T /\ Live(t)
    BY <1>1, <2>1 DEF Live
  <2>2. CASE ~(t \in T /\ Live(t))
    <3>1. token'[t] = token[t] /\ token[t].cred \in Creds
      BY <1>1, <2>2 DEF Token
    <3>2. PICK cred \in Creds : cred = token[t].cred
      BY <3>1
    <3>3. Live(t) => Known(cred)'
      BY <2>2, <3>2
    <3> QED BY <3>1, <3>2, <3>3 DEF TokensInv, Live, Known
  <2> QED BY <2>1, <2>2
<1>6. ASSUME NEW t \in Tokens, token'[t].parent # NoToken PROVE token'[token'[t].parent].status = "revoked"
  <2>1. token[t].parent \in Tokens
    BY <1>1, <1>6 DEF Token
  <2> QED BY <1>1, <1>3, <1>6, <2>1 DEF TokensInv
<1>7. TokensInv'
  BY <1>1, <1>5, <1>6 DEF TokensInv
<1> QED BY <1>1, <1>2, <1>3, <1>4, <1>7

(* Every step that changes a row, with what it keeps.                       *)
LEMMA CreateTokensKeeps == ASSUME SessionsInv, NEW h \in Handlers, CreateTokens(h) PROVE SessionsInv'
<1> USE DEF SessionsInv, SessionsTypeOK
<1> DEFINE c == call[h]
<1>1. c \in [at : {"mint"}, cred : Creds, parent : Tokens \cup {NoToken}, barred : BOOLEAN] /\ Fits(c)
  BY CallFields DEF CreateTokens, HandlersInv
<1>2. PICK t \in Tokens : token[t].status = "none"
         /\ token' = [token EXCEPT ![t] = [status |-> "live", expired |-> FALSE, cred |-> c.cred, parent |-> c.parent]]
  BY DEF CreateTokens
<1>3. Goto(h, Idle) /\ UNCHANGED <<user, link, outbox>>
  BY DEF CreateTokens
<1>4. Known(c.cred) /\ user.exists /\ ~user.isGuest
      /\ (c.parent # NoToken => token[c.parent].status = "revoked" /\ \A s \in Tokens : token[s].parent # c.parent)
  BY <1>1 DEF Fits, RotatedAt
<1>5. [status |-> "live", expired |-> FALSE, cred |-> c.cred, parent |-> c.parent] \in Token
  BY <1>1 DEF Token
<1>6. token' \in [Tokens -> Token]
  BY <1>2, <1>5
<1>7. \A s \in Tokens : IF s = t THEN token'[s].status = "live" /\ token'[s].cred = c.cred /\ token'[s].parent = c.parent
                        ELSE token'[s] = token[s]
  BY <1>2
<1>8. AccountInv'
  BY <1>3, <1>4 DEF AccountInv
<1>9. TokensInv'
  <2>1. ASSUME NEW s \in Tokens PROVE IF Live(s)' THEN Known(token[s].cred)' ELSE token'[s].cred = NoPassword
    BY <1>3, <1>4, <1>7 DEF TokensInv, Live, Known
  <2>2. ASSUME NEW s \in Tokens, token'[s].parent # NoToken PROVE token'[token'[s].parent].status = "revoked"
    <3>1. token'[s].parent \in Tokens
      BY <1>6, <2>2 DEF Token
    <3>2. token[token'[s].parent].status = "revoked"
      BY <1>4, <1>7, <2>2 DEF TokensInv
    <3> QED BY <1>2, <1>7, <3>1, <3>2
  <2>3. ASSUME NEW r \in Tokens, NEW s \in Tokens, r # s, token'[r].parent # NoToken
        PROVE  token'[r].parent # token'[s].parent
    BY <1>4, <1>7, <2>3 DEF TokensInv
  <2> QED BY <2>1, <2>2, <2>3 DEF TokensInv
<1>10. Idle \in Call /\ Idle.at = "idle" /\ RotatedAt(Idle) = NoToken /\ Fits(Idle)'
  BY CallPlaces DEF Idle, RotatedAt, Fits
<1>11. ASSUME NEW g \in Handlers \ {h} PROVE KeepsAt(g) /\ Apart(Idle, call[g]) /\ Apart(call[g], Idle)
  <2>0. PICK d \in Call : d = call[g]
    OBVIOUS
  <2>1. Fits(d) /\ Apart(d, c)
    BY <2>0 DEF HandlersInv
  <2>2. RotatedAt(c) = c.parent
    BY <1>1 DEF RotatedAt
  <2>3. \A s \in Tokens : token'[s].parent \in {token[s].parent, NoToken} \/ token'[s].parent # RotatedAt(d)
    BY <1>7, <2>1, <2>2 DEF Apart
  <2>4. Keeps(d)
    <3>1. Known(d.cred) => Known(d.cred)'
      BY <1>3 DEF Known
    <3>2. \A s \in Tokens : token[s].status = "revoked" => token'[s].status = "revoked"
      BY <1>2, <1>7
    <3> QED BY <1>3, <2>3, <3>1, <3>2 DEF Keeps, Inactive
  <2>5. Apart(Idle, call[g]) /\ Apart(call[g], Idle)
    BY <1>10 DEF Apart
  <2> QED BY <2>0, <2>4, <2>5 DEF KeepsAt
<1>12. HandlersInv'
  BY <1>3, <1>10, <1>11, HandlersMove
<1>13. LinksInv'
  BY <1>3 DEF LinksInv
<1>14. SessionsTypeOK'
  BY <1>3, <1>6, <1>10, SessionGoto
<1> QED BY <1>8, <1>9, <1>12, <1>13, <1>14

LEMMA RotateKeeps == ASSUME SessionsInv, NEW h \in Handlers, Rotate(h) PROVE SessionsInv'
<1> USE DEF SessionsInv, SessionsTypeOK
<1> DEFINE c == call[h]
           t == c.t
<1>1. c \in [at : {"refresh"}, t : Tokens, rotated : BOOLEAN, cred : Creds,
             seen : {"todo", "active", "inactive"}, barred : BOOLEAN] /\ Fits(c) /\ ~c.rotated
      /\ UNCHANGED <<user, link, outbox>>
  BY CallFields DEF Rotate, HandlersInv
<1>2. CASE ~Live(t)
  <2> DEFINE d == [at |-> "refused", t |-> t]
  <2>1. Goto(h, d) /\ UNCHANGED tables
    BY <1>1, <1>2 DEF Rotate, tables
  <2>2. d \in Call /\ d.at = "refused"
    BY <1>1 DEF Call
  <2>3. user.exists
    BY <1>1 DEF Fits
  <2>4. Fits(d) /\ RotatedAt(d) = NoToken
    BY <2>2, <2>3, PlainPlaces
  <2> HIDE DEF d
  <2>5. Consults(h, d)
    BY <2>1, <2>2, <2>4 DEF Consults
  <2> QED BY <2>2, <2>5, ConsultKeeps
<1>3. CASE Live(t)
  <2>2. token[t] \in Token /\ Known(token[t].cred)
    BY <1>1, <1>3 DEF TokensInv
  <2>0. PICK s \in Tokens, b \in BOOLEAN : s = t /\ b = c.barred
    BY <1>1
  <2>1. PICK d \in Call :
           /\ token' = Revoked({s}) /\ Goto(h, d)
           /\ d.at = "refresh" /\ d.t = s /\ d.rotated /\ d.cred = token[s].cred /\ d.seen = c.seen /\ d.barred = b
    <3> DEFINE e == [c EXCEPT !.rotated = TRUE, !.cred = token[t].cred]
    <3>1. token' = Revoked({t}) /\ Goto(h, e)
      BY <1>3 DEF Rotate
    <3>2. e \in [at : {"refresh"}, t : Tokens, rotated : BOOLEAN, cred : Creds,
                 seen : {"todo", "active", "inactive"}, barred : BOOLEAN]
          /\ e.at = "refresh" /\ e.t = t /\ e.rotated /\ e.cred = token[t].cred /\ e.seen = c.seen /\ e.barred = c.barred
      BY <1>1, <2>2 DEF Token
    <3>3. e \in Call
      BY <3>2, CallPlaces
    <3> HIDE DEF e
    <3> QED BY <2>0, <3>1, <3>2, <3>3
  <2>3. Live(s) /\ token[s] \in Token /\ Known(d.cred) /\ (b => Inactive /\ d.seen # "active") /\ user.exists /\ ~user.isGuest
    BY <1>1, <1>3, <2>0, <2>1, <2>2 DEF Fits
  <2>5. \A cred : Known(cred)' = Known(cred)
    BY <1>1 DEF Known
  <2>6. /\ token' \in [Tokens -> Token] /\ TokensInv' /\ SignedIn' = SignedIn
        /\ \A r \in Tokens : token[r].status = "revoked" => token'[r].status = "revoked"
        /\ \A r \in Tokens : token'[r].parent = token[r].parent
        /\ token'[s].status = "revoked"
    <3>1. ASSUME NEW cred \in Creds, NEW r \in Tokens, Live(r), token[r].cred = cred PROVE Known(cred)'
      BY <2>5, <3>1 DEF TokensInv
    <3>2. {s} \in SUBSET Tokens /\ s \in {s}
      OBVIOUS
    <3>3. \A cred \in Creds, r \in Tokens \ {s} : Live(r) /\ token[r].cred = cred => Known(cred)'
      BY <3>1
    <3>4. SessionsTypeOK /\ TokensInv
      OBVIOUS
    <3> HIDE DEF SessionsInv, SessionsTypeOK
    <3> QED BY <2>1, <2>3, <3>2, <3>3, <3>4, RevokedTokens
  <2>7. \A r \in Tokens : token[r].parent # s
    BY <2>3, SessionsAssumption DEF TokensInv, Live
  <2>8. RotatedAt(d) = s /\ s # NoToken
    BY <2>1, SessionsAssumption DEF RotatedAt
  <2>10. Fits(d)'
    <3>1. RotatedAt(d)' = s
      BY <2>1 DEF RotatedAt
    <3>2. Known(d.cred)'
      BY <2>3, <2>5
    <3>3. Inactive' = Inactive
      BY <1>1 DEF Inactive
    <3>4. token'[s].status = "revoked" /\ \A r \in Tokens : token'[r].parent # s
      BY <2>6, <2>7
    <3> QED BY <1>1, <2>1, <2>3, <3>1, <3>2, <3>3, <3>4 DEF Fits
  <2>11. Steady
    BY <1>1, <2>5, <2>6 DEF Steady, Inactive
  <2>12. ASSUME NEW g \in Handlers \ {h} PROVE KeepsAt(g) /\ Apart(d, call[g]) /\ Apart(call[g], d)
    <3>1. KeepsAt(g)
      BY <2>11, SteadyKeeps DEF KeepsAt
    <3>2. RotatedAt(call[g]) # NoToken => token[RotatedAt(call[g])].status = "revoked"
      BY DEF HandlersInv, Fits
    <3>3. RotatedAt(call[g]) # s
      BY <2>3, <2>8, <3>2 DEF Live
    <3> QED BY <2>1, <2>8, <3>1, <3>3 DEF Apart
  <2>13. HandlersInv'
    BY <2>1, <2>10, <2>12, HandlersMove
  <2>14. AccountInv' /\ LinksInv'
    BY <1>1, <2>6 DEF AccountInv, LinksInv
  <2>15. SessionsTypeOK'
    BY <1>1, <2>1, <2>6, SessionGoto
  <2> QED BY <2>6, <2>13, <2>14, <2>15
<1> QED BY <1>2, <1>3

(* The tokens as they were, with what was known known still.                *)
LEMMA TokensKept == ASSUME TokensInv, token' = token, \A cred : Known(cred) => Known(cred)' PROVE TokensInv'
<1>1. ASSUME NEW t \in Tokens PROVE IF Live(t)' THEN Known(token[t].cred)' ELSE token'[t].cred = NoPassword
  <2>1. PICK cred : cred = token[t].cred
    OBVIOUS
  <2>2. Live(t) => Known(cred)'
    BY <2>1 DEF TokensInv
  <2> QED BY <2>1, <2>2 DEF TokensInv, Live, Known
<1> QED BY <1>1 DEF TokensInv

(* An account that is not there gives no password to know.                  *)
LEMMA NoAccount ==
  ASSUME SessionsInv, ~user.exists
  PROVE  /\ user = NoUser /\ outbox = {} /\ ~SignedIn /\ ~Inactive
         /\ \A l \in Links : link[l].kind = "none"
         /\ \A cred : Known(cred) => cred \in {Google, Stale}
  BY SessionsAssumption DEF SessionsInv, AccountInv, NoUser, Known, Inactive

(* A step by h to a place that stands for nothing, on a table of users that *)
(* keeps what is known, with tokens and links as they were.                 *)
LEMMA UserStep ==
  ASSUME SessionsInv, user' \in User, user'.isGuest => user'.passwordHash = NoPassword /\ ~user'.applicant,
         outbox' \subseteq {"verify", "reset"}, UNCHANGED <<token, link>>,
         user.exists => user'.exists, user'.isGuest => user.isGuest \/ ~user.exists, Inactive => Inactive',
         \A cred : Known(cred) => Known(cred)',
         AccountInv',
         \/ UNCHANGED call
         \/ \E h \in Handlers, c \in Call :
               Goto(h, c) /\ Fits(c)' /\ RotatedAt(c) \in {NoToken, RotatedAt(call[h])} /\ c.at # "newPassword"
  PROVE  SessionsInv'
<1>1. SessionsTypeOK /\ TokensInv /\ LinksInv /\ HandlersInv
  BY DEF SessionsInv
<1>2. Steady
  BY DEF Steady
<1>3. TokensInv' /\ LinksInv'
  BY <1>1, TokensKept DEF LinksInv
<1>4. CASE UNCHANGED call
  BY <1>1, <1>2, <1>3, <1>4, HandlersStay DEF SessionsInv, SessionsTypeOK
<1>5. ASSUME NEW h \in Handlers, NEW c \in Call,
             Goto(h, c), Fits(c)', RotatedAt(c) \in {NoToken, RotatedAt(call[h])}, c.at # "newPassword"
      PROVE  SessionsInv'
  <2>1. HandlersInv'
    BY <1>1, <1>2, <1>5, HandlersSteady
  <2>2. SessionsTypeOK'
    BY <1>1, <1>5, SessionGoto DEF SessionsTypeOK
  <2> QED BY <1>3, <2>1, <2>2 DEF SessionsInv
<1> QED BY <1>4, <1>5

LEMMA IdlePlace ==
  /\ Idle \in Call /\ Idle.at = "idle" /\ RotatedAt(Idle) = NoToken
  /\ Fits(Idle) /\ Fits(Idle)'
<1>1. Idle \in Call /\ Idle.at = "idle"
  BY CallPlaces DEF Idle
<1>2. RotatedAt(Idle) = NoToken /\ RotatedAt(Idle)' = NoToken
  BY <1>1 DEF RotatedAt
<1> QED BY <1>1, <1>2 DEF Fits

LEMMA CreateAccountKeeps == ASSUME SessionsInv, NEW h \in Handlers, CreateAccount(h) PROVE SessionsInv'
<1>1. call[h].pw \in Passwords /\ call[h].applicant \in BOOLEAN /\ UNCHANGED <<token, link>>
  BY CallFields DEF CreateAccount, SessionsInv, SessionsTypeOK
<1>2. CASE user.exists
  <2>1. Consults(h, Idle)
    BY <1>1, <1>2, IdlePlace DEF CreateAccount, Consults, tables
  <2> QED BY <2>1, IdlePlace, ConsultKeeps
<1>3. CASE ~user.exists
  <2>1. PICK pw \in Passwords, applicant \in BOOLEAN :
           /\ user' = [NoUser EXCEPT !.exists = TRUE, !.passwordHash = pw, !.applicant = applicant]
           /\ outbox' = Queued("verify")
           /\ Goto(h, IF applicant THEN Idle ELSE Minting(pw))
    BY <1>1, <1>3 DEF CreateAccount
  <2>2. /\ user' \in User /\ user'.exists /\ ~user'.isGuest /\ ~user'.wasGuest
        /\ user'.passwordHash = pw /\ user'.applicant = applicant
    BY <2>1 DEF NoUser, User
  <2>3. outbox' \subseteq {"verify", "reset"}
    BY <2>1 DEF Queued, SessionsInv, SessionsTypeOK
  <2>4. \A cred : Known(cred) => Known(cred)'
    BY <1>3, NoAccount DEF Known
  <2>5. AccountInv'
    BY <2>2 DEF AccountInv
  <2>6. PICK c \in Call : Goto(h, c) /\ Fits(c)' /\ RotatedAt(c) = NoToken /\ c.at # "newPassword"
    <3>1. CASE applicant
      BY <2>1, <3>1, IdlePlace
    <3>2. CASE ~applicant
      <4>1. pw \in Creds /\ Known(pw)'
        BY <2>2, <3>2 DEF Creds, Known
      <4> QED BY <2>1, <2>2, <3>2, <4>1, MintPlace
    <3> QED BY <3>1, <3>2
  <2> QED BY <1>1, <1>3, <2>2, <2>3, <2>4, <2>5, <2>6, NoAccount, UserStep
<1> QED BY <1>2, <1>3

LEMMA CreateGoogleKeeps == ASSUME SessionsInv, NEW h \in Handlers, CreateGoogleAccount(h) PROVE SessionsInv'
<1>1. call[h].applicant \in BOOLEAN /\ UNCHANGED <<token, link, outbox>>
  BY CallFields DEF CreateGoogleAccount, SessionsInv, SessionsTypeOK
<1>2. CASE user.exists
  <2>1. Consults(h, Idle)
    BY <1>1, <1>2, IdlePlace DEF CreateGoogleAccount, Consults, tables
  <2> QED BY <2>1, IdlePlace, ConsultKeeps
<1>3. CASE ~user.exists
  <2>1. /\ user' = [NoUser EXCEPT !.exists = TRUE, !.emailVerified = TRUE, !.applicant = call[h].applicant]
        /\ Goto(h, Minting(Google))
    BY <1>3 DEF CreateGoogleAccount
  <2>2. user' \in User /\ user'.exists /\ ~user'.isGuest /\ ~user'.wasGuest /\ user'.emailVerified
    BY <1>1, <2>1 DEF NoUser, User
  <2>3. \A cred : Known(cred) => Known(cred)'
    BY <1>3, NoAccount DEF Known
  <2>4. AccountInv'
    BY <2>2 DEF AccountInv
  <2>5. Google \in Creds /\ Known(Google)'
    BY DEF Creds, Known
  <2>6. \E c \in Call : Goto(h, c) /\ Fits(c)' /\ RotatedAt(c) = NoToken /\ c.at # "newPassword"
    BY <2>1, <2>2, <2>5, MintPlace
  <2>7. outbox' \subseteq {"verify", "reset"}
    BY <1>1 DEF SessionsInv, SessionsTypeOK
  <2> QED BY <1>1, <1>3, <2>2, <2>3, <2>4, <2>6, <2>7, NoAccount, UserStep
<1> QED BY <1>2, <1>3

LEMMA CreateGuestKeeps == ASSUME SessionsInv, NEW h \in Handlers, CreateGuest(h) PROVE SessionsInv'
<1>1. Goto(h, Idle) /\ UNCHANGED <<token, link, outbox>>
  BY DEF CreateGuest
<1>2. CASE user.exists
  <2>1. Consults(h, Idle)
    BY <1>1, <1>2, IdlePlace DEF CreateGuest, Consults, tables
  <2> QED BY <2>1, IdlePlace, ConsultKeeps
<1>3. CASE ~user.exists
  <2>1. user' = [NoUser EXCEPT !.exists = TRUE, !.isGuest = TRUE, !.wasGuest = TRUE]
    BY <1>3 DEF CreateGuest
  <2>2. user' \in User /\ user'.exists /\ user'.isGuest /\ user'.passwordHash = NoPassword /\ ~user'.applicant
    BY <2>1 DEF NoUser, User
  <2>3. \A cred : Known(cred) => Known(cred)'
    BY <1>3, NoAccount DEF Known
  <2>4. AccountInv'
    BY <1>1, <1>3, <2>2, NoAccount DEF AccountInv, SignedIn
  <2>5. outbox' \subseteq {"verify", "reset"}
    BY <1>1 DEF SessionsInv, SessionsTypeOK
  <2> QED BY <1>1, <1>3, <2>2, <2>3, <2>4, <2>5, NoAccount, IdlePlace, UserStep
<1> QED BY <1>2, <1>3

LEMMA ClaimKeeps == ASSUME SessionsInv, NEW h \in Handlers, ClaimGuestAccount(h) PROVE SessionsInv'
<1>1. /\ user' = [user EXCEPT !.isGuest = FALSE, !.emailVerified = TRUE]
      /\ Goto(h, IF Inactive THEN Idle ELSE Minting(Google)) /\ UNCHANGED <<token, link, outbox>> /\ call[h].at = "claim"
  BY DEF ClaimGuestAccount
<1>2. /\ user' \in User /\ user'.exists = user.exists /\ ~user'.isGuest /\ user'.emailVerified
      /\ user'.passwordHash = user.passwordHash /\ user'.applicant = user.applicant
      /\ user'.isSuspended = user.isSuspended /\ user'.isDeactivated = user.isDeactivated
  BY <1>1 DEF User, SessionsInv, SessionsTypeOK
<1>3. user.exists
  BY <1>1 DEF SessionsInv, HandlersInv, Fits
<1>4. \A cred : Known(cred) => Known(cred)'
  BY <1>2 DEF Known
<1>5. Inactive' = Inactive
  BY <1>2 DEF Inactive
<1>6. AccountInv'
  BY <1>2, <1>3 DEF AccountInv
<1>7. \E c \in Call : Goto(h, c) /\ Fits(c)' /\ RotatedAt(c) = NoToken /\ c.at # "newPassword"
  <2>1. Google \in Creds /\ Known(Google)'
    BY DEF Creds, Known
  <2>2. CASE Inactive
    BY <1>1, <2>2, IdlePlace
  <2>3. CASE ~Inactive
    BY <1>1, <1>2, <1>3, <2>1, <2>3, MintPlace
  <2> QED BY <2>2, <2>3
<1>8. outbox' \subseteq {"verify", "reset"}
  BY <1>1 DEF SessionsInv, SessionsTypeOK
<1> QED BY <1>1, <1>2, <1>3, <1>4, <1>5, <1>6, <1>7, <1>8, UserStep

(* Barring the account, and deciding on the application.                    *)
LEMMA BarKeeps == ASSUME SessionsInv, NEW h \in Handlers, NEW flag, Bar(h, flag) PROVE SessionsInv'
<1>1. /\ user' = [user EXCEPT !.isSuspended = TRUE] \/ user' = [user EXCEPT !.isDeactivated = TRUE]
      /\ Goto(h, [at |-> "revokeAll"]) /\ UNCHANGED <<token, link, outbox>> /\ user.exists
  BY DEF Bar, Start
<1>2. /\ user' \in User /\ user'.exists = user.exists /\ user'.isGuest = user.isGuest
      /\ user'.emailVerified = user.emailVerified /\ user'.wasGuest = user.wasGuest
      /\ user'.passwordHash = user.passwordHash /\ user'.applicant = user.applicant
      /\ user'.isSuspended \/ user'.isDeactivated
  BY <1>1 DEF User, SessionsInv, SessionsTypeOK
<1>3. \A cred : Known(cred) => Known(cred)'
  BY <1>2 DEF Known
<1>4. Inactive'
  BY <1>2 DEF Inactive
<1>5. AccountInv'
  BY <1>1, <1>2 DEF AccountInv, SessionsInv, SignedIn
<1>6. PICK c \in Call : c = [at |-> "revokeAll"]
  BY CallPlaces
<1>7. c.at = "revokeAll" /\ RotatedAt(c) = NoToken /\ RotatedAt(c)' = NoToken
  BY <1>6 DEF RotatedAt
<1>8. Fits(c)'
  BY <1>1, <1>2, <1>7 DEF Fits
<1>9. outbox' \subseteq {"verify", "reset"} /\ (user'.isGuest => user'.passwordHash = NoPassword /\ ~user'.applicant)
  BY <1>1, <1>2 DEF SessionsInv, SessionsTypeOK
<1> QED BY <1>1, <1>2, <1>3, <1>4, <1>5, <1>6, <1>7, <1>8, <1>9, UserStep

LEMMA DecideKeeps == ASSUME SessionsInv, DecideApplication PROVE SessionsInv'
<1>1. user' = [user EXCEPT !.applicant = FALSE] /\ UNCHANGED <<token, link, outbox, call>>
  BY DEF DecideApplication
<1>2. /\ user' \in User /\ user'.exists = user.exists /\ user'.isGuest = user.isGuest
      /\ user'.emailVerified = user.emailVerified /\ user'.wasGuest = user.wasGuest
      /\ user'.passwordHash = user.passwordHash /\ ~user'.applicant
      /\ user'.isSuspended = user.isSuspended /\ user'.isDeactivated = user.isDeactivated
  BY <1>1 DEF User, SessionsInv, SessionsTypeOK
<1>3. \A cred : Known(cred) => Known(cred)'
  BY <1>2 DEF Known
<1>4. Inactive' = Inactive
  BY <1>2 DEF Inactive
<1>5. user.exists
  BY DEF DecideApplication, SessionsInv, AccountInv, NoUser
<1>6. AccountInv'
  BY <1>1, <1>2, <1>5 DEF AccountInv, SessionsInv, SignedIn
<1>7. outbox' \subseteq {"verify", "reset"} /\ (user'.isGuest => user'.passwordHash = NoPassword /\ ~user'.applicant)
  BY <1>1, <1>2 DEF SessionsInv, SessionsTypeOK
<1> QED BY <1>1, <1>2, <1>3, <1>4, <1>6, <1>7, UserStep

(* Ending sessions: of h's step only the tokens are new.                    *)
LEMMA TokenStep ==
  ASSUME SessionsInv, NEW T \in SUBSET Tokens, token' = Revoked(T), UNCHANGED <<user, link, outbox>>,
         UNCHANGED call \/ \E h \in Handlers : Goto(h, Idle)
  PROVE  SessionsInv'
<1>1. SessionsTypeOK /\ TokensInv /\ HandlersInv
  BY DEF SessionsInv
<1>2. \A cred : Known(cred)' = Known(cred)
  BY DEF Known
<1>3. \A cred \in Creds, t \in Tokens \ T : Live(t) /\ token[t].cred = cred => Known(cred)'
  BY <1>1, <1>2 DEF TokensInv
<1>4. /\ token' \in [Tokens -> Token] /\ TokensInv' /\ SignedIn' = SignedIn
      /\ \A t \in Tokens : token[t].status = "revoked" => token'[t].status = "revoked"
      /\ \A t \in Tokens : token'[t].parent = token[t].parent
  BY <1>1, <1>3, RevokedTokens
<1>5. Steady
  BY <1>2, <1>4 DEF Steady, Inactive
<1>6. AccountInv' /\ LinksInv'
  BY <1>4 DEF AccountInv, LinksInv, SessionsInv
<1>7. CASE UNCHANGED call
  BY <1>1, <1>4, <1>5, <1>6, <1>7, HandlersStay DEF SessionsInv, SessionsTypeOK
<1>8. ASSUME NEW h \in Handlers, Goto(h, Idle) PROVE SessionsInv'
  <2>1. HandlersInv'
    BY <1>1, <1>5, <1>8, IdlePlace, HandlersSteady
  <2>2. SessionsTypeOK'
    BY <1>1, <1>4, <1>8, IdlePlace, SessionGoto DEF SessionsTypeOK
  <2> QED BY <1>4, <1>6, <2>1, <2>2 DEF SessionsInv
<1> QED BY <1>7, <1>8

LEMMA EndKeeps ==
  ASSUME SessionsInv, NEW h \in Handlers,
         RevokeAll(h) \/ \E t \in Tokens : EndSession(h, t) \/ DeleteSession(h, t)
  PROVE  SessionsInv'
<1>1. CASE RevokeAll(h)
  BY <1>1, TokenStep DEF RevokeAll
<1>2. ASSUME NEW t \in Tokens, EndSession(h, t) PROVE SessionsInv'
  <2>1. {t} \in SUBSET Tokens
    OBVIOUS
  <2> QED BY <1>2, <2>1, TokenStep DEF EndSession
<1> QED BY <1>1, <1>2 DEF DeleteSession

LEMMA ExpireTokenKeeps == ASSUME SessionsInv, NEW t \in Tokens, ExpireToken(t) PROVE SessionsInv'
<1>1. token' = [token EXCEPT ![t].expired = TRUE] /\ UNCHANGED <<user, link, outbox, call>>
  BY DEF ExpireToken
<1>2. token' \in [Tokens -> Token]
      /\ \A s \in Tokens : token'[s].status = token[s].status /\ token'[s].cred = token[s].cred /\ token'[s].parent = token[s].parent
  BY <1>1 DEF Token, SessionsInv, SessionsTypeOK
<1>3. SignedIn' = SignedIn
  BY <1>2 DEF SignedIn
<1>4. ASSUME NEW s \in Tokens PROVE IF Live(s)' THEN Known(token[s].cred)' ELSE token'[s].cred = NoPassword
  BY <1>1, <1>2 DEF TokensInv, Live, Known, SessionsInv
<1>5. ASSUME NEW s \in Tokens, token'[s].parent # NoToken PROVE token'[token'[s].parent].status = "revoked"
  <2>1. token[s].parent \in Tokens /\ token'[s].parent = token[s].parent
    BY <1>2, <1>5 DEF Token, SessionsInv, SessionsTypeOK
  <2> QED BY <1>2, <1>5, <2>1 DEF TokensInv, SessionsInv
<1>6. TokensInv'
  BY <1>2, <1>4, <1>5 DEF TokensInv, SessionsInv
<1>7. Steady
  BY <1>1, <1>2 DEF Steady, Inactive, Known
<1>8. HandlersInv'
  BY <1>1, <1>7, HandlersStay DEF SessionsInv
<1> QED BY <1>1, <1>2, <1>3, <1>6, <1>8 DEF SessionsInv, SessionsTypeOK, AccountInv, LinksInv

(* A step on the links and the outbox.                                      *)
LEMMA LinkStep ==
  ASSUME SessionsInv, link' \in [Links -> Link], outbox' \subseteq {"verify", "reset"}, UNCHANGED <<user, token>>,
         ~user.exists => outbox' = {} /\ \A l \in Links : link'[l].kind = "none",
         \A l \in Links : /\ link[l].kind # "none" => link'[l].kind = link[l].kind
                          /\ link[l].state = "used" => link'[l].state = "used"
                          /\ link'[l].done = link[l].done,
         \/ UNCHANGED call
         \/ \E h \in Handlers, c \in Call :
               /\ Goto(h, c) /\ Fits(c)' /\ RotatedAt(c) = NoToken
               /\ c.at = "newPassword" => link[c.l].state # "used"
  PROVE  SessionsInv'
<1>1. SessionsTypeOK /\ AccountInv /\ TokensInv /\ LinksInv /\ HandlersInv
  BY DEF SessionsInv
<1>2. Steady
  BY DEF Steady, Inactive, Known
<1>3. AccountInv' /\ TokensInv'
  BY <1>1 DEF AccountInv, TokensInv, SignedIn, Live, Known
<1>4. LinksInv'
  BY <1>1 DEF LinksInv
<1>5. CASE UNCHANGED call
  BY <1>1, <1>2, <1>3, <1>4, <1>5, HandlersStay DEF SessionsInv, SessionsTypeOK
<1>6. ASSUME NEW h \in Handlers, NEW c \in Call, Goto(h, c), Fits(c)', RotatedAt(c) = NoToken,
             c.at = "newPassword" => link[c.l].state # "used"
      PROVE  SessionsInv'
  <2>1. ASSUME NEW g \in Handlers \ {h} PROVE KeepsAt(g) /\ Apart(c, call[g]) /\ Apart(call[g], c)
    <3>1. KeepsAt(g)
      BY <1>2, SteadyKeeps DEF KeepsAt
    <3>2. call[g].at = "newPassword" => link[call[g].l].state = "used"
      BY <1>1 DEF HandlersInv, Fits
    <3> QED BY <1>6, <3>1, <3>2 DEF Apart
  <2>2. HandlersInv'
    BY <1>1, <1>6, <2>1, HandlersMove
  <2>3. SessionsTypeOK'
    BY <1>1, <1>6, SessionGoto DEF SessionsTypeOK
  <2> QED BY <1>3, <1>4, <2>2, <2>3 DEF SessionsInv
<1> QED BY <1>5, <1>6

LEMMA MailKeeps ==
  ASSUME SessionsInv,
         \/ \E h \in Handlers : ResendVerification(h) \/ ForgotPassword(h)
         \/ \E l \in Links : ExpireLink(l) \/ \E kind \in {"verify", "reset"} : SendLink(kind, l)
  PROVE  SessionsInv'
<1> USE DEF SessionsInv, SessionsTypeOK
<1>1. ASSUME NEW h \in Handlers, ResendVerification(h) \/ ForgotPassword(h) PROVE SessionsInv'
  <2>1. /\ UNCHANGED <<user, token, link, call>> /\ user.exists
        /\ outbox' \in {Queued("verify"), Queued("reset")}
    BY <1>1 DEF ResendVerification, ForgotPassword
  <2>2. outbox' \subseteq {"verify", "reset"}
    BY <2>1 DEF Queued
  <2>3. link' \in [Links -> Link]
        /\ \A l \in Links : /\ link[l].kind # "none" => link'[l].kind = link[l].kind
                            /\ link[l].state = "used" => link'[l].state = "used"
                            /\ link'[l].done = link[l].done
    BY <2>1
  <2> HIDE DEF SessionsInv, SessionsTypeOK
  <2> QED BY <2>1, <2>2, <2>3, LinkStep
<1>2. ASSUME NEW l \in Links, ExpireLink(l) PROVE SessionsInv'
  <2>1. /\ link' = [link EXCEPT ![l].state = "expired"] /\ UNCHANGED <<user, token, outbox, call>>
        /\ link[l].kind # "none" /\ link[l].state = "open"
    BY <1>2 DEF ExpireLink
  <2>2. link' \in [Links -> Link]
        /\ \A k \in Links : /\ link'[k].kind = link[k].kind /\ link'[k].done = link[k].done
                            /\ link[k].state = "used" => link'[k].state = "used"
    BY <2>1 DEF Link
  <2>3. ~user.exists => outbox' = {} /\ \A k \in Links : link'[k].kind = "none"
    BY <2>1, <2>2 DEF AccountInv
  <2>4. outbox' \subseteq {"verify", "reset"}
    BY <2>1
  <2> HIDE DEF SessionsInv
  <2> QED BY <2>1, <2>2, <2>3, <2>4, LinkStep
<1>3. ASSUME NEW l \in Links, NEW kind \in {"verify", "reset"}, SendLink(kind, l) PROVE SessionsInv'
  <2>1. /\ link' = [link EXCEPT ![l].kind = kind] /\ UNCHANGED <<user, token, call>>
        /\ outbox' \subseteq outbox /\ kind \in outbox /\ link[l].kind = "none"
    BY <1>3 DEF SendLink
  <2>2. link' \in [Links -> Link]
        /\ \A k \in Links : /\ link[k].kind # "none" => link'[k].kind = link[k].kind
                            /\ link'[k].done = link[k].done /\ link'[k].state = link[k].state
    BY <2>1 DEF Link
  <2>3. user.exists
    BY <2>1 DEF AccountInv
  <2>4. outbox' \subseteq {"verify", "reset"}
    BY <2>1
  <2> HIDE DEF SessionsInv
  <2> QED BY <2>1, <2>2, <2>3, <2>4, LinkStep
<1> HIDE DEF SessionsInv, SessionsTypeOK
<1> QED BY <1>1, <1>2, <1>3

(* The claim: a link that was not used is used now, by h.                   *)
LEMMA ClaimResetKeeps == ASSUME SessionsInv, NEW h \in Handlers, ClaimReset(h) PROVE SessionsInv'
<1> USE DEF SessionsInv, SessionsTypeOK
<1>1. PICK l \in Links, b \in Call : b = call[h] /\ l = b.l
  BY CallFields DEF ClaimReset
<1>2. b \in [at : {"reset", "newPassword"}, l : Links, pw : Passwords] /\ b.at = "reset" /\ Fits(b)
  BY <1>1, CallFields DEF ClaimReset, HandlersInv
<1>3. /\ link' = [link EXCEPT ![l].state = "used"] /\ UNCHANGED <<user, token, outbox>>
      /\ Goto(h, IF link[l].state = "used" THEN Idle ELSE [b EXCEPT !.at = "newPassword"])
  BY <1>1 DEF ClaimReset
<1>4. link[l].kind = "reset" /\ user.exists
  BY <1>1, <1>2 DEF Fits
<1>5. link' \in [Links -> Link]
      /\ \A k \in Links : /\ link'[k].kind = link[k].kind /\ link'[k].done = link[k].done
                          /\ link[k].state = "used" => link'[k].state = "used"
      /\ link'[l].state = "used"
  BY <1>3 DEF Link
<1>6. link[l].state # "used" => link[l].done = 0
  BY DEF LinksInv
<1>7. \E c \in Call : Goto(h, c) /\ Fits(c)' /\ RotatedAt(c) = NoToken /\ (c.at = "newPassword" => link[c.l].state # "used")
  <2>1. CASE link[l].state = "used"
    BY <1>3, <2>1, IdlePlace
  <2>2. CASE link[l].state # "used"
    <3> DEFINE c == [b EXCEPT !.at = "newPassword"]
    <3>1. c \in [at : {"reset", "newPassword"}, l : Links, pw : Passwords] /\ c.at = "newPassword" /\ c.l = l
      BY <1>1, <1>2
    <3>2. c \in Call
      BY <3>1, CallPlaces
    <3>3. Goto(h, c)
      BY <1>3, <2>2
    <3> HIDE DEF c
    <3>4. RotatedAt(c) = NoToken /\ RotatedAt(c)' = NoToken
      BY <3>1 DEF RotatedAt
    <3>5. Fits(c)'
      BY <1>3, <1>4, <1>5, <1>6, <2>2, <3>1, <3>4 DEF Fits
    <3> QED BY <2>2, <3>1, <3>2, <3>3, <3>4, <3>5
  <2> QED BY <2>1, <2>2
<1>8. outbox' \subseteq {"verify", "reset"}
  BY <1>3
<1> HIDE DEF SessionsInv
<1> QED BY <1>3, <1>4, <1>5, <1>7, <1>8, LinkStep

(* The address is verified, with the link used up.                          *)
LEMMA MarkVerifiedKeeps == ASSUME SessionsInv, NEW h \in Handlers, MarkVerified(h) PROVE SessionsInv'
<1>1. SessionsTypeOK /\ AccountInv /\ TokensInv /\ LinksInv /\ HandlersInv
  BY DEF SessionsInv
<1>2. PICK l \in Links : l = call[h].l
  BY <1>1, CallFields DEF MarkVerified, SessionsTypeOK
<1>3. /\ link' = [link EXCEPT ![l].state = "used"] /\ user' = [user EXCEPT !.emailVerified = TRUE]
      /\ Goto(h, Idle) /\ UNCHANGED <<token, outbox>>
  BY <1>2 DEF MarkVerified
<1>4. link' \in [Links -> Link]
      /\ \A k \in Links : /\ link'[k].kind = link[k].kind /\ link'[k].done = link[k].done
                          /\ link[k].state = "used" => link'[k].state = "used"
  BY <1>1, <1>3 DEF SessionsTypeOK, Link
<1>5. /\ user' \in User /\ user'.exists = user.exists /\ user'.isGuest = user.isGuest /\ user'.emailVerified
      /\ user'.passwordHash = user.passwordHash /\ user'.applicant = user.applicant
      /\ user'.isSuspended = user.isSuspended /\ user'.isDeactivated = user.isDeactivated
  BY <1>1, <1>3 DEF SessionsTypeOK, User
<1>6. user.exists
  BY <1>1 DEF MarkVerified, HandlersInv, Fits
<1>7. \A cred : Known(cred) => Known(cred)'
  BY <1>5 DEF Known
<1>8. Steady
  BY <1>3, <1>4, <1>5, <1>7 DEF Steady, Inactive
<1>9. HandlersInv'
  BY <1>1, <1>3, <1>8, IdlePlace, HandlersSteady
<1>10. AccountInv'
  BY <1>1, <1>3, <1>5, <1>6 DEF AccountInv, SignedIn
<1>11. TokensInv'
  BY <1>1, <1>3, <1>7, TokensKept
<1>12. LinksInv'
  BY <1>1, <1>4 DEF LinksInv
<1>13. SessionsTypeOK'
  BY <1>1, <1>3, <1>4, <1>5, IdlePlace, SessionGoto DEF SessionsTypeOK
<1> QED BY <1>9, <1>10, <1>11, <1>12, <1>13 DEF SessionsInv

(* A new password overtakes whoever may still mint.                         *)
LEMMA OvertakenHandlers ==
  ASSUME SessionsInv, NEW h \in Handlers, call' = Overtaken(h),
         user'.exists, ~user'.isGuest, Inactive => Inactive',
         \A t \in Tokens : token[t].status = "revoked" => token'[t].status = "revoked",
         \A t \in Tokens : token'[t].parent = token[t].parent,
         \A l \in Links : link[l].kind = "reset" =>
            link'[l].kind = "reset" /\ (link[l].state = "used" => link'[l].state = "used"),
         \A l \in Links : link'[l].done = link[l].done \/ (call[h].at = "newPassword" /\ l = call[h].l)
  PROVE  call' \in [Handlers -> Call] /\ HandlersInv'
<1>1. SessionsTypeOK /\ HandlersInv
  BY DEF SessionsInv
<1>2. ASSUME NEW g \in Handlers
      PROVE  \E d \in Call : call'[g] = d /\ Fits(d) /\ Keeps(d) /\ Succeeds(d, call[g])
  <2>1. PICK c \in Call : c = call[g]
    BY <1>1 DEF SessionsTypeOK
  <2>2. Fits(c)
    BY <1>1, <2>1 DEF HandlersInv
  <2>3. CASE g = h
    <3>1. call'[g] = Idle
      BY <2>3 DEF Overtaken
    <3>2. Keeps(Idle)
      BY IdlePlace DEF Keeps
    <3> QED BY <3>1, <3>2, IdlePlace DEF Succeeds
  <2>4. CASE g # h /\ (c.at = "mint" \/ (c.at = "refresh" /\ c.rotated))
    <3>1. call'[g] = [c EXCEPT !.cred = Stale]
      BY <2>1, <2>4 DEF Overtaken
    <3>2. Stale \in Creds /\ Known(Stale) /\ Known(Stale)'
      BY DEF Creds, Known
    <3>3. PICK d \in Call :
             /\ d = [c EXCEPT !.cred = Stale]
             /\ d.at = c.at /\ d.cred = Stale /\ d.barred = c.barred
             /\ c.at = "mint" => d.parent = c.parent
             /\ c.at = "refresh" => d.t = c.t /\ d.rotated = c.rotated /\ d.seen = c.seen
      <4>1. CASE c.at = "mint"
        <5>1. c \in [at : {"mint"}, cred : Creds, parent : Tokens \cup {NoToken}, barred : BOOLEAN]
          BY <4>1, CallFields
        <5> DEFINE d == [c EXCEPT !.cred = Stale]
        <5>2. d \in [at : {"mint"}, cred : Creds, parent : Tokens \cup {NoToken}, barred : BOOLEAN]
              /\ d.at = c.at /\ d.cred = Stale /\ d.barred = c.barred /\ d.parent = c.parent
          BY <3>2, <5>1
        <5>3. d \in Call
          BY <5>2, CallPlaces
        <5> HIDE DEF d
        <5>4. d = [c EXCEPT !.cred = Stale]
          BY DEF d
        <5> QED BY <4>1, <5>2, <5>3, <5>4
      <4>2. CASE c.at = "refresh"
        <5>1. c \in [at : {"refresh"}, t : Tokens, rotated : BOOLEAN, cred : Creds,
                     seen : {"todo", "active", "inactive"}, barred : BOOLEAN]
          BY <4>2, CallFields
        <5> DEFINE d == [c EXCEPT !.cred = Stale]
        <5>2. d \in [at : {"refresh"}, t : Tokens, rotated : BOOLEAN, cred : Creds,
                     seen : {"todo", "active", "inactive"}, barred : BOOLEAN]
              /\ d.at = c.at /\ d.cred = Stale /\ d.barred = c.barred
              /\ d.t = c.t /\ d.rotated = c.rotated /\ d.seen = c.seen
          BY <3>2, <5>1
        <5>3. d \in Call
          BY <5>2, CallPlaces
        <5> HIDE DEF d
        <5>4. d = [c EXCEPT !.cred = Stale]
          BY DEF d
        <5> QED BY <4>2, <5>2, <5>3, <5>4
      <4> QED BY <2>4, <4>1, <4>2
    <3>4. call'[g] = d
      BY <3>1, <3>3
    <3>5. RotatedAt(d) = RotatedAt(c)
      BY <2>4, <3>3 DEF RotatedAt
    <3>6. Fits(d)
      BY <2>2, <2>4, <3>2, <3>3, <3>5 DEF Fits
    <3>7. Keeps(d)
      BY <2>4, <3>2, <3>3 DEF Keeps
    <3>8. Succeeds(d, call[g])
      BY <2>1, <2>4, <3>3, <3>5 DEF Succeeds
    <3> QED BY <3>4, <3>6, <3>7, <3>8
  <2>5. CASE g # h /\ ~(c.at = "mint" \/ (c.at = "refresh" /\ c.rotated))
    <3>1. call'[g] = c
      BY <2>1, <2>5 DEF Overtaken
    <3>2. c.at = "newPassword" => c.l \in Links /\ link'[c.l].done = link[c.l].done
      <4>1. Apart(c, call[h])
        BY <1>1, <2>1, <2>5 DEF HandlersInv
      <4> QED BY <4>1, CallFields DEF Apart
    <3>3. Keeps(c)
      BY <2>5, <3>2 DEF Keeps
    <3>4. Succeeds(c, call[g])
      BY <2>1 DEF Succeeds
    <3> QED BY <2>2, <3>1, <3>3, <3>4
  <2> QED BY <2>3, <2>4, <2>5
<1>3. HandlersInv'
  BY <1>1, <1>2, HandlersChange
<1>4. call' = [g \in Handlers |-> call'[g]]
  BY DEF Overtaken
<1>5. call' \in [Handlers -> Call]
  BY <1>2, <1>4
<1> QED BY <1>3, <1>5

(* The new password of a reset.                                             *)
LEMMA StorePasswordKeeps == ASSUME SessionsInv, NEW h \in Handlers, StorePassword(h) PROVE SessionsInv'
<1>1. SessionsTypeOK /\ AccountInv /\ TokensInv /\ LinksInv /\ HandlersInv
  BY DEF SessionsInv
<1>2. PICK l \in Links, pw \in Passwords : l = call[h].l /\ pw = call[h].pw
  BY <1>1, CallFields DEF StorePassword, SessionsTypeOK
<1>3. /\ link' = [k \in Links |-> IF link[k].kind # "reset" THEN link[k]
                                  ELSE [link[k] EXCEPT !.state = "used", !.done = IF k = l THEN @ + 1 ELSE @]]
      /\ user' = [user EXCEPT !.passwordHash = pw, !.isGuest = FALSE, !.emailVerified = TRUE]
      /\ token' = Revoked(Tokens) /\ call' = Overtaken(h) /\ UNCHANGED outbox /\ call[h].at = "newPassword"
  BY <1>2 DEF StorePassword
<1>4. link[l].done = 0 /\ user.exists
  BY <1>1, <1>2, <1>3 DEF HandlersInv, Fits
<1>5. ASSUME NEW k \in Links
      PROVE  /\ link'[k] \in Link /\ link'[k].kind = link[k].kind
             /\ link[k].kind = "reset" => link'[k].state = "used"
             /\ link[k].kind # "reset" => link'[k] = link[k]
             /\ k # l => link'[k].done = link[k].done
             /\ k = l => link'[k].done \in {0, 1}
  <2>1. CASE link[k].kind # "reset"
    BY <1>1, <1>3, <1>4, <2>1 DEF SessionsTypeOK
  <2>2. CASE link[k].kind = "reset"
    <3>1. link[k] \in Link
      BY <1>1 DEF SessionsTypeOK
    <3>2. link'[k] = [link[k] EXCEPT !.state = "used", !.done = IF k = l THEN @ + 1 ELSE @]
      BY <1>3, <2>2
    <3>3. CASE k = l
      <4>1. link'[k] = [link[k] EXCEPT !.state = "used", !.done = link[k].done + 1]
        BY <3>2, <3>3
      <4>2. link[k].done + 1 = 1
        BY <1>4, <3>3
      <4>3. link'[k] = [link[k] EXCEPT !.state = "used", !.done = 1]
        BY <4>1, <4>2
      <4>4. 1 \in 0..2
        OBVIOUS
      <4>5. link'[k] \in Link /\ link'[k].kind = link[k].kind /\ link'[k].state = "used" /\ link'[k].done = 1
        BY <3>1, <4>3, <4>4 DEF Link
      <4> QED BY <2>2, <3>3, <4>5
    <3>4. CASE k # l
      <4>1. link'[k] = [link[k] EXCEPT !.state = "used", !.done = link[k].done]
        BY <3>1, <3>2, <3>4 DEF Link
      <4> QED BY <2>2, <3>1, <3>4, <4>1 DEF Link
    <3> QED BY <3>3, <3>4
  <2> QED BY <2>1, <2>2
<1>6. link' \in [Links -> Link]
  BY <1>3, <1>5
<1>7. /\ user' \in User /\ user'.exists /\ ~user'.isGuest /\ user'.emailVerified
      /\ user'.isSuspended = user.isSuspended /\ user'.isDeactivated = user.isDeactivated
  BY <1>1, <1>3, <1>4 DEF SessionsTypeOK, User
<1>8. /\ token' \in [Tokens -> Token] /\ TokensInv'
      /\ \A t \in Tokens : token[t].status = "revoked" => token'[t].status = "revoked"
      /\ \A t \in Tokens : token'[t].parent = token[t].parent
  BY <1>1, <1>3, RevokedTokens
<1>9. LinksInv'
  BY <1>1, <1>2, <1>5 DEF LinksInv
<1>10. AccountInv'
  BY <1>7 DEF AccountInv
<1>11. call' \in [Handlers -> Call] /\ HandlersInv'
  <2>1. Inactive => Inactive'
    BY <1>7 DEF Inactive
  <2>2. \A k \in Links : link[k].kind = "reset" =>
            link'[k].kind = "reset" /\ (link[k].state = "used" => link'[k].state = "used")
    BY <1>5
  <2>3. \A k \in Links : link'[k].done = link[k].done \/ (call[h].at = "newPassword" /\ k = call[h].l)
    BY <1>2, <1>3, <1>5
  <2> QED BY <1>3, <1>7, <1>8, <2>1, <2>2, <2>3, OvertakenHandlers
<1>12. SessionsTypeOK'
  BY <1>1, <1>3, <1>6, <1>7, <1>8, <1>11 DEF SessionsTypeOK
<1> QED BY <1>8, <1>9, <1>10, <1>11, <1>12 DEF SessionsInv

(* The new password of a signed-in user, which one session may survive.     *)
LEMMA ChangePasswordKeeps == ASSUME SessionsInv, NEW h \in Handlers, ChangePassword(h) PROVE SessionsInv'
<1>1. SessionsTypeOK /\ AccountInv /\ TokensInv /\ LinksInv /\ HandlersInv
  BY DEF SessionsInv
<1>2. PICK pw \in Passwords, keep \in Tokens \cup {NoToken} : pw = call[h].pw /\ keep = call[h].keep
  BY <1>1, CallFields DEF ChangePassword, SessionsTypeOK
<1>3. /\ user' = [user EXCEPT !.passwordHash = pw]
      /\ token' = [t \in Tokens |-> IF t = keep /\ Live(t)
                                    THEN [token[t] EXCEPT !.cred = IF @ \in Passwords THEN pw ELSE @]
                                    ELSE Revoked(Tokens)[t]]
      /\ call' = Overtaken(h) /\ UNCHANGED <<link, outbox>> /\ call[h].at = "change"
  BY <1>2 DEF ChangePassword
<1>4. user.exists /\ ~user.isGuest
  BY <1>1, <1>3 DEF HandlersInv, Fits
<1>5. /\ user' \in User /\ user'.exists /\ ~user'.isGuest /\ user'.passwordHash = pw
      /\ user'.emailVerified = user.emailVerified /\ user'.applicant = user.applicant /\ user'.wasGuest = user.wasGuest
      /\ user'.isSuspended = user.isSuspended /\ user'.isDeactivated = user.isDeactivated
  BY <1>1, <1>3, <1>4 DEF SessionsTypeOK, User
<1>6. ASSUME NEW t \in Tokens
      PROVE  /\ token'[t] \in Token /\ token'[t].parent = token[t].parent
             /\ token[t].status = "revoked" => token'[t].status = "revoked"
             /\ IF token'[t].status = "live" THEN Known(token[t].cred)' ELSE token'[t].cred = NoPassword
  <2>0. token[t] \in Token /\ NoPassword \in Creds /\ pw \in Creds
    BY <1>1 DEF SessionsTypeOK, Creds
  <2>1. CASE t = keep /\ Live(t)
    <3>1. PICK cred \in Creds : cred = (IF token[t].cred \in Passwords THEN pw ELSE token[t].cred)
      BY <2>0 DEF Token
    <3>2. token'[t] = [token[t] EXCEPT !.cred = cred]
      BY <1>3, <2>0, <2>1, <3>1 DEF Token
    <3>3. Known(token[t].cred)
      BY <1>1, <2>1 DEF TokensInv
    <3>4. token'[t].cred = cred /\ token'[t].status = "live" /\ token'[t].parent = token[t].parent /\ token'[t] \in Token
      BY <2>0, <2>1, <3>2 DEF Token, Live
    <3>5. Known(token[t].cred)'
      BY <1>2, <1>5, <3>1, <3>3, <3>4, SessionsAssumption DEF Known
    <3> QED BY <2>1, <3>4, <3>5 DEF Live
  <2>2. CASE ~(t = keep /\ Live(t)) /\ Live(t)
    <3>1. token'[t] = [token[t] EXCEPT !.status = "revoked", !.cred = NoPassword]
      BY <1>3, <2>2 DEF Revoked
    <3> QED BY <2>0, <2>2, <3>1 DEF Token, Live
  <2>3. CASE ~Live(t)
    <3>1. token'[t] = token[t]
      BY <1>3, <2>3 DEF Revoked
    <3> QED BY <1>1, <2>0, <2>3, <3>1 DEF TokensInv, Live
  <2> QED BY <2>1, <2>2, <2>3
<1>7. token' \in [Tokens -> Token]
  BY <1>3, <1>6
<1>8. TokensInv'
  <2>1. ASSUME NEW t \in Tokens PROVE IF Live(t)' THEN Known(token[t].cred)' ELSE token'[t].cred = NoPassword
    BY <1>6 DEF Live
  <2>2. ASSUME NEW t \in Tokens, token'[t].parent # NoToken PROVE token'[token'[t].parent].status = "revoked"
    <3>1. token[t].parent \in Tokens
      BY <1>1, <1>6, <2>2 DEF SessionsTypeOK, Token
    <3> QED BY <1>1, <1>6, <2>2, <3>1 DEF TokensInv
  <2>3. ASSUME NEW s \in Tokens, NEW t \in Tokens, s # t, token'[s].parent # NoToken PROVE token'[s].parent # token'[t].parent
    BY <1>1, <1>6, <2>3 DEF TokensInv
  <2> QED BY <2>1, <2>2, <2>3 DEF TokensInv
<1>9. LinksInv'
  BY <1>1, <1>3 DEF LinksInv
<1>10. AccountInv'
  BY <1>1, <1>4, <1>5 DEF AccountInv
<1>11. call' \in [Handlers -> Call] /\ HandlersInv'
  <2>1. Inactive => Inactive'
    BY <1>5 DEF Inactive
  <2>2. \A k \in Links : link[k].kind = "reset" =>
            link'[k].kind = "reset" /\ (link[k].state = "used" => link'[k].state = "used")
    BY <1>3
  <2>3. \A k \in Links : link'[k].done = link[k].done \/ (call[h].at = "newPassword" /\ k = call[h].l)
    BY <1>3
  <2> QED BY <1>3, <1>5, <1>6, <2>1, <2>2, <2>3, OvertakenHandlers
<1>12. SessionsTypeOK'
  BY <1>1, <1>3, <1>5, <1>7, <1>11 DEF SessionsTypeOK
<1> QED BY <1>8, <1>9, <1>10, <1>11, <1>12 DEF SessionsInv

(* The account is closed, and its sessions with it.                         *)
LEMMA CloseKeeps == ASSUME SessionsInv, NEW h \in Handlers, CloseAccount(h) PROVE SessionsInv'
<1>1. SessionsTypeOK /\ AccountInv /\ TokensInv /\ LinksInv /\ HandlersInv
  BY DEF SessionsInv
<1>2. /\ user' = [user EXCEPT !.isDeactivated = TRUE] /\ token' = Revoked(Tokens)
      /\ Goto(h, Idle) /\ UNCHANGED <<link, outbox>> /\ call[h].at = "close"
  BY DEF CloseAccount
<1>3. /\ user' \in User /\ user'.exists = user.exists /\ user'.isGuest = user.isGuest
      /\ user'.emailVerified = user.emailVerified /\ user'.wasGuest = user.wasGuest
      /\ user'.passwordHash = user.passwordHash /\ user'.applicant = user.applicant /\ user'.isDeactivated
  BY <1>1, <1>2 DEF SessionsTypeOK, User
<1>4. user.exists
  BY <1>1, <1>2 DEF HandlersInv, Fits
<1>5. \A cred : Known(cred) => Known(cred)'
  BY <1>3 DEF Known
<1>6. /\ token' \in [Tokens -> Token] /\ TokensInv' /\ SignedIn' = SignedIn
      /\ \A t \in Tokens : token[t].status = "revoked" => token'[t].status = "revoked"
      /\ \A t \in Tokens : token'[t].parent = token[t].parent
  BY <1>1, <1>2, RevokedTokens
<1>7. Steady
  BY <1>2, <1>3, <1>5, <1>6 DEF Steady, Inactive
<1>8. HandlersInv'
  BY <1>1, <1>2, <1>7, IdlePlace, HandlersSteady
<1>9. AccountInv' /\ LinksInv'
  BY <1>1, <1>2, <1>3, <1>4, <1>6 DEF AccountInv, LinksInv
<1>10. SessionsTypeOK'
  BY <1>1, <1>2, <1>3, <1>6, IdlePlace, SessionGoto DEF SessionsTypeOK
<1> QED BY <1>6, <1>8, <1>9, <1>10 DEF SessionsInv

(* A suspension is lifted; the requests that began under it are forgiven.   *)
LEMMA UnsuspendKeeps == ASSUME SessionsInv, Unsuspend PROVE SessionsInv'
<1>1. SessionsTypeOK /\ AccountInv /\ TokensInv /\ LinksInv /\ HandlersInv
  BY DEF SessionsInv
<1>2. user' = [user EXCEPT !.isSuspended = FALSE] /\ UNCHANGED <<token, link, outbox>> /\ user.isSuspended
  BY DEF Unsuspend
<1>3. /\ user' \in User /\ user'.exists = user.exists /\ user'.isGuest = user.isGuest
      /\ user'.emailVerified = user.emailVerified /\ user'.wasGuest = user.wasGuest
      /\ user'.passwordHash = user.passwordHash /\ user'.applicant = user.applicant
      /\ user'.isDeactivated = user.isDeactivated
  BY <1>1, <1>2 DEF SessionsTypeOK, User
<1>4. user.exists
  BY <1>1, <1>2 DEF AccountInv, NoUser
<1>5. \A cred : Known(cred) => Known(cred)'
  BY <1>3 DEF Known
<1>6. AccountInv'
  BY <1>1, <1>2, <1>3, <1>4 DEF AccountInv, SignedIn
<1>7. outbox' \subseteq {"verify", "reset"} /\ (user'.isGuest => user'.passwordHash = NoPassword /\ ~user'.applicant)
  BY <1>1, <1>2, <1>3 DEF SessionsTypeOK
<1>8. CASE user.isDeactivated
  <2>1. UNCHANGED call
    BY <1>8 DEF Unsuspend
  <2>2. Inactive'
    BY <1>3, <1>8 DEF Inactive
  <2> QED BY <1>2, <1>3, <1>4, <1>5, <1>6, <1>7, <2>1, <2>2, UserStep
<1>9. CASE ~user.isDeactivated
  <2>1. call' = [h \in Handlers |-> IF call[h].at \in {"mint", "refresh"} THEN [call[h] EXCEPT !.barred = FALSE]
                                    ELSE call[h]]
    BY <1>9 DEF Unsuspend
  <2>2. ASSUME NEW g \in Handlers
        PROVE  \E d \in Call : call'[g] = d /\ Fits(d) /\ Keeps(d) /\ Succeeds(d, call[g])
    <3>1. PICK c \in Call : c = call[g]
      BY <1>1 DEF SessionsTypeOK
    <3>2. Fits(c)
      BY <1>1, <3>1 DEF HandlersInv
    <3>3. CASE c.at \notin {"mint", "refresh"}
      <4>1. call'[g] = c
        BY <2>1, <3>1, <3>3
      <4>2. c.at = "newPassword" => link'[c.l].done = link[c.l].done
        BY <1>2
      <4>3. Keeps(c)
        BY <1>2, <1>3, <3>3, <4>2 DEF Keeps
      <4>4. Succeeds(c, call[g])
        BY <3>1 DEF Succeeds
      <4> QED BY <3>2, <4>1, <4>3, <4>4
    <3>4. CASE c.at \in {"mint", "refresh"}
      <4>1. call'[g] = [c EXCEPT !.barred = FALSE]
        BY <2>1, <3>1, <3>4
      <4>2. PICK d \in Call :
               /\ d = [c EXCEPT !.barred = FALSE]
               /\ d.at = c.at /\ d.cred = c.cred /\ ~d.barred
               /\ c.at = "mint" => d.parent = c.parent
               /\ c.at = "refresh" => d.t = c.t /\ d.rotated = c.rotated /\ d.seen = c.seen
        <5>1. CASE c.at = "mint"
          <6>1. c \in [at : {"mint"}, cred : Creds, parent : Tokens \cup {NoToken}, barred : BOOLEAN]
            BY <5>1, CallFields
          <6> DEFINE d == [c EXCEPT !.barred = FALSE]
          <6>2. d \in [at : {"mint"}, cred : Creds, parent : Tokens \cup {NoToken}, barred : BOOLEAN]
                /\ d.at = c.at /\ d.cred = c.cred /\ ~d.barred /\ d.parent = c.parent
            BY <6>1
          <6>3. d \in Call
            BY <6>2, CallPlaces
          <6> HIDE DEF d
          <6>4. d = [c EXCEPT !.barred = FALSE]
            BY DEF d
          <6> QED BY <5>1, <6>2, <6>3, <6>4
        <5>2. CASE c.at = "refresh"
          <6>1. c \in [at : {"refresh"}, t : Tokens, rotated : BOOLEAN, cred : Creds,
                       seen : {"todo", "active", "inactive"}, barred : BOOLEAN]
            BY <5>2, CallFields
          <6> DEFINE d == [c EXCEPT !.barred = FALSE]
          <6>2. d \in [at : {"refresh"}, t : Tokens, rotated : BOOLEAN, cred : Creds,
                       seen : {"todo", "active", "inactive"}, barred : BOOLEAN]
                /\ d.at = c.at /\ d.cred = c.cred /\ ~d.barred
                /\ d.t = c.t /\ d.rotated = c.rotated /\ d.seen = c.seen
            BY <6>1
          <6>3. d \in Call
            BY <6>2, CallPlaces
          <6> HIDE DEF d
          <6>4. d = [c EXCEPT !.barred = FALSE]
            BY DEF d
          <6> QED BY <5>2, <6>2, <6>3, <6>4
        <5> QED BY <3>4, <5>1, <5>2
      <4>3. RotatedAt(d) = RotatedAt(c)
        BY <3>4, <4>2 DEF RotatedAt
      <4>4. Fits(d)
        BY <3>2, <3>4, <4>2, <4>3 DEF Fits
      <4>5. Keeps(d)
        BY <1>2, <1>3, <1>5, <3>4, <4>2 DEF Keeps
      <4>6. Succeeds(d, call[g])
        BY <3>1, <3>4, <4>2, <4>3 DEF Succeeds
      <4>7. call'[g] = d
        BY <4>1, <4>2
      <4> QED BY <4>4, <4>5, <4>6, <4>7
    <3> QED BY <3>3, <3>4
  <2>3. HandlersInv'
    BY <1>1, <2>2, HandlersChange
  <2>4. call' \in [Handlers -> Call]
    <3>1. call' = [g \in Handlers |-> call'[g]]
      BY <2>1
    <3> QED BY <2>2, <3>1
  <2>5. TokensInv' /\ LinksInv'
    BY <1>1, <1>2, <1>5, TokensKept DEF LinksInv
  <2>6. SessionsTypeOK'
    BY <1>1, <1>2, <1>3, <1>7, <2>4 DEF SessionsTypeOK
  <2> QED BY <1>6, <2>3, <2>5, <2>6 DEF SessionsInv
<1> QED BY <1>8, <1>9

-----------------------------------------------------------------------------
(* Sessions: the theorem                                                   *)

LEMMA SessionsStart == SessionsInit => SessionsInv
<1> SUFFICES ASSUME SessionsInit PROVE SessionsInv
  OBVIOUS
<1> USE DEF SessionsInit
<1>1. NoSession \in Token /\ NoLink \in Link /\ NoUser \in User
  BY DEF NoSession, NoLink, NoUser, Token, Link, User, Creds
<1>2. SessionsTypeOK
  BY <1>1, IdlePlace DEF SessionsTypeOK, NoUser
<1>3. AccountInv
  BY DEF AccountInv, NoUser, NoSession, NoLink, SignedIn
<1>4. TokensInv
  BY DEF TokensInv, NoSession, Live
<1>5. LinksInv
  BY DEF LinksInv, NoLink
<1>6. HandlersInv
  BY IdlePlace DEF HandlersInv, Apart
<1> QED BY <1>2, <1>3, <1>4, <1>5, <1>6 DEF SessionsInv

LEMMA SessionsStep == SessionsInv /\ [SessionsNext]_sessionVars => SessionsInv'
<1> SUFFICES ASSUME SessionsInv, [SessionsNext]_sessionVars PROVE SessionsInv'
  OBVIOUS
<1>0. ASSUME NEW h \in Handlers, Consulting(h) PROVE SessionsInv'
  BY <1>0, ConsultStep, ConsultKeeps DEF SessionsInv
<1>1. ASSUME NEW h \in Handlers, Ask(h) PROVE SessionsInv'
  <2>1. CASE Consulting(h)
    BY <1>0, <2>1
  <2>2. CASE ResendVerification(h) \/ ForgotPassword(h)
    BY <2>2, MailKeeps
  <2>3. CASE \E t \in Tokens : EndSession(h, t) \/ DeleteSession(h, t)
    BY <2>3, EndKeeps
  <2> QED BY <1>1, <2>1, <2>2, <2>3 DEF Ask, Consulting
<1>2. ASSUME NEW h \in Handlers, Continue(h) PROVE SessionsInv'
  <2>1. CASE CreateTokens(h)
    BY <2>1, CreateTokensKeeps
  <2>2. CASE CreateAccount(h)
    BY <2>2, CreateAccountKeeps
  <2>3. CASE CreateGoogleAccount(h)
    BY <2>3, CreateGoogleKeeps
  <2>4. CASE ClaimGuestAccount(h)
    BY <2>4, ClaimKeeps
  <2>5. CASE CreateGuest(h)
    BY <2>5, CreateGuestKeeps
  <2>6. CASE Rotate(h)
    BY <2>6, RotateKeeps
  <2>7. CASE LoadSessionUser(h) \/ RefuseRefresh(h) \/ AnswerRefresh(h)
    BY <1>0, <2>7 DEF Consulting
  <2>8. CASE RevokeAll(h)
    BY <2>8, EndKeeps
  <2>9. CASE MarkVerified(h)
    BY <2>9, MarkVerifiedKeeps
  <2>10. CASE ClaimReset(h)
    BY <2>10, ClaimResetKeeps
  <2>11. CASE StorePassword(h)
    BY <2>11, StorePasswordKeeps
  <2>12. CASE ChangePassword(h)
    BY <2>12, ChangePasswordKeeps
  <2>13. CASE CloseAccount(h)
    BY <2>13, CloseKeeps
  <2> QED BY <1>2, <2>1, <2>2, <2>3, <2>4, <2>5, <2>6, <2>7, <2>8, <2>9, <2>10, <2>11, <2>12, <2>13 DEF Continue
<1>3. ASSUME NEW h \in Handlers, Interrupt(h) PROVE SessionsInv'
  BY <1>0, <1>3 DEF Consulting
<1>4. ASSUME NEW h \in Handlers, NEW flag, Bar(h, flag) PROVE SessionsInv'
  BY <1>4, BarKeeps
<1>5. ASSUME NEW l \in Links, ExpireLink(l) \/ \E kind \in {"verify", "reset"} : SendLink(kind, l) PROVE SessionsInv'
  BY <1>5, MailKeeps
<1>6. ASSUME NEW t \in Tokens, ExpireToken(t) PROVE SessionsInv'
  BY <1>6, ExpireTokenKeeps
<1>7. CASE Unsuspend
  BY <1>7, UnsuspendKeeps
<1>8. CASE DecideApplication
  BY <1>8, DecideKeeps
<1>9. CASE UNCHANGED sessionVars
  <2>1. UNCHANGED <<user, token, link, outbox, call>> /\ Steady
    BY <1>9 DEF sessionVars, Steady, Known, Inactive
  <2>2. SessionsTypeOK' /\ LinksInv'
    BY <2>1 DEF SessionsInv, SessionsTypeOK, LinksInv
  <2>3. AccountInv'
    BY <2>1 DEF SessionsInv, AccountInv, SignedIn
  <2>4. TokensInv'
    BY <2>1 DEF SessionsInv, TokensInv, Live, Known
  <2>5. HandlersInv'
    BY <2>1, HandlersStay DEF SessionsInv
  <2> QED BY <2>2, <2>3, <2>4, <2>5 DEF SessionsInv
<1> QED BY <1>1, <1>2, <1>3, <1>4, <1>5, <1>6, <1>7, <1>8, <1>9 DEF SessionsNext

(* The invariant says more than the property.                               *)
LEMMA SessionsInvEnough == SessionsInv => SessionsAreEarned
<1> SUFFICES ASSUME SessionsInv PROVE SessionsAreEarned
  OBVIOUS
<1> USE DEF SessionsInv, HandlersInv, Fits
<1>1. RotatedOnce
  BY DEF RotatedOnce, TokensInv, RotatedAt
<1>2. ResetOnce
  <2>1. ASSUME NEW l \in Links PROVE link[l].done <= 1
    <3>1. link[l].done \in {0, 1}
      BY DEF LinksInv
    <3> QED BY <3>1
  <2> QED BY <2>1 DEF ResetOnce
<1>3. BarredStaysOut
  BY DEF BarredStaysOut
<1>4. SessionsKnowThePassword
  BY DEF SessionsKnowThePassword, TokensInv, Known
<1>5. GuestIsClaimedByInbox
  BY DEF GuestIsClaimedByInbox, AccountInv
<1>6. ApplicantIsVerified
  BY SessionsAssumption DEF ApplicantIsVerified, TokensInv, Known
<1> QED BY <1>1, <1>2, <1>3, <1>4, <1>5, <1>6 DEF SessionsAreEarned

(* The account, its tokens, its links and every handler stay what the code  *)
(* can write (auth.ts, me.ts, admin.ts).                                    *)
THEOREM SessionsTypeCorrect == SessionsSpec => []SessionsTypeOK
<1>1. SessionsInv => SessionsTypeOK
  BY DEF SessionsInv
<1> QED BY <1>1, SessionsStart, SessionsStep, PTL DEF SessionsSpec

(* Whoever has a session has earned it, with any number of handlers, tokens *)
(* and links: a refresh token is rotated once and a reset link sets one     *)
(* password, a barred account's requests mint nothing, a session lives only *)
(* while its password is the account's, and a guest payer's account is open *)
(* to nobody whose inbox was not proved (auth.ts, me.ts).                   *)
THEOREM SessionsEarned == SessionsSpec => []SessionsAreEarned
  BY SessionsStart, SessionsStep, SessionsInvEnough, PTL DEF SessionsSpec

-----------------------------------------------------------------------------
(* Dues: the invariant                                                     *)

(* What a handler's place c says about the due, the team and the log.       *)
DuePlace(c) ==
    /\ c.at = "checkout" =>
          /\ due.status \in {"active", "closed", "deleted"}
          /\ Exists /\ "open" \notin log.overtaken => c.amount = due.amount
    /\ c.at = "update" /\ log.overtaken \cap {"amount", "open"} = {} /\ c.amount \notin {0, due.amount} => Paid = {}
    /\ c.at = "create" /\ "assign" \notin log.overtaken => c.assignee \in coReps \cup {Lead}
    /\ c.at = "reassign" /\ "assign" \notin log.overtaken => c.to \in coReps
    /\ c.at = "rep" /\ "team" \notin log.overtaken => c.p \in members
    /\ c.at \in {"leave", "drop"} /\ "team" \notin log.overtaken => c.p \notin coReps
    /\ c.at \in {"kyc", "publish"} /\ due.status = "closed" => "reopen" \in log.overtaken

(* An open checkout asks for what the due asks, unless an edit overtook it. *)
OpenAmounts ==
    "open" \notin log.overtaken => \A p \in People : pay[p].state = "open" => pay[p].amount = due.amount

(* A claimed reminder shows on the row, for as long as there is one.        *)
ClaimShows ==
    /\ due.status = "none" => ~due.reminded
    /\ due.status # "deleted" /\ ~due.reminded => log.claims = 0
    /\ log.claims <= 1

DueTables ==
    /\ due \in Due
    /\ members \subseteq People /\ coReps \subseteq People /\ guests \subseteq People
    /\ pay \in [People -> Pay]
    /\ log \in Log
    /\ members \cap guests = {}
    /\ IsFiniteSet(members)

MoneyInv == MoneyIsOnAPublishedDue /\ PaidTheAmount /\ OpenAmounts

TeamInv == AssigneeIsRep /\ RepsAreMembers

ClerksInv == dcall \in [Clerks -> DueCall] /\ \A h \in Clerks : DuePlace(dcall[h])

DuesInv == DueTables /\ MoneyInv /\ TeamInv /\ ClaimShows /\ ClerksInv

-----------------------------------------------------------------------------
(* Dues: places and what keeps them                                        *)

(* What a handler holds at each place.                                      *)
LEMMA DueCallFields ==
  ASSUME NEW c \in DueCall
  PROVE  /\ c.at = "create" => c.assignee \in People \cup {Lead} /\ c.publish \in BOOLEAN /\ c.allowGuests \in BOOLEAN
         /\ c.at \in {"count", "update"} =>
               c \in [at : {"count", "update"}, amount : Faces \cup {0}, allowGuests : {"same", "yes", "no"}]
         /\ c.at = "reassign" => c.to \in People
         /\ c.at \in {"leave", "drop", "rep"} => c \in [at : {"leave", "drop", "rep"}, p : People]
         /\ c.at = "checkout" => c.p \in People /\ c.amount \in Faces
<1>1. CASE c \in [at : {"idle", "kyc", "publish", "close", "delete", "remind"}]
  BY <1>1
<1>2. CASE c \in [at : {"create"}, assignee : People \cup {Lead}, publish : BOOLEAN, allowGuests : BOOLEAN]
  BY <1>2
<1>3. CASE c \in [at : {"count", "update"}, amount : Faces \cup {0}, allowGuests : {"same", "yes", "no"}]
  BY <1>3
<1>4. CASE c \in [at : {"reassign"}, to : People]
  BY <1>4
<1>5. CASE c \in [at : {"leave", "drop", "rep"}, p : People]
  BY <1>5
<1>6. CASE c \in [at : {"checkout"}, p : People, amount : Faces]
  BY <1>6
<1> QED BY <1>1, <1>2, <1>3, <1>4, <1>5, <1>6 DEF DueCall

LEMMA DueCallPlaces ==
  /\ \A c \in [at : {"idle", "kyc", "publish", "close", "delete", "remind"}] : c \in DueCall
  /\ \A c \in [at : {"count", "update"}, amount : Faces \cup {0}, allowGuests : {"same", "yes", "no"}] : c \in DueCall
  /\ \A c \in [at : {"leave", "drop", "rep"}, p : People] : c \in DueCall
  BY DEF DueCall

LEMMA PayStates ==
  ASSUME NEW x \in Pay
  PROVE  /\ x.state \in {"none", "open", "paid"} /\ (x.state = "none" <=> x = NoPay)
         /\ x.state \in {"open", "paid"} => x \in [state : {"open", "paid"}, amount : Faces]
  BY DEF Pay, NoPay

(* A place that says nothing.                                               *)
LEMMA QuietPlace ==
  ASSUME NEW c \in DueCall,
         c.at \notin {"checkout", "update", "create", "reassign", "rep", "leave", "drop", "kyc", "publish"}
  PROVE  DuePlace(c) /\ DuePlace(c)'
  BY DEF DuePlace

LEMMA FreePlace == Free \in DueCall /\ Free.at = "idle" /\ DuePlace(Free) /\ DuePlace(Free)'
<1>1. Free \in DueCall /\ Free.at = "idle"
  BY DueCallPlaces DEF Free
<1> QED BY <1>1, QuietPlace

LEMMA ClerkAt == ASSUME NEW h \in Clerks, NEW c, dcall'[h] = c, DuePlace(c)' PROVE DuePlace(dcall[h])'
  BY DEF DuePlace

(* Handlers after a step of h, which moves to c, ...                        *)
LEMMA ClerkMoves ==
  ASSUME ClerksInv, NEW h \in Clerks, NEW c \in DueCall, DueGoto(h, c), DuePlace(c)',
         \A g \in Clerks \ {h} : \A d \in DueCall : d = dcall[g] /\ DuePlace(d) => DuePlace(d)'
  PROVE  ClerksInv'
<1>1. dcall' \in [Clerks -> DueCall] /\ dcall'[h] = c /\ \A g \in Clerks \ {h} : dcall'[g] = dcall[g]
  BY DEF DueGoto, ClerksInv
<1>2. ASSUME NEW g \in Clerks PROVE DuePlace(dcall[g])'
  <2>1. CASE g = h
    BY <1>1, <2>1, ClerkAt
  <2>2. CASE g # h
    <3>1. PICK d \in DueCall : d = dcall[g]
      BY DEF ClerksInv
    <3>2. DuePlace(d)'
      BY <2>2, <3>1 DEF ClerksInv
    <3>3. dcall'[g] = d
      BY <1>1, <2>2, <3>1
    <3> QED BY <3>2, <3>3, ClerkAt
  <2> QED BY <2>1, <2>2
<1> QED BY <1>1, <1>2 DEF ClerksInv

(* ... and after a step that moves none.                                    *)
LEMMA ClerksStay ==
  ASSUME ClerksInv, UNCHANGED dcall,
         \A g \in Clerks : \A d \in DueCall : d = dcall[g] /\ DuePlace(d) => DuePlace(d)'
  PROVE  ClerksInv'
<1>1. ASSUME NEW g \in Clerks PROVE DuePlace(dcall[g])'
  <2>1. PICK d \in DueCall : d = dcall[g]
    BY DEF ClerksInv
  <2>2. DuePlace(d)'
    BY <2>1 DEF ClerksInv
  <2> QED BY <2>1, <2>2, ClerkAt
<1> QED BY <1>1 DEF ClerksInv

LEMMA PlaceKept ==
  ASSUME NEW c \in DueCall, DuePlace(c), UNCHANGED <<due, members, coReps, pay, log>>
  PROVE  DuePlace(c)'
  BY DEF DuePlace, Exists, Paid

(* A handler that only reads.                                               *)
LEMMA DueRead ==
  ASSUME DuesInv, NEW h \in Clerks, NEW c \in DueCall, DueGoto(h, c), DuePlace(c),
         UNCHANGED <<due, members, coReps, guests, pay, log>>
  PROVE  DuesInv'
<1>1. ClerksInv'
  BY PlaceKept, ClerkMoves DEF DuesInv
<1>2. DueTables' /\ MoneyInv' /\ TeamInv' /\ ClaimShows'
  BY DEF DuesInv, DueTables, MoneyInv, TeamInv, ClaimShows, MoneyIsOnAPublishedDue, PaidTheAmount, OpenAmounts,
         AssigneeIsRep, RepsAreMembers, Exists, Paid
<1> QED BY <1>1, <1>2 DEF DuesInv

-----------------------------------------------------------------------------
(* Dues: the steps                                                         *)

DueReading(h) ==
    \/ CreateDue(h) \/ ConfirmCreateDue(h) \/ PatchDue(h) \/ CountPayments(h) \/ PublishDue(h) \/ AssertCanCollect(h)
    \/ CloseDue(h) \/ DeleteDue(h) \/ RemindDue(h) \/ CountOutstanding(h) \/ DueInterrupt(h)
    \/ \E p \in People : \/ ReassignDue(h, p) \/ LeaveSpace(h, p) \/ RemoveMember(h, p)
                         \/ AddCoRep(h, p) \/ OpenCheckout(h, p) \/ GuestCheckout(h, p)

LEMMA DueReadingKeeps == ASSUME DuesInv, NEW h \in Clerks, DueReading(h) PROVE DuesInv'
<1> USE DEF Arrives
<1>0. /\ due \in Due /\ coReps \subseteq People /\ members \subseteq People /\ AssigneeIsRep /\ RepsAreMembers
      /\ dcall \in [Clerks -> DueCall] /\ DuePlace(dcall[h])
  BY DEF DuesInv, DueTables, TeamInv, ClerksInv
<1>1. CASE CreateDue(h) \/ ConfirmCreateDue(h)
  <2>1. PICK a \in coReps \cup {Lead}, publish \in BOOLEAN, guest \in BOOLEAN :
           DueGoto(h, [at |-> "create", assignee |-> a, publish |-> publish, allowGuests |-> guest])
    BY <1>1 DEF CreateDue, ConfirmCreateDue
  <2> DEFINE c == [at |-> "create", assignee |-> a, publish |-> publish, allowGuests |-> guest]
  <2>2. c \in DueCall /\ c.at = "create" /\ c.assignee = a
    BY <1>0 DEF DueCall
  <2>3. DueGoto(h, c) /\ UNCHANGED <<due, members, coReps, guests, pay, log>>
    BY <1>1, <2>1 DEF CreateDue, ConfirmCreateDue
  <2> HIDE DEF c
  <2>4. DuePlace(c)
    BY <2>2 DEF DuePlace
  <2> QED BY <2>2, <2>3, <2>4, DueRead
<1>2. CASE PatchDue(h)
  <2>1. PICK f \in Faces \cup {0}, guest \in {"same", "yes", "no"} :
           DueGoto(h, [at |-> IF f \notin {0, due.amount} THEN "count" ELSE "update", amount |-> f, allowGuests |-> guest])
    BY <1>2 DEF PatchDue
  <2> DEFINE c == [at |-> IF f \notin {0, due.amount} THEN "count" ELSE "update", amount |-> f, allowGuests |-> guest]
  <2>2. c \in [at : {"count", "update"}, amount : Faces \cup {0}, allowGuests : {"same", "yes", "no"}]
        /\ c.amount = f /\ (c.at = "update" => f \in {0, due.amount})
    OBVIOUS
  <2>3. DueGoto(h, c) /\ UNCHANGED <<due, members, coReps, guests, pay, log>> /\ c \in DueCall
    BY <1>2, <2>1, <2>2, DueCallPlaces DEF PatchDue
  <2> HIDE DEF c
  <2>4. DuePlace(c)
    BY <2>2 DEF DuePlace
  <2> QED BY <2>3, <2>4, DueRead
<1>3. CASE CountPayments(h)
  <2>1. UNCHANGED <<due, members, coReps, guests, pay, log>> /\ dcall[h].at = "count"
    BY <1>3 DEF CountPayments
  <2>2. CASE Paid # {}
    BY <1>3, <2>1, <2>2, FreePlace, DueRead DEF CountPayments
  <2>3. CASE Paid = {}
    <3> DEFINE c == [dcall[h] EXCEPT !.at = "update"]
    <3>1. c \in [at : {"count", "update"}, amount : Faces \cup {0}, allowGuests : {"same", "yes", "no"}] /\ c.at = "update"
      BY <1>0, <2>1, DueCallFields
    <3>2. DueGoto(h, c) /\ c \in DueCall
      BY <1>3, <2>3, <3>1, DueCallPlaces DEF CountPayments
    <3> HIDE DEF c
    <3>3. DuePlace(c)
      BY <2>3, <3>1 DEF DuePlace
    <3> QED BY <2>1, <3>2, <3>3, DueRead
  <2> QED BY <2>2, <2>3
<1>4. CASE PublishDue(h)
  <2>1. PICK c \in DueCall : c = [at |-> "kyc"]
    BY DueCallPlaces
  <2>2. DuePlace(c)
    BY <1>4, <2>1 DEF DuePlace, PublishDue
  <2> QED BY <1>4, <2>1, <2>2, DueRead DEF PublishDue
<1>5. CASE AssertCanCollect(h)
  <2>1. PICK c \in {Free, [at |-> "publish"]} : DueGoto(h, c)
    BY <1>5 DEF AssertCanCollect
  <2>2. c \in DueCall
    BY <2>1, DueCallPlaces DEF Free
  <2>3. c.at \in {"idle", "publish"}
    BY <2>1 DEF Free
  <2>4. DuePlace(c)
    BY <1>0, <1>5, <2>3 DEF DuePlace, AssertCanCollect
  <2> QED BY <1>5, <2>1, <2>2, <2>4, DueRead DEF AssertCanCollect
<1>6. CASE CloseDue(h) \/ DeleteDue(h) \/ RemindDue(h) \/ DueInterrupt(h)
  <2>1. PICK c \in {[at |-> "close"], [at |-> "delete"], [at |-> "remind"], Free} :
           DueGoto(h, c) /\ UNCHANGED <<due, members, coReps, guests, pay, log>>
    BY <1>6 DEF CloseDue, DeleteDue, RemindDue, DueInterrupt
  <2>2. c \in DueCall /\ c.at \in {"close", "delete", "remind", "idle"}
    BY <2>1, DueCallPlaces DEF Free
  <2> QED BY <2>1, <2>2, QuietPlace, DueRead
<1>7. CASE CountOutstanding(h)
  <2>1. UNCHANGED <<due, members, coReps, guests, pay, log>> /\ dcall[h].at = "leave"
    BY <1>7 DEF CountOutstanding
  <2>2. CASE DueGoto(h, Free)
    BY <2>1, <2>2, FreePlace, DueRead
  <2>3. CASE DueGoto(h, [dcall[h] EXCEPT !.at = "drop"])
    <3> DEFINE c == [dcall[h] EXCEPT !.at = "drop"]
    <3>1. c \in [at : {"leave", "drop", "rep"}, p : People] /\ c.at = "drop" /\ c.p = dcall[h].p
      BY <1>0, <2>1, DueCallFields
    <3>2. DueGoto(h, c) /\ c \in DueCall
      BY <2>3, <3>1, DueCallPlaces
    <3> HIDE DEF c
    <3>3. DuePlace(c)
      BY <1>0, <2>1, <3>1 DEF DuePlace
    <3> QED BY <2>1, <3>2, <3>3, DueRead
  <2> QED BY <1>7, <2>2, <2>3 DEF CountOutstanding
<1>8. ASSUME NEW p \in People, ReassignDue(h, p) PROVE DuesInv'
  <2> DEFINE c == [at |-> "reassign", to |-> p]
  <2>1. c \in DueCall /\ c.at = "reassign" /\ c.to = p
    BY DEF DueCall
  <2>2. DueGoto(h, c) /\ UNCHANGED <<due, members, coReps, guests, pay, log>> /\ p \in coReps
    BY <1>8 DEF ReassignDue
  <2> HIDE DEF c
  <2>3. DuePlace(c)
    BY <2>1, <2>2 DEF DuePlace
  <2> QED BY <2>1, <2>2, <2>3, DueRead
<1>9. ASSUME NEW p \in People, LeaveSpace(h, p) \/ RemoveMember(h, p) \/ AddCoRep(h, p) PROVE DuesInv'
  <2>1. PICK at \in {"leave", "drop", "rep"} :
           /\ DueGoto(h, [at |-> at, p |-> p]) /\ UNCHANGED <<due, members, coReps, guests, pay, log>>
           /\ p \in members \ coReps
    BY <1>9 DEF LeaveSpace, RemoveMember, AddCoRep
  <2> DEFINE c == [at |-> at, p |-> p]
  <2>2. c \in [at : {"leave", "drop", "rep"}, p : People] /\ c.at \in {"leave", "drop", "rep"} /\ c.p = p
    OBVIOUS
  <2>3. DueGoto(h, c) /\ c \in DueCall
    BY <2>1, <2>2, DueCallPlaces
  <2> HIDE DEF c
  <2>4. DuePlace(c)
    BY <2>1, <2>2 DEF DuePlace
  <2> QED BY <2>1, <2>3, <2>4, DueRead
<1>10. ASSUME NEW p \in People, OpenCheckout(h, p) \/ GuestCheckout(h, p) PROVE DuesInv'
  <2> DEFINE c == [at |-> "checkout", p |-> p, amount |-> due.amount]
  <2>1. c \in DueCall /\ c.at = "checkout" /\ c.amount = due.amount
    BY <1>0 DEF DueCall, Due
  <2>2. DueGoto(h, c) /\ UNCHANGED <<due, members, coReps, guests, pay, log>> /\ due.status = "active"
    BY <1>10 DEF OpenCheckout, GuestCheckout
  <2> HIDE DEF c
  <2>3. DuePlace(c)
    BY <2>1, <2>2 DEF DuePlace
  <2> QED BY <2>1, <2>2, <2>3, DueRead
<1> QED BY <1>1, <1>2, <1>3, <1>4, <1>5, <1>6, <1>7, <1>8, <1>9, <1>10 DEF DueReading

LEMMA DueParts ==
  ASSUME DuesInv
  PROVE  /\ DueTables /\ MoneyInv /\ TeamInv /\ ClaimShows /\ ClerksInv
         /\ \A h \in Clerks : DuePlace(dcall[h]) /\ dcall[h] \in DueCall
         /\ \A p \in People : pay[p] \in Pay
  BY DEF DuesInv, ClerksInv, DueTables

LEMMA InsertDueKeeps == ASSUME DuesInv, NEW h \in Clerks, InsertDue(h) PROVE DuesInv'
<1>1. /\ due.status = "none" /\ DueGoto(h, Free) /\ UNCHANGED <<members, coReps, guests, pay, log>>
      /\ dcall[h].at = "create"
  BY DEF InsertDue
<1>2. PICK f \in Faces, publish \in BOOLEAN, guest \in BOOLEAN, a \in People \cup {Lead} :
         /\ due' = [status |-> IF publish THEN "active" ELSE "draft", amount |-> f, allowGuests |-> guest,
                    assignedRepId |-> a, reminded |-> FALSE]
         /\ a = dcall[h].assignee
  BY <1>1, DueParts, DueCallFields, ZenonT(60) DEF InsertDue
<1>3. /\ due' \in Due /\ due'.status \in {"active", "draft"} /\ due'.assignedRepId = a /\ ~due'.reminded
  BY <1>2 DEF Due
<1>4. (\A p \in People : pay[p] = NoPay) /\ Paid = {} /\ Paid' = {}
  BY <1>1, DueParts, PayStates DEF MoneyInv, MoneyIsOnAPublishedDue, Paid, NoPay
<1>5. DueTables'
  BY <1>1, <1>3, DueParts DEF DueTables
<1>6. MoneyInv'
  BY <1>1, <1>4 DEF MoneyInv, MoneyIsOnAPublishedDue, PaidTheAmount, OpenAmounts, NoPay
<1>7. TeamInv'
  BY <1>1, <1>2, <1>3, DueParts DEF TeamInv, AssigneeIsRep, RepsAreMembers, DuePlace
<1>8. ClaimShows'
  BY <1>1, <1>3, DueParts DEF ClaimShows
<1>9. ASSUME NEW g \in Clerks \ {h}, NEW d \in DueCall, d = dcall[g], DuePlace(d) PROVE DuePlace(d)'
  BY <1>1, <1>3, <1>4, <1>9 DEF DuePlace, Exists
<1>10. ClerksInv'
  BY <1>1, <1>9, DueParts, FreePlace, ClerkMoves
<1> QED BY <1>5, <1>6, <1>7, <1>8, <1>10 DEF DuesInv

(* Steps that write the row and leave its amount and the payments alone.    *)
LEMMA DueRowStep ==
  ASSUME DuesInv, NEW h \in Clerks, DueGoto(h, Free), UNCHANGED <<members, coReps, guests, pay>>,
         due' \in Due, due'.amount = due.amount, due'.status = "none" <=> due.status = "none",
         Exists' <=> Exists,
         due.status \in {"active", "closed"} => due'.status \in {"active", "closed"},
         log' \in Log, log.overtaken \subseteq log'.overtaken, ClaimShows',
         (Exists /\ "assign" \notin log'.overtaken => due'.assignedRepId \in coReps \cup {Lead, Nobody}),
         \A g \in Clerks \ {h} :
            dcall[g].at \in {"kyc", "publish"} /\ due'.status = "closed" /\ due.status # "closed" =>
               "reopen" \in log'.overtaken
  PROVE  DuesInv'
<1>1. DueTables'
  BY DueParts DEF DueTables
<1>2. Paid' = Paid
  BY DEF Paid
<1>3. MoneyInv'
  BY <1>2, DueParts DEF MoneyInv, MoneyIsOnAPublishedDue, PaidTheAmount, OpenAmounts
<1>4. TeamInv'
  BY DueParts DEF TeamInv, AssigneeIsRep, RepsAreMembers
<1>5. due.status \in {"none", "draft", "active", "closed", "deleted"} /\ due'.status \in {"none", "draft", "active", "closed", "deleted"}
  BY DueParts DEF DueTables, Due
<1>6. ASSUME NEW g \in Clerks \ {h}, NEW d \in DueCall, d = dcall[g], DuePlace(d) PROVE DuePlace(d)'
  <2>1. d.at = "checkout" => due'.status \in {"active", "closed", "deleted"}
    BY <1>5, <1>6 DEF DuePlace, Exists
  <2>2. d.at = "checkout" /\ Exists' /\ "open" \notin log'.overtaken => d.amount = due'.amount
    BY <1>6 DEF DuePlace
  <2>3. d.at \in {"kyc", "publish"} /\ due'.status = "closed" => "reopen" \in log'.overtaken
    BY <1>6 DEF DuePlace
  <2>4. log'.overtaken \cap {"amount", "open"} = {} => log.overtaken \cap {"amount", "open"} = {}
    OBVIOUS
  <2> QED BY <1>2, <1>6, <2>1, <2>2, <2>3, <2>4 DEF DuePlace
<1>7. ClerksInv'
  BY <1>6, DueParts, FreePlace, ClerkMoves
<1> QED BY <1>1, <1>3, <1>4, <1>7, DueParts DEF DuesInv

(* What the history records.                                                *)
LEMMA OvertakesLog ==
  ASSUME log \in Log, NEW h \in Clerks, NEW w \in Windows, NEW places, Overtakes(h, w, places)
  PROVE  /\ log' \in Log /\ log.overtaken \subseteq log'.overtaken /\ log'.claims = log.claims
         /\ \A v \in Windows \ {w} : v \in log'.overtaken => v \in log.overtaken
         /\ \A g \in Clerks \ {h} : dcall[g].at \in places => w \in log'.overtaken
  BY DEF Overtakes, Log

LEMMA PublishedKeeps == ASSUME DuesInv, NEW h \in Clerks, WritePublished(h) PROVE DuesInv'
<1>1. /\ due' = IF Exists THEN [due EXCEPT !.status = "active"] ELSE due
      /\ DueGoto(h, Free) /\ UNCHANGED <<members, coReps, guests, pay, log>>
  BY DEF WritePublished
<1>2. /\ due' \in Due /\ due'.amount = due.amount /\ due'.assignedRepId = due.assignedRepId
      /\ due'.reminded = due.reminded /\ due'.status = IF Exists THEN "active" ELSE due.status
  BY <1>1, DueParts DEF Due, DueTables
<1>3. (due'.status = "none" <=> due.status = "none") /\ (Exists' <=> Exists)
      /\ (due.status \in {"active", "closed"} => due'.status \in {"active", "closed"})
  BY <1>2 DEF Exists
<1>4. ClaimShows'
  BY <1>1, <1>2, <1>3, DueParts DEF ClaimShows, Exists
<1>5. log' \in Log /\ log.overtaken \subseteq log'.overtaken
  BY <1>1, DueParts DEF DueTables
<1>6. Exists /\ "assign" \notin log'.overtaken => due'.assignedRepId \in coReps \cup {Lead, Nobody}
  BY <1>1, <1>2, DueParts DEF TeamInv, AssigneeIsRep
<1>7. due'.status = "closed" => due.status = "closed"
  BY <1>2
<1> QED BY <1>1, <1>2, <1>3, <1>4, <1>5, <1>6, <1>7, DueRowStep

LEMMA ClosedKeeps == ASSUME DuesInv, NEW h \in Clerks, WriteClosed(h) PROVE DuesInv'
<1>1. /\ due' = IF Exists THEN [due EXCEPT !.status = "closed"] ELSE due
      /\ Overtakes(h, "reopen", {"kyc", "publish"})
      /\ DueGoto(h, Free) /\ UNCHANGED <<members, coReps, guests, pay>>
  BY DEF WriteClosed
<1>2. /\ due' \in Due /\ due'.amount = due.amount /\ due'.assignedRepId = due.assignedRepId
      /\ due'.reminded = due.reminded /\ due'.status = IF Exists THEN "closed" ELSE due.status
  BY <1>1, DueParts DEF Due, DueTables
<1>3. (due'.status = "none" <=> due.status = "none") /\ (Exists' <=> Exists)
      /\ (due.status \in {"active", "closed"} => due'.status \in {"active", "closed"})
  BY <1>2 DEF Exists
<1>4. /\ log' \in Log /\ log.overtaken \subseteq log'.overtaken /\ log'.claims = log.claims
      /\ ("assign" \in log'.overtaken => "assign" \in log.overtaken)
      /\ \A g \in Clerks \ {h} : dcall[g].at \in {"kyc", "publish"} => "reopen" \in log'.overtaken
  <2>1. log \in Log
    BY DueParts DEF DueTables
  <2>2. "reopen" \in Windows /\ "assign" \in Windows \ {"reopen"}
    BY DEF Windows
  <2>3. PICK w \in Windows, places \in {{"kyc", "publish"}} : w = "reopen" /\ Overtakes(h, w, places)
    BY <1>1, <2>2
  <2> QED BY <2>1, <2>2, <2>3, OvertakesLog
<1>5. ClaimShows'
  BY <1>2, <1>3, <1>4, DueParts DEF ClaimShows, Exists
<1>6. Exists /\ "assign" \notin log'.overtaken => due'.assignedRepId \in coReps \cup {Lead, Nobody}
  BY <1>2, <1>4, DueParts DEF TeamInv, AssigneeIsRep
<1> QED BY <1>1, <1>2, <1>3, <1>4, <1>5, <1>6, DueRowStep

LEMMA AssignmentKeeps == ASSUME DuesInv, NEW h \in Clerks, WriteAssignment(h) PROVE DuesInv'
<1>1. PICK to \in People : to = dcall[h].to
  BY DueParts, DueCallFields DEF WriteAssignment
<1>2. /\ due' = IF Exists THEN [due EXCEPT !.assignedRepId = to] ELSE due
      /\ DueGoto(h, Free) /\ UNCHANGED <<members, coReps, guests, pay, log>> /\ dcall[h].at = "reassign"
  BY <1>1 DEF WriteAssignment
<1>3. /\ due' \in Due /\ due'.amount = due.amount /\ due'.assignedRepId = (IF Exists THEN to ELSE due.assignedRepId)
      /\ due'.reminded = due.reminded /\ due'.status = due.status
  BY <1>2, DueParts DEF Due, DueTables
<1>4. (due'.status = "none" <=> due.status = "none") /\ (Exists' <=> Exists)
  BY <1>3 DEF Exists
<1>5. ClaimShows'
  BY <1>2, <1>3, DueParts DEF ClaimShows
<1>6. log' \in Log /\ log.overtaken \subseteq log'.overtaken
  BY <1>2, DueParts DEF DueTables
<1>7. Exists /\ "assign" \notin log'.overtaken => due'.assignedRepId \in coReps \cup {Lead, Nobody}
  BY <1>1, <1>2, <1>3, DueParts DEF DuePlace
<1> QED BY <1>2, <1>3, <1>4, <1>5, <1>6, <1>7, DueRowStep

LEMMA ClaimReminderKeeps == ASSUME DuesInv, NEW h \in Clerks, ClaimReminder(h) PROVE DuesInv'
<1>1. DueGoto(h, Free) /\ UNCHANGED <<members, coReps, guests, pay>>
  BY DEF ClaimReminder
<1>2. CASE Exists /\ ~due.reminded
  <2>1. due' = [due EXCEPT !.reminded = TRUE] /\ Claimed
    BY <1>2 DEF ClaimReminder
  <2>2. /\ due' \in Due /\ due'.amount = due.amount /\ due'.assignedRepId = due.assignedRepId
        /\ due'.reminded /\ due'.status = due.status
    BY <2>1, DueParts DEF Due, DueTables
  <2>3. log.claims = 0
    BY <1>2, DueParts DEF ClaimShows, Exists
  <2>4. log' \in Log /\ log'.overtaken = log.overtaken /\ log'.claims = 1
    <3>1. log \in Log
      BY DueParts DEF DueTables
    <3>2. log' = [log EXCEPT !.claims = 1]
      BY <2>1, <2>3, <3>1 DEF Claimed, Log
    <3>3. 1 \in 0..2
      OBVIOUS
    <3> QED BY <3>1, <3>2, <3>3 DEF Log
  <2>5. ClaimShows'
    BY <1>2, <2>2, <2>4 DEF ClaimShows, Exists
  <2>6. Exists /\ "assign" \notin log'.overtaken => due'.assignedRepId \in coReps \cup {Lead, Nobody}
    BY <2>2, <2>4, DueParts DEF TeamInv, AssigneeIsRep
  <2>7. Exists' <=> Exists
    BY <2>2 DEF Exists
  <2> QED BY <1>1, <2>2, <2>4, <2>5, <2>6, <2>7, DueRowStep
<1>3. CASE ~(Exists /\ ~due.reminded)
  <2>1. UNCHANGED <<due, log>>
    BY <1>3 DEF ClaimReminder
  <2> QED BY <1>1, <2>1, FreePlace, DueRead
<1> QED BY <1>2, <1>3

LEMMA CooldownKeeps == ASSUME DuesInv, CooldownPasses PROVE DuesInv'
<1>1. /\ due' = [due EXCEPT !.reminded = FALSE] /\ log' = [log EXCEPT !.claims = 0]
      /\ UNCHANGED <<members, coReps, guests, pay, dcall>>
  BY DEF CooldownPasses
<1>2. /\ due' \in Due /\ due'.amount = due.amount /\ due'.assignedRepId = due.assignedRepId
      /\ ~due'.reminded /\ due'.status = due.status
  BY <1>1, DueParts DEF Due, DueTables
<1>3. log' \in Log /\ log'.overtaken = log.overtaken /\ log'.claims = 0
  BY <1>1, DueParts DEF Log, DueTables
<1>4. Paid' = Paid /\ Exists' = Exists
  BY <1>1, <1>2 DEF Paid, Exists
<1>5. DueTables'
  BY <1>1, <1>2, <1>3, DueParts DEF DueTables
<1>6. MoneyInv' /\ TeamInv'
  BY <1>1, <1>2, <1>3, <1>4, DueParts
     DEF MoneyInv, MoneyIsOnAPublishedDue, PaidTheAmount, OpenAmounts, TeamInv, AssigneeIsRep, RepsAreMembers
<1>7. ClaimShows'
  BY <1>2, <1>3 DEF ClaimShows
<1>8. ASSUME NEW g \in Clerks, NEW d \in DueCall, d = dcall[g], DuePlace(d) PROVE DuePlace(d)'
  BY <1>1, <1>2, <1>3, <1>4, <1>8 DEF DuePlace
<1>9. ClerksInv'
  BY <1>1, <1>8, DueParts, ClerksStay
<1> QED BY <1>5, <1>6, <1>7, <1>9 DEF DuesInv

(* An edit: a new amount finds nobody who has paid, and says so to the      *)
(* checkouts that copied the old one.                                       *)
LEMMA UpdateKeeps == ASSUME DuesInv, NEW h \in Clerks, UpdateDue(h) PROVE DuesInv'
<1>1. PICK f \in Faces \cup {0}, guest \in {"same", "yes", "no"} : f = dcall[h].amount /\ guest = dcall[h].allowGuests
  BY DueParts, DueCallFields DEF UpdateDue
<1>2. /\ due' = IF Exists
                THEN [due EXCEPT !.amount = IF f = 0 THEN @ ELSE f,
                                 !.allowGuests = IF guest = "same" THEN @ ELSE guest = "yes"]
                ELSE due
      /\ log' = IF /\ due'.amount # due.amount
                   /\ (\E p \in People : pay[p].state = "open") \/ (\E g \in Clerks : dcall[g].at = "checkout")
                THEN [log EXCEPT !.overtaken = @ \cup {"open"}] ELSE log
      /\ DueGoto(h, Free) /\ UNCHANGED <<members, coReps, guests, pay>> /\ dcall[h].at = "update"
  BY <1>1 DEF UpdateDue
<1>3. /\ due' \in Due /\ due'.assignedRepId = due.assignedRepId /\ due'.reminded = due.reminded
      /\ due'.status = due.status
      /\ due'.amount = IF Exists /\ f # 0 THEN f ELSE due.amount
  <2>0. due \in Due
    BY DueParts DEF DueTables
  <2>1. CASE Exists
    <3>1. PICK a \in Faces, b \in BOOLEAN : due' = [due EXCEPT !.amount = a, !.allowGuests = b]
                                            /\ a = IF f = 0 THEN due.amount ELSE f
      <4> DEFINE a == IF f = 0 THEN due.amount ELSE f
                 b == IF guest = "same" THEN due.allowGuests ELSE guest = "yes"
      <4>1. a \in Faces
        BY <2>0 DEF Due
      <4>2. b \in BOOLEAN
        <5>1. due.allowGuests \in BOOLEAN
          BY <2>0 DEF Due
        <5> QED BY <5>1
      <4>3. due' = [due EXCEPT !.amount = a, !.allowGuests = b]
        BY <1>2, <2>0, <2>1 DEF Due
      <4> QED BY <4>1, <4>2, <4>3
    <3> QED BY <2>0, <2>1, <3>1 DEF Due
  <2>2. CASE ~Exists
    BY <1>2, <2>0, <2>2
  <2> QED BY <2>1, <2>2
<1>4. log' \in Log /\ log.overtaken \subseteq log'.overtaken /\ log'.claims = log.claims
      /\ \A w \in {"amount", "assign", "team", "reopen"} : w \in log'.overtaken <=> w \in log.overtaken
  <2>1. log \in Log
    BY DueParts DEF DueTables
  <2>2. CASE log' = log
    BY <2>1, <2>2
  <2>3. CASE log' = [log EXCEPT !.overtaken = @ \cup {"open"}]
    BY <2>1, <2>3 DEF Log, Windows
  <2> QED BY <1>2, <2>2, <2>3
<1>5. due'.amount # due.amount /\ log'.overtaken \cap {"amount", "open"} = {} => Paid = {}
  <2>1. log'.overtaken \cap {"amount", "open"} = {} => log.overtaken \cap {"amount", "open"} = {}
    BY <1>4
  <2>2. DuePlace(dcall[h])
    BY DueParts
  <2> QED BY <1>1, <1>2, <1>3, <2>1, <2>2 DEF DuePlace
<1>6. due'.amount # due.amount /\ "open" \notin log'.overtaken =>
        (\A p \in People : pay[p].state # "open") /\ (\A g \in Clerks : dcall[g].at # "checkout")
  <2>1. log \in Log
    BY DueParts DEF DueTables
  <2> QED BY <1>2, <2>1 DEF Log
<1>7. Paid' = Paid /\ Exists' = Exists
  BY <1>2, <1>3 DEF Paid, Exists
<1>8. DueTables'
  BY <1>2, <1>3, <1>4, DueParts DEF DueTables
<1>9. MoneyInv'
  <2>1. MoneyIsOnAPublishedDue'
    BY <1>2, <1>3, DueParts DEF MoneyInv, MoneyIsOnAPublishedDue
  <2>2. PaidTheAmount'
    <3>1. log'.overtaken \cap {"amount", "open"} = {} => log.overtaken \cap {"amount", "open"} = {}
      BY <1>4
    <3> QED BY <1>2, <1>5, <1>7, <3>1, DueParts DEF MoneyInv, PaidTheAmount
  <2>3. OpenAmounts'
    BY <1>2, <1>4, <1>6, DueParts DEF MoneyInv, OpenAmounts
  <2> QED BY <2>1, <2>2, <2>3 DEF MoneyInv
<1>10. TeamInv'
  BY <1>2, <1>3, <1>4, <1>7, DueParts DEF TeamInv, AssigneeIsRep, RepsAreMembers
<1>11. ClaimShows'
  BY <1>3, <1>4, DueParts DEF ClaimShows
<1>12. ASSUME NEW g \in Clerks \ {h}, NEW d \in DueCall, d = dcall[g], DuePlace(d) PROVE DuePlace(d)'
  <2>1. d.at = "checkout" /\ Exists' /\ "open" \notin log'.overtaken => d.amount = due'.amount
    BY <1>4, <1>6, <1>7, <1>12 DEF DuePlace
  <2>2. d.at = "update" /\ log'.overtaken \cap {"amount", "open"} = {} /\ d.amount \notin {0, due'.amount} => Paid' = {}
    BY <1>4, <1>5, <1>7, <1>12 DEF DuePlace
  <2> QED BY <1>2, <1>3, <1>4, <1>12, <2>1, <2>2 DEF DuePlace
<1>13. ClerksInv'
  BY <1>2, <1>12, DueParts, FreePlace, ClerkMoves
<1> QED BY <1>8, <1>9, <1>10, <1>11, <1>13 DEF DuesInv

LEMMA DeleteRowKeeps == ASSUME DuesInv, NEW h \in Clerks, DeleteRow(h) PROVE DuesInv'
<1>1. DueGoto(h, Free) /\ UNCHANGED <<members, coReps, guests, pay, log>>
  BY DEF DeleteRow
<1>2. CASE Exists /\ \A p \in People : pay[p] = NoPay
  <2>1. due' = NoRow("deleted")
    BY <1>2 DEF DeleteRow
  <2>2. due' \in Due /\ due'.status = "deleted" /\ ~due'.reminded
    <3>1. (CHOOSE f \in Faces : TRUE) \in Faces
      BY DuesAssumption
    <3> QED BY <2>1, <3>1 DEF NoRow, Due
  <2>3. Paid = {} /\ Paid' = {} /\ \A p \in People : pay[p].state = "none"
    BY <1>1, <1>2 DEF Paid, NoPay
  <2>4. DueTables'
    BY <1>1, <2>2, DueParts DEF DueTables
  <2>5. MoneyInv'
    BY <1>1, <1>2, <2>3 DEF MoneyInv, MoneyIsOnAPublishedDue, PaidTheAmount, OpenAmounts
  <2>6. ~Exists'
    BY <2>2 DEF Exists
  <2>7. TeamInv'
    BY <1>1, <2>6, DueParts DEF TeamInv, AssigneeIsRep, RepsAreMembers
  <2>8. ClaimShows'
    BY <1>1, <2>2, DueParts DEF ClaimShows
  <2>9. ASSUME NEW g \in Clerks \ {h}, NEW d \in DueCall, d = dcall[g], DuePlace(d) PROVE DuePlace(d)'
    BY <1>1, <2>2, <2>3, <2>6, <2>9 DEF DuePlace
  <2>10. ClerksInv'
    BY <1>1, <2>9, DueParts, FreePlace, ClerkMoves
  <2> QED BY <2>4, <2>5, <2>7, <2>8, <2>10 DEF DuesInv
<1>3. CASE ~(Exists /\ \A p \in People : pay[p] = NoPay)
  <2>1. UNCHANGED due
    BY <1>3 DEF DeleteRow
  <2> QED BY <1>1, <2>1, FreePlace, DueRead
<1> QED BY <1>2, <1>3

(* A checkout's line is inserted, with the amount that was read.            *)
LEMMA InsertItemKeeps == ASSUME DuesInv, NEW h \in Clerks, InsertItem(h) PROVE DuesInv'
<1>1. PICK p \in People, f \in Faces : p = dcall[h].p /\ f = dcall[h].amount
  BY DueParts, DueCallFields DEF InsertItem
<1>2. DueGoto(h, Free) /\ UNCHANGED <<due, members, coReps, guests, log>> /\ dcall[h].at = "checkout"
  BY DEF InsertItem
<1>3. CASE UNCHANGED pay
  BY <1>2, <1>3, FreePlace, DueRead
<1>4. CASE ~UNCHANGED pay
  <2>1. Exists /\ p \notin Paid /\ pay' = [pay EXCEPT ![p] = [state |-> "open", amount |-> f]]
    BY <1>1, <1>4 DEF InsertItem
  <2>2. pay' \in [People -> Pay] /\ pay'[p].state = "open" /\ pay'[p].amount = f
        /\ \A q \in People \ {p} : pay'[q] = pay[q]
    <3>1. [state |-> "open", amount |-> f] \in Pay
      BY DEF Pay
    <3>2. pay \in [People -> Pay]
      BY DueParts DEF DueTables
    <3> QED BY <2>1, <3>1, <3>2
  <2>3. due.status \in {"active", "closed"} /\ ("open" \notin log.overtaken => f = due.amount)
    BY <1>1, <1>2, <2>1, DueParts DEF DuePlace, Exists
  <2>4. Paid' = Paid
    BY <2>1, <2>2 DEF Paid
  <2>5. DueTables'
    BY <1>2, <2>2, DueParts DEF DueTables
  <2>6. MoneyInv'
    <3>1. \A q \in Paid : q \in People /\ pay'[q] = pay[q]
      BY <2>1, <2>2 DEF Paid
    <3>2. PaidTheAmount'
      BY <1>2, <2>4, <3>1, DueParts DEF MoneyInv, PaidTheAmount
    <3>3. OpenAmounts'
      BY <1>2, <2>2, <2>3, DueParts DEF MoneyInv, OpenAmounts
    <3> QED BY <1>2, <2>3, <3>2, <3>3 DEF MoneyInv, MoneyIsOnAPublishedDue
  <2>7. TeamInv' /\ ClaimShows'
    BY <1>2, DueParts DEF TeamInv, AssigneeIsRep, RepsAreMembers, ClaimShows, Exists
  <2>8. ASSUME NEW g \in Clerks \ {h}, NEW d \in DueCall, d = dcall[g], DuePlace(d) PROVE DuePlace(d)'
    BY <1>2, <2>4, <2>8 DEF DuePlace, Exists
  <2>9. ClerksInv'
    BY <1>2, <2>8, DueParts, FreePlace, ClerkMoves
  <2> QED BY <2>5, <2>6, <2>7, <2>9 DEF DuesInv
<1> QED BY <1>3, <1>4

(* A payment lands, which an edit may have counted too early.               *)
LEMMA SettlesKeeps == ASSUME DuesInv, NEW p \in People, Settles(p) PROVE DuesInv'
<1>1. /\ pay[p].state = "open" /\ pay' = [pay EXCEPT ![p].state = "paid"]
      /\ log' = IF \E g \in Clerks : dcall[g].at = "update" /\ dcall[g].amount \notin {0, due.amount}
                THEN [log EXCEPT !.overtaken = @ \cup {"amount"}] ELSE log
      /\ UNCHANGED <<due, members, coReps, guests, dcall>>
  BY DEF Settles
<1>2. pay' \in [People -> Pay] /\ pay'[p].state = "paid" /\ pay'[p].amount = pay[p].amount
      /\ \A q \in People \ {p} : pay'[q] = pay[q]
  <2>1. pay[p] \in [state : {"open", "paid"}, amount : Faces]
    BY <1>1, DueParts, PayStates
  <2>2. pay \in [People -> Pay]
    BY DueParts DEF DueTables
  <2>3. PICK x \in [state : {"open", "paid"}, amount : Faces] :
           x = [pay[p] EXCEPT !.state = "paid"] /\ x.state = "paid" /\ x.amount = pay[p].amount
    <3> DEFINE x == [pay[p] EXCEPT !.state = "paid"]
    <3>1. x \in [state : {"open", "paid"}, amount : Faces] /\ x.state = "paid" /\ x.amount = pay[p].amount
      BY <2>1
    <3> QED BY <3>1
  <2>4. pay' = [pay EXCEPT ![p] = x] /\ x \in Pay
    BY <1>1, <2>3 DEF Pay
  <2> QED BY <2>2, <2>3, <2>4
<1>3. log' \in Log /\ log.overtaken \subseteq log'.overtaken /\ log'.claims = log.claims
      /\ \A w \in {"open", "assign", "team", "reopen"} : w \in log'.overtaken <=> w \in log.overtaken
  <2>1. log \in Log
    BY DueParts DEF DueTables
  <2>2. CASE log' = log
    BY <2>1, <2>2
  <2>3. CASE log' = [log EXCEPT !.overtaken = @ \cup {"amount"}]
    BY <2>1, <2>3 DEF Log, Windows
  <2> QED BY <1>1, <2>2, <2>3
<1>4. "amount" \notin log'.overtaken => \A g \in Clerks : dcall[g].at = "update" => dcall[g].amount \in {0, due.amount}
  <2>1. log \in Log
    BY DueParts DEF DueTables
  <2> QED BY <1>1, <2>1 DEF Log
<1>5. DueTables'
  BY <1>1, <1>2, <1>3, DueParts DEF DueTables
<1>6. MoneyInv'
  <2>1. MoneyIsOnAPublishedDue'
    <3>1. pay[p] # NoPay
      BY <1>1 DEF NoPay
    <3> QED BY <1>1, <3>1, DueParts DEF MoneyInv, MoneyIsOnAPublishedDue
  <2>2. PaidTheAmount'
    <3>1. ASSUME log'.overtaken \cap {"amount", "open"} = {}, NEW q \in People, pay'[q].state = "paid"
          PROVE  pay'[q].amount = due.amount
      <4>1. log.overtaken \cap {"amount", "open"} = {} /\ "open" \notin log.overtaken
        BY <1>3, <3>1
      <4>2. CASE q = p
        BY <1>1, <1>2, <4>1, <4>2, DueParts DEF MoneyInv, OpenAmounts
      <4>3. CASE q # p
        BY <1>2, <3>1, <4>1, <4>3, DueParts DEF MoneyInv, PaidTheAmount, Paid
      <4> QED BY <4>2, <4>3
    <3> QED BY <1>1, <3>1 DEF PaidTheAmount, Paid
  <2>3. OpenAmounts'
    BY <1>1, <1>2, <1>3, DueParts DEF MoneyInv, OpenAmounts
  <2> QED BY <2>1, <2>2, <2>3 DEF MoneyInv
<1>7. TeamInv' /\ ClaimShows'
  BY <1>1, <1>3, DueParts DEF TeamInv, AssigneeIsRep, RepsAreMembers, ClaimShows, Exists
<1>8. ASSUME NEW g \in Clerks, NEW d \in DueCall, d = dcall[g], DuePlace(d) PROVE DuePlace(d)'
  <2>1. d.at = "update" /\ log'.overtaken \cap {"amount", "open"} = {} => d.amount \in {0, due'.amount}
    BY <1>1, <1>4, <1>8
  <2> QED BY <1>1, <1>3, <1>8, <2>1 DEF DuePlace, Exists
<1>9. ClerksInv'
  BY <1>1, <1>8, DueParts, ClerksStay
<1> QED BY <1>5, <1>6, <1>7, <1>9 DEF DuesInv

(* The people come and go.                                                  *)
LEMMA JoinKeeps == ASSUME DuesInv, NEW p \in People, JoinSpace(p) \/ ConfirmJoinDepartment(p) \/ ClaimGuest(p) PROVE DuesInv'
<1>1. /\ members' \in {members, members \cup {p}} /\ guests' \subseteq guests
      /\ UNCHANGED <<due, coReps, pay, dcall, log>>
      /\ p \in guests => members' = members
  BY DueParts DEF JoinSpace, ConfirmJoinDepartment, ClaimGuest, DueTables
<1>2. DueTables'
  <2>1. IsFiniteSet(members)'
    BY <1>1, DueParts, FS_AddElement DEF DueTables
  <2>2. (members \cap guests = {})'
    BY <1>1, DueParts DEF DueTables, JoinSpace, ConfirmJoinDepartment, ClaimGuest
  <2> QED BY <1>1, <2>1, <2>2, DueParts DEF DueTables
<1>3. Paid' = Paid /\ Exists' = Exists /\ members \subseteq members'
  BY <1>1 DEF Paid, Exists
<1>4. MoneyInv' /\ TeamInv' /\ ClaimShows'
  BY <1>1, <1>3, DueParts DEF MoneyInv, MoneyIsOnAPublishedDue, PaidTheAmount, OpenAmounts,
                              TeamInv, AssigneeIsRep, RepsAreMembers, ClaimShows
<1>5. ASSUME NEW g \in Clerks, NEW d \in DueCall, d = dcall[g], DuePlace(d) PROVE DuePlace(d)'
  BY <1>1, <1>3, <1>5 DEF DuePlace
<1>6. ClerksInv'
  BY <1>1, <1>5, DueParts, ClerksStay
<1> QED BY <1>2, <1>4, <1>6 DEF DuesInv

LEMMA MembershipKeeps == ASSUME DuesInv, NEW h \in Clerks, DeleteMembership(h) PROVE DuesInv'
<1>1. PICK p \in People : p = dcall[h].p
  BY DueParts, DueCallFields DEF DeleteMembership
<1>2. /\ members' = members \ {p} /\ Overtakes(h, "team", {"rep"}) /\ DueGoto(h, Free)
      /\ UNCHANGED <<due, coReps, guests, pay>> /\ dcall[h].at = "drop"
  BY <1>1 DEF DeleteMembership
<1>3. /\ log' \in Log /\ log.overtaken \subseteq log'.overtaken /\ log'.claims = log.claims
      /\ \A w \in {"open", "amount", "assign", "reopen"} : w \in log'.overtaken <=> w \in log.overtaken
      /\ \A g \in Clerks \ {h} : dcall[g].at = "rep" => "team" \in log'.overtaken
  <2>1. log \in Log
    BY DueParts DEF DueTables
  <2>2. "team" \in Windows /\ {"open", "amount", "assign", "reopen"} \subseteq Windows \ {"team"}
    BY DEF Windows
  <2>3. PICK w \in Windows, places \in {{"rep"}} : w = "team" /\ Overtakes(h, w, places)
    BY <1>2, <2>2
  <2> QED BY <2>1, <2>2, <2>3, OvertakesLog
<1>4. "team" \notin log.overtaken => p \notin coReps
  BY <1>1, <1>2, DueParts DEF DuePlace
<1>5. DueTables'
  <2>1. IsFiniteSet(members)'
    BY <1>2, DueParts, FS_RemoveElement DEF DueTables
  <2> QED BY <1>2, <1>3, <2>1, DueParts DEF DueTables
<1>6. Paid' = Paid /\ Exists' = Exists
  BY <1>2 DEF Paid, Exists
<1>7. MoneyInv' /\ ClaimShows'
  <2>1. log'.overtaken \cap {"amount", "open"} = {} => log.overtaken \cap {"amount", "open"} = {}
    BY <1>3
  <2> QED BY <1>2, <1>3, <1>6, <2>1, DueParts
          DEF MoneyInv, MoneyIsOnAPublishedDue, PaidTheAmount, OpenAmounts, ClaimShows
<1>8. TeamInv'
  BY <1>2, <1>3, <1>4, <1>6, DueParts DEF TeamInv, AssigneeIsRep, RepsAreMembers
<1>9. ASSUME NEW g \in Clerks \ {h}, NEW d \in DueCall, d = dcall[g], DuePlace(d) PROVE DuePlace(d)'
  <2>1. log'.overtaken \cap {"amount", "open"} = {} => log.overtaken \cap {"amount", "open"} = {}
    BY <1>3
  <2> QED BY <1>2, <1>3, <1>6, <1>9, <2>1 DEF DuePlace
<1>10. ClerksInv'
  BY <1>2, <1>9, DueParts, FreePlace, ClerkMoves
<1> QED BY <1>5, <1>7, <1>8, <1>10 DEF DuesInv

LEMMA CoRepKeeps == ASSUME DuesInv, NEW h \in Clerks, WriteCoRep(h) PROVE DuesInv'
<1>1. PICK p \in People : p = dcall[h].p
  BY DueParts, DueCallFields DEF WriteCoRep
<1>2. /\ coReps' = coReps \cup {p} /\ Overtakes(h, "team", {"leave", "drop"}) /\ DueGoto(h, Free)
      /\ UNCHANGED <<due, members, guests, pay>> /\ dcall[h].at = "rep"
  BY <1>1 DEF WriteCoRep
<1>3. /\ log' \in Log /\ log.overtaken \subseteq log'.overtaken /\ log'.claims = log.claims
      /\ \A w \in {"open", "amount", "assign", "reopen"} : w \in log'.overtaken <=> w \in log.overtaken
      /\ \A g \in Clerks \ {h} : dcall[g].at \in {"leave", "drop"} => "team" \in log'.overtaken
  <2>1. log \in Log
    BY DueParts DEF DueTables
  <2>2. "team" \in Windows /\ {"open", "amount", "assign", "reopen"} \subseteq Windows \ {"team"}
    BY DEF Windows
  <2>3. PICK w \in Windows, places \in {{"leave", "drop"}} : w = "team" /\ Overtakes(h, w, places)
    BY <1>2, <2>2
  <2> QED BY <2>1, <2>2, <2>3, OvertakesLog
<1>4. "team" \notin log.overtaken => p \in members
  BY <1>1, <1>2, DueParts DEF DuePlace
<1>5. DueTables'
  BY <1>2, <1>3, DueParts DEF DueTables
<1>6. Paid' = Paid /\ Exists' = Exists
  BY <1>2 DEF Paid, Exists
<1>7. MoneyInv' /\ ClaimShows'
  <2>1. log'.overtaken \cap {"amount", "open"} = {} => log.overtaken \cap {"amount", "open"} = {}
    BY <1>3
  <2> QED BY <1>2, <1>3, <1>6, <2>1, DueParts
          DEF MoneyInv, MoneyIsOnAPublishedDue, PaidTheAmount, OpenAmounts, ClaimShows
<1>8. TeamInv'
  BY <1>2, <1>3, <1>4, <1>6, DueParts DEF TeamInv, AssigneeIsRep, RepsAreMembers
<1>9. ASSUME NEW g \in Clerks \ {h}, NEW d \in DueCall, d = dcall[g], DuePlace(d) PROVE DuePlace(d)'
  <2>1. log'.overtaken \cap {"amount", "open"} = {} => log.overtaken \cap {"amount", "open"} = {}
    BY <1>3
  <2> QED BY <1>2, <1>3, <1>6, <1>9, <2>1 DEF DuePlace
<1>10. ClerksInv'
  BY <1>2, <1>9, DueParts, FreePlace, ClerkMoves
<1> QED BY <1>5, <1>7, <1>8, <1>10 DEF DuesInv

LEMMA RemoveCoRepKeeps == ASSUME DuesInv, NEW p \in People, RemoveCoRep(p) PROVE DuesInv'
<1>1. /\ coReps' = coReps \ {p}
      /\ due' = IF due.assignedRepId = p THEN [due EXCEPT !.assignedRepId = Nobody] ELSE due
      /\ log' = IF \E g \in Clerks : dcall[g].at \in {"create", "reassign"}
                THEN [log EXCEPT !.overtaken = @ \cup {"assign"}] ELSE log
      /\ UNCHANGED <<members, guests, pay, dcall>>
  BY DEF RemoveCoRep
<1>2. /\ due' \in Due /\ due'.status = due.status /\ due'.amount = due.amount /\ due'.reminded = due.reminded
      /\ due'.assignedRepId = IF due.assignedRepId = p THEN Nobody ELSE due.assignedRepId
  BY <1>1, DueParts DEF DueTables, Due
<1>3. log' \in Log /\ log.overtaken \subseteq log'.overtaken /\ log'.claims = log.claims
      /\ \A w \in {"open", "amount", "team", "reopen"} : w \in log'.overtaken <=> w \in log.overtaken
  <2>1. log \in Log
    BY DueParts DEF DueTables
  <2>2. CASE log' = log
    BY <2>1, <2>2
  <2>3. CASE log' = [log EXCEPT !.overtaken = @ \cup {"assign"}]
    BY <2>1, <2>3 DEF Log, Windows
  <2> QED BY <1>1, <2>2, <2>3
<1>4. "assign" \notin log'.overtaken => \A g \in Clerks : dcall[g].at \notin {"create", "reassign"}
  <2>1. log \in Log
    BY DueParts DEF DueTables
  <2> QED BY <1>1, <2>1 DEF Log
<1>5. Paid' = Paid /\ Exists' = Exists
  BY <1>1, <1>2 DEF Paid, Exists
<1>6. log'.overtaken \cap {"amount", "open"} = {} => log.overtaken \cap {"amount", "open"} = {}
  BY <1>3
<1>7. DueTables'
  BY <1>1, <1>2, <1>3, DueParts DEF DueTables
<1>8. MoneyInv' /\ ClaimShows'
  BY <1>1, <1>2, <1>3, <1>5, <1>6, DueParts
     DEF MoneyInv, MoneyIsOnAPublishedDue, PaidTheAmount, OpenAmounts, ClaimShows
<1>9. TeamInv'
  BY <1>1, <1>2, <1>3, <1>5, DueParts DEF TeamInv, AssigneeIsRep, RepsAreMembers
<1>10. ASSUME NEW g \in Clerks, NEW d \in DueCall, d = dcall[g], DuePlace(d) PROVE DuePlace(d)'
  <2>1. ("assign" \notin log'.overtaken => d.at \notin {"create", "reassign"})
        /\ ("team" \notin log'.overtaken => "team" \notin log.overtaken)
        /\ ("reopen" \in log'.overtaken <=> "reopen" \in log.overtaken)
        /\ ("open" \notin log'.overtaken => "open" \notin log.overtaken)
    BY <1>3, <1>4, <1>10
  <2> QED BY <1>1, <1>2, <1>5, <1>6, <1>10, <2>1 DEF DuePlace
<1>11. ClerksInv'
  BY <1>1, <1>10, DueParts, ClerksStay
<1> QED BY <1>7, <1>8, <1>9, <1>11 DEF DuesInv

-----------------------------------------------------------------------------
(* Dues: the theorems                                                      *)

LEMMA DuesStart == DuesInit => DuesInv
<1> SUFFICES ASSUME DuesInit PROVE DuesInv
  OBVIOUS
<1> USE DEF DuesInit
<1>1. due \in Due /\ due.status = "none" /\ ~due.reminded
  <2>1. (CHOOSE f \in Faces : TRUE) \in Faces
    BY DuesAssumption
  <2> QED BY <2>1 DEF NoRow, Due
<1>2. log \in Log /\ log.claims = 0
  BY DEF Log
<1>3. pay \in [People -> Pay] /\ \A p \in People : pay[p] = NoPay
  BY DEF Pay, NoPay
<1>4. DueTables
  <2>1. IsFiniteSet(members)
    BY FS_EmptySet
  <2> QED BY <1>1, <1>2, <1>3, <2>1, DuesAssumption DEF DueTables
<1>5. MoneyInv
  BY <1>3 DEF MoneyInv, MoneyIsOnAPublishedDue, PaidTheAmount, OpenAmounts, Paid, NoPay
<1>6. TeamInv
  BY <1>1 DEF TeamInv, AssigneeIsRep, RepsAreMembers, Exists
<1>7. ClaimShows
  BY <1>1, <1>2 DEF ClaimShows
<1>8. ClerksInv
  BY FreePlace DEF ClerksInv
<1> QED BY <1>4, <1>5, <1>6, <1>7, <1>8 DEF DuesInv

LEMMA DuesStep == DuesInv /\ [DuesNext]_duesVars => DuesInv'
<1> SUFFICES ASSUME DuesInv, [DuesNext]_duesVars PROVE DuesInv'
  OBVIOUS
<1>1. ASSUME NEW h \in Clerks, DueReading(h) PROVE DuesInv'
  BY <1>1, DueReadingKeeps
<1>2. ASSUME NEW h \in Clerks,
             InsertDue(h) \/ UpdateDue(h) \/ WritePublished(h) \/ WriteClosed(h) \/ DeleteRow(h) \/ WriteAssignment(h)
             \/ ClaimReminder(h) \/ DeleteMembership(h) \/ WriteCoRep(h) \/ InsertItem(h)
      PROVE  DuesInv'
  BY <1>2, InsertDueKeeps, UpdateKeeps, PublishedKeeps, ClosedKeeps, DeleteRowKeeps, AssignmentKeeps,
     ClaimReminderKeeps, MembershipKeeps, CoRepKeeps, InsertItemKeeps
<1>3. ASSUME NEW p \in People,
             JoinSpace(p) \/ ConfirmJoinDepartment(p) \/ ClaimGuest(p) \/ RemoveCoRep(p) \/ Settles(p)
      PROVE  DuesInv'
  BY <1>3, JoinKeeps, RemoveCoRepKeeps, SettlesKeeps
<1>4. CASE CooldownPasses
  BY <1>4, CooldownKeeps
<1>5. CASE UNCHANGED duesVars
  <2>1. UNCHANGED <<due, members, coReps, guests, pay, dcall, log>>
    BY <1>5 DEF duesVars
  <2>2. ClerksInv'
    BY <2>1, DueParts, PlaceKept, ClerksStay
  <2> QED BY <2>1, <2>2, DueParts
          DEF DuesInv, DueTables, MoneyInv, TeamInv, ClaimShows, MoneyIsOnAPublishedDue, PaidTheAmount, OpenAmounts,
              AssigneeIsRep, RepsAreMembers, Exists, Paid
<1> QED BY <1>1, <1>2, <1>3, <1>4, <1>5 DEF DuesNext, DueReading

(* The totals count what the roster lists.                                  *)
LEMMA TotalsFollow == ASSUME DueTables PROVE TotalsMatchRoster
<1> SUFFICES ASSUME Paid \ guests \subseteq members
             PROVE  /\ PaidCount = Cardinality(Roster("paid"))
                    /\ UnpaidTotal = Cardinality(Roster("unpaid"))
  BY DEF TotalsMatchRoster
<1>1. IsFiniteSet(members) /\ members \cap guests = {} /\ Lead \notin members
  BY DuesAssumption DEF DueTables
<1>2. Paid \ guests = members \cap Paid
  BY <1>1
<1>3. Roster("paid") = members \cap Paid /\ Roster("unpaid") = (members \ Paid) \cup {Lead}
  BY DEF Roster
<1>4. /\ IsFiniteSet(members \cap Paid) /\ IsFiniteSet(members \ Paid)
      /\ Cardinality(members \ Paid) = Cardinality(members) - Cardinality(members \cap Paid)
      /\ Cardinality(members \cap Paid) \in Nat /\ Cardinality(members) \in Nat
      /\ Cardinality(members \cap Paid) <= Cardinality(members)
  BY <1>1, FS_Difference, FS_Intersection, FS_CardinalityType, FS_Subset
<1>5. Cardinality((members \ Paid) \cup {Lead}) = Cardinality(members \ Paid) + 1
  BY <1>1, <1>4, FS_AddElement
<1>6. PaidCount = Cardinality(members \cap Paid)
  BY <1>2 DEF PaidCount
<1>7. PICK n \in Nat, k \in Nat : n = Cardinality(members) /\ k = Cardinality(members \cap Paid) /\ k <= n
  BY <1>4
<1>8. Cardinality(Roster("unpaid")) = (n - k) + 1
  BY <1>3, <1>4, <1>5, <1>7
<1>9. UnpaidTotal = (n + 1) - k
  BY <1>6, <1>7 DEF UnpaidTotal, MemberCount
<1>10. PaidCount = Cardinality(Roster("paid"))
  BY <1>3, <1>6
<1>11. (n - k) + 1 = (n + 1) - k
  OBVIOUS
<1>12. UnpaidTotal = Cardinality(Roster("unpaid"))
  BY <1>8, <1>9, <1>11
<1> QED BY <1>10, <1>12

(* The due, the team, the payments and every handler stay what the code can *)
(* write (repDues.ts, circle.ts, spaces.ts).                                *)
THEOREM DuesTypeCorrect == DuesSpec => []DuesTypeOK
<1>1. DuesInv => DuesTypeOK
  BY DEF DuesInv, DueTables, ClerksInv, DuesTypeOK
<1> QED BY <1>1, DuesStart, DuesStep, PTL DEF DuesSpec

(* A due asks everybody the same and once a day, is run by a rep of the     *)
(* space, keeps the money paid on it, and its totals are those of the       *)
(* roster, with any number of people and handlers and in any order of their *)
(* steps but the ones the log names (repDues.ts, circle.ts).                *)
THEOREM HonestDue == DuesSpec => []DueIsHonest
<1>1. DuesInv => DueIsHonest
  BY TotalsFollow DEF DuesInv, MoneyInv, TeamInv, ClaimShows, DueIsHonest, RemindedOncePerDay
<1> QED BY <1>1, DuesStart, DuesStep, PTL DEF DuesSpec

(* A closed due does not open again, unless its publication had read the    *)
(* draft (repDues.ts).                                                      *)
THEOREM ClosedForGood == DuesSpec => ClosedIsFinal
<1>1. DuesInv /\ [DuesNext]_duesVars => [due.status = "closed" /\ "reopen" \notin log.overtaken => due'.status # "active"]_duesVars
  <2> SUFFICES ASSUME DuesInv, DuesNext, due.status = "closed", "reopen" \notin log.overtaken
               PROVE  due'.status # "active"
    OBVIOUS
  <2>0. due \in Due /\ \A h \in Clerks : dcall[h].at \notin {"kyc", "publish"}
    BY DueParts DEF DuePlace, DueTables
  <2>1. ASSUME NEW h \in Clerks, DueReading(h) PROVE due'.status # "active"
    BY <2>1 DEF DueReading, CreateDue, ConfirmCreateDue, PatchDue, CountPayments, PublishDue, AssertCanCollect, CloseDue,
                DeleteDue, RemindDue, CountOutstanding, DueInterrupt, ReassignDue, LeaveSpace, RemoveMember, AddCoRep,
                OpenCheckout, GuestCheckout
  <2>2. ASSUME NEW h \in Clerks,
               InsertDue(h) \/ UpdateDue(h) \/ WritePublished(h) \/ WriteClosed(h) \/ DeleteRow(h) \/ WriteAssignment(h)
               \/ ClaimReminder(h) \/ DeleteMembership(h) \/ WriteCoRep(h) \/ InsertItem(h)
        PROVE  due'.status # "active"
    <3>1. CASE InsertDue(h) \/ WritePublished(h)
      BY <2>0, <3>1 DEF InsertDue, WritePublished
    <3>2. CASE UpdateDue(h)
      BY <2>0, <3>2 DEF UpdateDue, Due
    <3>3. CASE WriteClosed(h) \/ DeleteRow(h)
      BY <2>0, <3>3 DEF WriteClosed, DeleteRow, NoRow, Due
    <3>4. CASE WriteAssignment(h) \/ ClaimReminder(h)
      BY <2>0, <3>4 DEF WriteAssignment, ClaimReminder, Due
    <3>5. CASE DeleteMembership(h) \/ WriteCoRep(h) \/ InsertItem(h)
      BY <3>5 DEF DeleteMembership, WriteCoRep, InsertItem
    <3> QED BY <2>2, <3>1, <3>2, <3>3, <3>4, <3>5
  <2>3. ASSUME NEW p \in People,
               JoinSpace(p) \/ ConfirmJoinDepartment(p) \/ ClaimGuest(p) \/ RemoveCoRep(p) \/ Settles(p)
        PROVE  due'.status # "active"
    BY <2>0, <2>3 DEF JoinSpace, ConfirmJoinDepartment, ClaimGuest, RemoveCoRep, Settles, Due
  <2>4. CASE CooldownPasses
    BY <2>0, <2>4 DEF CooldownPasses, Due
  <2> QED BY <2>1, <2>2, <2>3, <2>4 DEF DuesNext, DueReading
<1> QED BY <1>1, DuesStart, DuesStep, PTL DEF DuesSpec, ClosedIsFinal

-----------------------------------------------------------------------------
(* Reminders: the invariant                                                *)

(* A pass that has claimed a stage, and may give it back.                   *)
Holds(x) == x.at \in {"send", "back"}

(* A claimed stage is not below what the row says, and covers the stages    *)
(* since the one it was claimed from, of which none was mailed.             *)
PassFits(x) ==
    /\ x.at # "idle" => x.from < x.due /\ x.due <= age
    /\ Holds(x) => x.due <= stage /\ \A s \in Stages : x.from < s /\ s <= x.due => mails[s] = 0

(* Two claims cover different stages.                                       *)
Disjoint(x, y) == Holds(x) /\ Holds(y) => x.due <= y.from \/ y.due <= x.from

RemindersInv ==
    /\ RemindersTypeOK
    /\ \A s \in Stages : mails[s] <= 1 /\ (mails[s] # 0 => s <= stage)
    /\ \A w \in Passes : PassFits(pass[w])
    /\ \A v, w \in Passes : v # w => Disjoint(pass[v], pass[w])

-----------------------------------------------------------------------------
(* Reminders: the steps                                                    *)

LEMMA PassFields ==
  ASSUME NEW x \in Pass
  PROVE  /\ x.at \in {"idle", "claim", "send", "back"}
         /\ x.at # "idle" => /\ x \in [at : {"claim", "send", "back"}, from : 0..3, due : Stages]
                             /\ x.from \in 0..3 /\ x.due \in 1..3
  BY DEF Pass, Stages

LEMMA PassPlaces ==
  /\ NoPass \in Pass /\ NoPass.at = "idle"
  /\ \A x \in [at : {"claim", "send", "back"}, from : 0..3, due : Stages] : x \in Pass
  BY DEF Pass, NoPass

(* Passes after a step of w, which moves to x; the others fit what is new.  *)
LEMMA PassMoves ==
  ASSUME RemindersInv, NEW w \in Passes, NEW x \in Pass, PassTo(w, x), PassFits(x)',
         \A v \in Passes \ {w} : \A y \in Pass :
            y = pass[v] /\ PassFits(y) /\ Disjoint(y, pass[w]) /\ Disjoint(pass[w], y) =>
               PassFits(y)' /\ Disjoint(x, y) /\ Disjoint(y, x)
  PROVE  /\ pass' \in [Passes -> Pass]
         /\ (\A v \in Passes : PassFits(pass[v]))'
         /\ (\A u, v \in Passes : u # v => Disjoint(pass[u], pass[v]))'
<1>1. pass \in [Passes -> Pass]
  BY DEF RemindersInv, RemindersTypeOK
<1>2. pass' \in [Passes -> Pass] /\ pass'[w] = x /\ \A v \in Passes \ {w} : pass'[v] = pass[v]
  BY <1>1 DEF PassTo
<1>3. ASSUME NEW v \in Passes \ {w} PROVE PassFits(pass[v])' /\ Disjoint(x, pass[v]) /\ Disjoint(pass[v], x)
  <2>1. PICK y \in Pass : y = pass[v]
    BY <1>1
  <2>2. PassFits(y) /\ Disjoint(y, pass[w]) /\ Disjoint(pass[w], y)
    BY <2>1 DEF RemindersInv
  <2>3. PassFits(y)' /\ Disjoint(x, y) /\ Disjoint(y, x)
    BY <2>1, <2>2
  <2>4. pass'[v] = y
    BY <1>2, <2>1
  <2> QED BY <2>1, <2>3, <2>4 DEF PassFits, Holds
<1>4. ASSUME NEW v \in Passes PROVE PassFits(pass[v])'
  <2>1. CASE v = w
    BY <1>2, <2>1 DEF PassFits, Holds
  <2> QED BY <1>3, <2>1
<1>5. ASSUME NEW u \in Passes, NEW v \in Passes, u # v PROVE Disjoint(pass[u], pass[v])'
  <2>1. CASE u = w
    BY <1>2, <1>3, <1>5, <2>1 DEF Disjoint, Holds
  <2>2. CASE v = w
    BY <1>2, <1>3, <1>5, <2>2 DEF Disjoint, Holds
  <2>3. CASE u # w /\ v # w
    BY <1>2, <1>5, <2>3 DEF Disjoint, Holds, RemindersInv
  <2> QED BY <2>1, <2>2, <2>3
<1> QED BY <1>2, <1>4, <1>5

LEMMA ReadingPass == ASSUME RemindersInv, NEW w \in Passes, SendKycRemindersOnce(w) \/ PassDies(w) PROVE RemindersInv'
<1>1. UNCHANGED <<stage, age, owes, mails>>
  BY DEF SendKycRemindersOnce, PassDies
<1>2. stage \in 0..3 /\ age \in 0..3
  BY DEF RemindersInv, RemindersTypeOK
<1>3. PICK x \in Pass : PassTo(w, x) /\ PassFits(x)' /\ ~Holds(x)
  <2>1. CASE SendKycRemindersOnce(w)
    <3> DEFINE x == [at |-> "claim", from |-> stage, due |-> DueStage(age)]
    <3>1. stage < age /\ PassTo(w, x)
      BY <2>1 DEF SendKycRemindersOnce
    <3>2. age \in Stages
      BY <1>2, <3>1 DEF Stages
    <3>3. x \in [at : {"claim", "send", "back"}, from : 0..3, due : Stages]
          /\ x.at = "claim" /\ x.from = stage /\ x.due = age
      BY <1>2, <3>2 DEF DueStage
    <3>4. x \in Pass
      BY <3>3, PassPlaces
    <3> HIDE DEF x
    <3>5. \E y \in Pass : y = x /\ y.at = "claim" /\ y.from = stage /\ y.due = age
      BY <3>3, <3>4
    <3>6. PICK n \in 0..3, m \in 0..3 : n = stage /\ m = age
      BY <1>2
    <3>7. PICK y \in Pass : y = x /\ y.at = "claim" /\ y.from = n /\ y.due = m
      BY <3>5, <3>6
    <3>8. PassFits(y)' /\ ~Holds(y)
      BY <1>1, <3>1, <3>6, <3>7 DEF PassFits, Holds
    <3> QED BY <3>1, <3>7, <3>8
  <2>2. CASE PassDies(w)
    BY <2>2, PassPlaces DEF PassDies, PassFits, Holds
  <2> QED BY <2>1, <2>2
<1>4. ASSUME NEW v \in Passes \ {w}, NEW y \in Pass, y = pass[v], PassFits(y)
      PROVE  PassFits(y)' /\ Disjoint(x, y) /\ Disjoint(y, x)
  BY <1>1, <1>3, <1>4 DEF PassFits, Disjoint
<1>5. /\ pass' \in [Passes -> Pass]
      /\ (\A v \in Passes : PassFits(pass[v]))'
      /\ (\A u, v \in Passes : u # v => Disjoint(pass[u], pass[v]))'
  BY <1>3, <1>4, PassMoves
<1> QED BY <1>1, <1>5 DEF RemindersInv, RemindersTypeOK

(* A claim covers the stages above the row's, which nobody holds and nobody *)
(* was mailed.                                                              *)
LEMMA ClaimStageKeeps == ASSUME RemindersInv, NEW w \in Passes, ClaimStage(w) PROVE RemindersInv'
<1>1. PICK c \in Pass : c = pass[w]
  BY DEF RemindersInv, RemindersTypeOK
<1>2. /\ c.at = "claim" /\ UNCHANGED <<age, owes, mails>> /\ PassFits(c)
      /\ IF stage = c.from THEN stage' = c.due /\ PassTo(w, [c EXCEPT !.at = "send"])
         ELSE UNCHANGED stage /\ PassTo(w, NoPass)
  BY <1>1 DEF ClaimStage, RemindersInv
<1>3. c \in [at : {"claim", "send", "back"}, from : 0..3, due : Stages] /\ c.from \in 0..3 /\ c.due \in 1..3
      /\ c.from < c.due /\ c.due <= age
  BY <1>2, PassFields DEF PassFits
<1>4. stage \in 0..3 /\ age \in 0..3 /\ mails \in [Stages -> 0..2]
  BY DEF RemindersInv, RemindersTypeOK
<1>5. CASE stage = c.from
  <2>1. PICK x \in Pass : PassTo(w, x) /\ x.at = "send" /\ x.from = c.from /\ x.due = c.due
    <3> DEFINE x == [c EXCEPT !.at = "send"]
    <3>1. x \in [at : {"claim", "send", "back"}, from : 0..3, due : Stages] /\ x.at = "send"
          /\ x.from = c.from /\ x.due = c.due
      BY <1>3
    <3>2. x \in Pass
      BY <3>1, PassPlaces
    <3>3. PassTo(w, x)
      BY <1>2, <1>5
    <3> HIDE DEF x
    <3> QED BY <3>1, <3>2, <3>3
  <2>2. stage' = c.due /\ stage < stage' /\ stage' \in 0..3 /\ stage' <= age
    BY <1>2, <1>3, <1>5
  <2>3. \A s \in Stages : mails[s] <= 1 /\ (mails[s] # 0 => s <= stage)
    BY DEF RemindersInv
  <2>4. PassFits(x)'
    <3>1. ASSUME NEW s \in Stages, x.from < s PROVE mails'[s] = 0
      BY <1>2, <1>3, <1>4, <1>5, <2>1, <2>3, <3>1 DEF Stages
    <3> QED BY <1>2, <1>3, <2>1, <2>2, <3>1 DEF PassFits
  <2>5. ASSUME NEW v \in Passes \ {w}, NEW y \in Pass, y = pass[v], PassFits(y)
        PROVE  PassFits(y)' /\ Disjoint(x, y) /\ Disjoint(y, x)
    <3>1. Holds(y) => y.due <= stage /\ y.due \in 1..3
      BY <2>5, PassFields DEF PassFits, Holds
    <3>2. PassFits(y)'
      BY <1>2, <1>4, <2>2, <2>5, <3>1 DEF PassFits
    <3> QED BY <1>5, <2>1, <3>1, <3>2 DEF Disjoint
  <2>6. /\ pass' \in [Passes -> Pass]
        /\ (\A v \in Passes : PassFits(pass[v]))'
        /\ (\A u, v \in Passes : u # v => Disjoint(pass[u], pass[v]))'
    BY <2>1, <2>4, <2>5, PassMoves
  <2>7. \A s \in Stages : mails'[s] <= 1 /\ (mails'[s] # 0 => s <= stage')
    BY <1>2, <1>4, <2>2, <2>3 DEF Stages
  <2>8. RemindersTypeOK'
    BY <1>2, <2>2, <2>6 DEF RemindersInv, RemindersTypeOK
  <2> QED BY <2>6, <2>7, <2>8 DEF RemindersInv
<1>6. CASE stage # c.from
  <2>1. UNCHANGED <<stage, age, owes, mails>> /\ PassTo(w, NoPass) /\ pass[w] # NoPass
    BY <1>1, <1>2, <1>6, PassPlaces
  <2> QED BY <2>1, ReadingPass DEF PassDies
<1> QED BY <1>5, <1>6

(* The mail goes out once: the stage was covered by this claim, and by no   *)
(* other.                                                                   *)
LEMMA SendMailKeeps == ASSUME RemindersInv, NEW w \in Passes, SendMail(w) PROVE RemindersInv'
<1>1. PICK c \in Pass : c = pass[w]
  BY DEF RemindersInv, RemindersTypeOK
<1>2. c.at = "send" /\ UNCHANGED <<stage, age, owes>> /\ PassFits(c) /\ Holds(c)
  BY <1>1 DEF SendMail, RemindersInv, Holds
<1>3. c \in [at : {"claim", "send", "back"}, from : 0..3, due : Stages] /\ c.from \in 0..3 /\ c.due \in Stages
      /\ c.due \in 1..3 /\ c.from < c.due /\ c.due <= stage /\ mails[c.due] = 0
  BY <1>2, PassFields DEF PassFits
<1>4. stage \in 0..3 /\ age \in 0..3 /\ mails \in [Stages -> 0..2]
  BY DEF RemindersInv, RemindersTypeOK
<1>5. CASE mails' = [mails EXCEPT ![c.due] = @ + 1] /\ PassTo(w, NoPass)
  <2>1. mails' \in [Stages -> 0..2] /\ mails'[c.due] = 1 /\ \A s \in Stages \ {c.due} : mails'[s] = mails[s]
    <3>1. mails' = [mails EXCEPT ![c.due] = 1] /\ 1 \in 0..2
      BY <1>3, <1>4, <1>5
    <3> QED BY <1>3, <1>4, <3>1
  <2>2. PassFits(NoPass)' /\ ~Holds(NoPass)
    BY PassPlaces DEF PassFits, Holds
  <2>3. ASSUME NEW v \in Passes \ {w}, NEW y \in Pass, y = pass[v], PassFits(y), Disjoint(y, pass[w])
        PROVE  PassFits(y)' /\ Disjoint(NoPass, y) /\ Disjoint(y, NoPass)
    <3>1. Holds(y) => y.due \in 1..3 /\ y.from \in 0..3 /\ (y.due <= c.from \/ c.due <= y.from)
      BY <1>1, <1>2, <2>3, PassFields DEF Disjoint, Holds
    <3>2. ASSUME Holds(y), NEW s \in Stages, y.from < s, s <= y.due PROVE mails'[s] = 0
      <4>1. s # c.due
        BY <1>3, <3>1, <3>2 DEF Stages
      <4> QED BY <2>1, <2>3, <3>2, <4>1 DEF PassFits
    <3> QED BY <1>2, <2>2, <2>3, <3>2 DEF PassFits, Disjoint
  <2>4. /\ pass' \in [Passes -> Pass]
        /\ (\A v \in Passes : PassFits(pass[v]))'
        /\ (\A u, v \in Passes : u # v => Disjoint(pass[u], pass[v]))'
    BY <1>5, <2>2, <2>3, PassPlaces, PassMoves
  <2>5. \A s \in Stages : mails'[s] <= 1 /\ (mails'[s] # 0 => s <= stage')
    BY <1>2, <1>3, <2>1 DEF RemindersInv
  <2>6. RemindersTypeOK'
    BY <1>2, <2>1, <2>4 DEF RemindersInv, RemindersTypeOK
  <2> QED BY <2>4, <2>5, <2>6 DEF RemindersInv
<1>6. CASE PassTo(w, [c EXCEPT !.at = "back"]) /\ UNCHANGED mails
  <2>1. PICK x \in Pass : PassTo(w, x) /\ x.at = "back" /\ x.from = c.from /\ x.due = c.due
    <3> DEFINE x == [c EXCEPT !.at = "back"]
    <3>1. x \in [at : {"claim", "send", "back"}, from : 0..3, due : Stages] /\ x.at = "back"
          /\ x.from = c.from /\ x.due = c.due
      BY <1>3
    <3>2. x \in Pass
      BY <3>1, PassPlaces
    <3>3. PassTo(w, x)
      BY <1>6
    <3> HIDE DEF x
    <3> QED BY <3>1, <3>2, <3>3
  <2>2. PassFits(x)'
    BY <1>2, <1>6, <2>1 DEF PassFits, Holds
  <2>3. ASSUME NEW v \in Passes \ {w}, NEW y \in Pass, y = pass[v], PassFits(y), Disjoint(y, pass[w]), Disjoint(pass[w], y)
        PROVE  PassFits(y)' /\ Disjoint(x, y) /\ Disjoint(y, x)
    BY <1>1, <1>2, <1>6, <2>1, <2>3 DEF PassFits, Disjoint
  <2>4. /\ pass' \in [Passes -> Pass]
        /\ (\A v \in Passes : PassFits(pass[v]))'
        /\ (\A u, v \in Passes : u # v => Disjoint(pass[u], pass[v]))'
    BY <2>1, <2>2, <2>3, PassMoves
  <2> QED BY <1>2, <1>6, <2>4 DEF RemindersInv, RemindersTypeOK
<1> QED BY <1>1, <1>5, <1>6 DEF SendMail

(* A stage given back uncovers nothing that was mailed.                     *)
LEMMA GiveBackKeeps == ASSUME RemindersInv, NEW w \in Passes, GiveBack(w) PROVE RemindersInv'
<1>1. PICK c \in Pass : c = pass[w]
  BY DEF RemindersInv, RemindersTypeOK
<1>2. c.at = "back" /\ UNCHANGED <<age, owes, mails>> /\ PassFits(c) /\ Holds(c)
      /\ PassTo(w, NoPass) /\ stage' = IF stage = c.due THEN c.from ELSE stage
  BY <1>1 DEF GiveBack, RemindersInv, Holds
<1>3. c.from \in 0..3 /\ c.due \in 1..3 /\ c.from < c.due /\ c.due <= stage
      /\ \A s \in Stages : c.from < s /\ s <= c.due => mails[s] = 0
  BY <1>2, PassFields DEF PassFits
<1>4. stage \in 0..3 /\ age \in 0..3 /\ mails \in [Stages -> 0..2] /\ stage <= age
  BY DEF RemindersInv, RemindersTypeOK
<1>5. stage' \in 0..3 /\ stage' <= stage /\ stage' <= age
  BY <1>2, <1>3, <1>4
<1>6. \A s \in Stages : mails'[s] <= 1 /\ (mails'[s] # 0 => s <= stage')
  <2>1. ASSUME NEW s \in Stages, mails[s] # 0 PROVE s <= stage'
    <3>1. s <= stage /\ s \in 1..3
      BY <2>1 DEF RemindersInv, Stages
    <3>2. ~(c.from < s /\ s <= c.due)
      BY <1>3, <2>1
    <3> QED BY <1>2, <1>3, <1>4, <3>1, <3>2
  <2> QED BY <1>2, <2>1 DEF RemindersInv
<1>7. PassFits(NoPass)' /\ ~Holds(NoPass)
  BY PassPlaces DEF PassFits, Holds
<1>8. ASSUME NEW v \in Passes \ {w}, NEW y \in Pass, y = pass[v], PassFits(y), Disjoint(y, pass[w])
      PROVE  PassFits(y)' /\ Disjoint(NoPass, y) /\ Disjoint(y, NoPass)
  <2>1. Holds(y) => y.due \in 1..3 /\ y.from \in 0..3 /\ (y.due <= c.from \/ c.due <= y.from) /\ y.from < y.due /\ y.due <= stage
    BY <1>1, <1>2, <1>8, PassFields DEF Disjoint, Holds, PassFits
  <2>2. Holds(y) => y.due <= stage'
    BY <1>2, <1>3, <1>4, <2>1
  <2> QED BY <1>2, <1>7, <1>8, <2>2 DEF PassFits, Disjoint
<1>9. /\ pass' \in [Passes -> Pass]
      /\ (\A v \in Passes : PassFits(pass[v]))'
      /\ (\A u, v \in Passes : u # v => Disjoint(pass[u], pass[v]))'
  BY <1>2, <1>7, <1>8, PassPlaces, PassMoves
<1>10. RemindersTypeOK'
  BY <1>2, <1>5, <1>9 DEF RemindersInv, RemindersTypeOK
<1> QED BY <1>6, <1>9, <1>10 DEF RemindersInv

LEMMA TimePasses == ASSUME RemindersInv, GrowsOlder \/ OwesAgain PROVE RemindersInv'
<1>0. UNCHANGED <<stage, pass, mails>> /\ age \in 0..3 /\ age' \in 0..3 /\ age <= age'
  BY DEF GrowsOlder, OwesAgain, RemindersInv, RemindersTypeOK
<1>b. owes' \in BOOLEAN
  <2>1. owes \in BOOLEAN
    BY DEF RemindersInv, RemindersTypeOK
  <2>2. CASE GrowsOlder
    BY <2>1, <2>2 DEF GrowsOlder
  <2>3. CASE OwesAgain
    BY <2>3 DEF OwesAgain
  <2> QED BY <2>2, <2>3
<1>1. UNCHANGED <<stage, pass, mails>> /\ age \in 0..3 /\ age' \in 0..3 /\ age <= age' /\ owes' \in BOOLEAN
  BY <1>0, <1>b
<1>2. ASSUME NEW w \in Passes PROVE PassFits(pass[w])'
  <2>1. PICK y \in Pass : y = pass[w] /\ PassFits(y)
    BY DEF RemindersInv, RemindersTypeOK
  <2>2. PassFits(y)'
    BY <1>1, <2>1, PassFields DEF PassFits
  <2> QED BY <1>1, <2>1, <2>2 DEF PassFits, Holds
<1>3. (\A u, v \in Passes : u # v => Disjoint(pass[u], pass[v]))'
  BY <1>1 DEF RemindersInv, Disjoint, Holds
<1>4. RemindersTypeOK'
  BY <1>1 DEF RemindersInv, RemindersTypeOK
<1> QED BY <1>1, <1>2, <1>3, <1>4 DEF RemindersInv

-----------------------------------------------------------------------------
(* Reminders: the theorems                                                 *)

LEMMA RemindersStart == RemindersInit => RemindersInv
  BY PassPlaces DEF RemindersInit, RemindersInv, RemindersTypeOK, PassFits, Disjoint, Holds, Stages

LEMMA RemindersStep == RemindersInv /\ [RemindersNext]_reminderVars => RemindersInv'
<1> SUFFICES ASSUME RemindersInv, [RemindersNext]_reminderVars PROVE RemindersInv'
  OBVIOUS
<1>1. CASE UNCHANGED reminderVars
  BY <1>1 DEF reminderVars, RemindersInv, RemindersTypeOK, PassFits, Disjoint, Holds
<1> QED BY <1>1, ReadingPass, ClaimStageKeeps, SendMailKeeps, GiveBackKeeps, TimePasses DEF RemindersNext

(* No stage's mail goes out twice, with any number of passes in any number  *)
(* of processes (kycReminders.ts).                                          *)
THEOREM RemindedAtMostOnce == RemindersSpec => []RemindedOnce
<1>1. RemindersInv => RemindedOnce
  BY DEF RemindersInv, RemindedOnce
<1> QED BY <1>1, RemindersStart, RemindersStep, PTL DEF RemindersSpec

-----------------------------------------------------------------------------
(* What a student meets                                                    *)

(* Side by side, each part behaves as it does on its own.                   *)
LEMMA MembersParts ==
  /\ MembersInit => SessionsInit /\ DuesInit /\ RemindersInit
  /\ [MembersNext]_membersVars => [SessionsNext]_sessionVars /\ [DuesNext]_duesVars /\ [RemindersNext]_reminderVars
  BY DEF MembersInit, MembersNext, membersVars

(* Every row and call of the three parts stays what the code can write.     *)
THEOREM MembersTypeCorrect == MembersSpec => []MembersTypeOK
<1>1. SessionsInv => SessionsTypeOK
  BY DEF SessionsInv
<1>2. DuesInv => DuesTypeOK
  BY DEF DuesInv, DueTables, ClerksInv, DuesTypeOK
<1>3. RemindersInv => RemindersTypeOK
  BY DEF RemindersInv
<1>4. MembersInit => SessionsInv /\ DuesInv /\ RemindersInv
  BY MembersParts, SessionsStart, DuesStart, RemindersStart
<1>5. SessionsInv /\ DuesInv /\ RemindersInv /\ [MembersNext]_membersVars => (SessionsInv /\ DuesInv /\ RemindersInv)'
  BY MembersParts, SessionsStep, DuesStep, RemindersStep
<1>6. SessionsInv /\ DuesInv /\ RemindersInv => MembersTypeOK
  BY <1>1, <1>2, <1>3 DEF MembersTypeOK
<1> QED BY <1>4, <1>5, <1>6, PTL DEF MembersSpec
=============================================================================
