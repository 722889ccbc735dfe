---------------------------- MODULE RepsProofs ----------------------------
(***************************************************************************)
(* Proofs about what a rep meets, part by part: Idempotency, Disputes,     *)
(* Beneficiaries, Partners, Voting and Onboarding, each for any number of  *)
(* handlers and of the things it is about; and of MCReps, which puts the   *)
(* parts side by side.  Those about Money are in MoneyProofs.              *)
(*                                                                         *)
(* Each part has an inductive invariant of its own, stated before its      *)
(* lemmas: what a handler between two of its steps may still rely on, of   *)
(* what it has read.                                                       *)
(***************************************************************************)
EXTENDS MCReps, FiniteSetTheorems, TLAPS

-----------------------------------------------------------------------------
(* Idempotency keys                                                        *)
(*                                                                         *)
(* None of the properties is inductive.  What carries them is who may      *)
(* still touch the key: a request that runs with its client there, or that *)
(* has an update or deletion under way.  Until the key expires there is at *)
(* most one such request and the key is its own (Held); as long as no      *)
(* client goes away, whoever runs, or took effect without an error after   *)
(* it, left the key in place (Sole).                                       *)

(* Those who may still write or delete the key.                             *)
Active == {r \in Requests : (request[r] = "run" /\ r \notin closed) \/ late[r] # "none"}

(* IdempotencyTypeOK, with what answer holds spelt out.                     *)
Typed ==
    /\ key \in Key
    /\ body \in [Requests -> Bodies]
    /\ request \in [Requests -> RequestAt]
    /\ late \in [Requests -> {"none", "store", "release"}]
    /\ closed \subseteq Requests /\ effects \subseteq Requests /\ errored \subseteq effects
    /\ answer \in [Requests -> SUBSET Requests]
    /\ expired \in BOOLEAN

(* A stored response, or one about to be stored, is that of a request that  *)
(* took effect and said so; a replay is of one response; and the effect is  *)
(* the end.                                                                 *)
Earned ==
    /\ \A r \in effects : request[r] = "done"
    /\ \A r \in Requests : late[r] = "store" => r \in effects \ errored
    /\ key.exists /\ key.status = 200 => key.by \in effects \ errored
    /\ \A r \in Requests : answer[r] = {} \/ \E s \in effects \ errored : answer[r] = {s}

(* Whoever has an update under way has answered, or lost its client.        *)
Late ==
    \A r \in Requests :
        late[r] # "none" => request[r] = "done" \/ (request[r] = "run" /\ r \in closed)

(* Within the 24 hours: nobody saw an expired key, the one active request   *)
(* holds the key, and a stored response is under its own fingerprint.       *)
Held ==
    ~expired =>
        /\ key.exists => ~key.expired
        /\ \A r \in Requests : request[r] # "clear"
        /\ \A r, s \in Active : r = s
        /\ \A r \in Active : key.exists /\ key.status = 0 /\ key.hash = body[r]
        /\ key.exists /\ key.status = 200 => key.hash = body[key.by]
        /\ \A r \in Requests : \A s \in answer[r] : body[s] = body[r]

(* ... and while every client stays: one request runs, or took effect and   *)
(* said so or died; it left the key in place, and no release is under way.  *)
Sole ==
    ~expired /\ closed = {} =>
        /\ \A r, s \in Running \cup (effects \ errored) : r = s
        /\ Running \cup (effects \ errored) # {} => key.exists
        /\ \A r \in Requests : late[r] = "release" => Running \cup (effects \ errored) = {}

IdempotencyInv == Typed /\ Earned /\ Late /\ Held /\ Sole

-----------------------------------------------------------------------------
(* It holds before the first request.                                       *)
LEMMA InitHolds == IdempotencyInit => IdempotencyInv
<1> SUFFICES ASSUME IdempotencyInit PROVE IdempotencyInv
  OBVIOUS
<1> USE DEF IdempotencyInit
<1>1. Typed
  BY DEF Typed, NoKey, Key, RequestAt
<1>2. ~key.exists
  BY DEF NoKey
<1>3. Earned
  BY <1>2 DEF Earned
<1>4. Active = {} /\ Running = {}
  BY DEF Active, Running
<1>5. Held
  BY <1>2, <1>4 DEF Held
<1>6. Sole
  BY <1>4 DEF Sole
<1>7. Late
  BY DEF Late
<1> QED BY <1>1, <1>3, <1>5, <1>6, <1>7 DEF IdempotencyInv

(* A row in progress is a key.                                              *)
LEMMA ClaimedKey ==
  ASSUME NEW b \in Bodies PROVE [exists |-> TRUE, hash |-> b, status |-> 0, expired |-> FALSE] \in Key
  BY DEF Key

(* A row with a stored response is a key.                                   *)
LEMMA StoredKey ==
  ASSUME NEW b \in Bodies, NEW r \in Requests, NEW e \in BOOLEAN
  PROVE  [exists |-> TRUE, hash |-> b, status |-> 200, expired |-> e, by |-> r] \in Key
  BY DEF Key

(* What a row that exists holds.                                            *)
LEMMA KeyFields ==
  ASSUME key \in Key
  PROVE  /\ key.exists => key.hash \in Bodies /\ key.expired \in BOOLEAN /\ key.status \in {0, 200}
         /\ key.exists /\ key.status = 200 => key.by \in Requests
<1>1. CASE key \in [exists : {FALSE}]
  BY <1>1
<1>2. CASE key \in [exists : {TRUE}, hash : Bodies, status : {0}, expired : BOOLEAN]
  BY <1>2
<1>3. CASE key \in [exists : {TRUE}, hash : Bodies, status : {200}, expired : BOOLEAN, by : Requests]
  BY <1>3
<1> QED BY <1>1, <1>2, <1>3 DEF Key

(* A claim keeps the types, whether or not it inserts.                      *)
LEMMA ClaimTyped ==
  ASSUME Typed, NEW r \in Requests, NEW place \in RequestAt, Claim(r, place)
  PROVE  key' \in Key /\ request' \in [Requests -> RequestAt]
<1>1. body[r] \in Bodies
  BY DEF Typed
<1>2. key' \in Key
  BY <1>1, ClaimedKey DEF Claim, Typed
<1>3. request' \in [Requests -> RequestAt]
  BY DEF Claim, To, Typed, RequestAt
<1> QED BY <1>2, <1>3

(* Typed: every action keeps the types; a replay needs that the stored      *)
(* response is somebody's.                                                  *)
LEMMA TypedStep == Typed /\ Earned /\ [IdempotencyNext]_idempotencyVars => Typed'
<1> SUFFICES ASSUME Typed, Earned, [IdempotencyNext]_idempotencyVars PROVE Typed'
  OBVIOUS
<1> USE DEF Typed, To, RequestAt
<1>1. CASE UNCHANGED idempotencyVars
  BY <1>1 DEF idempotencyVars
<1>2. CASE Expire
  BY <1>2, ZenonT(60) DEF Expire, Key
<1>3. ASSUME NEW r \in Requests PROVE Arrive(r) => Typed'
  BY ClaimTyped DEF Arrive
<1>4. ASSUME NEW r \in Requests PROVE Look(r) => Typed'
  BY KeyFields DEF Look, Replays
<1>5. ASSUME NEW r \in Requests PROVE Clear(r) => Typed'
  BY DEF Clear, Key, NoKey
<1>6. ASSUME NEW r \in Requests PROVE ClaimAgain(r) => Typed'
  BY ClaimTyped DEF ClaimAgain
<1>7. ASSUME NEW r \in Requests PROVE Succeed(r) => Typed'
  BY DEF Succeed
<1>8. ASSUME NEW r \in Requests PROVE Refuse(r) => Typed'
  BY DEF Refuse, ErrorAfter
<1>9. ASSUME NEW r \in Requests PROVE Disconnect(r) => Typed'
  BY DEF Disconnect
<1>10. ASSUME NEW r \in Requests PROVE Die(r) => Typed'
  BY DEF Die
<1>11. ASSUME NEW r \in Requests PROVE StoreResponse(r) => Typed'
  BY KeyFields, StoredKey DEF StoreResponse
<1>12. ASSUME NEW r \in Requests PROVE Release(r) => Typed'
  <2>1. NoKey \in Key
    BY DEF NoKey, Key
  <2> QED BY <2>1 DEF Release
<1> QED BY <1>1, <1>2, <1>3, <1>4, <1>5, <1>6, <1>7, <1>8, <1>9, <1>10, <1>11, <1>12 DEF IdempotencyNext

(* Earned: only a handler that took effect has its response stored.         *)
LEMMA EarnedStep == Typed /\ Earned /\ [IdempotencyNext]_idempotencyVars => Earned'
<1> SUFFICES ASSUME Typed, Earned, [IdempotencyNext]_idempotencyVars PROVE Earned'
  OBVIOUS
<1> USE DEF Typed, Earned, To
<1>1. CASE UNCHANGED idempotencyVars
  BY <1>1 DEF idempotencyVars
<1>2. CASE Expire
  BY <1>2 DEF Expire
<1>3. ASSUME NEW r \in Requests PROVE Arrive(r) => Earned'
  BY DEF Arrive, Claim
<1>4. ASSUME NEW r \in Requests PROVE Look(r) => Earned'
  <2> SUFFICES ASSUME Look(r) PROVE Earned'
    OBVIOUS
  <2>1. answer' = answer \/ (key.exists /\ Replays(r) /\ answer' = [answer EXCEPT ![r] = {key.by}])
    BY DEF Look
  <2>2. Replays(r) /\ key.exists => key.by \in effects \ errored
    BY KeyFields DEF Replays
  <2>3. UNCHANGED <<key, late, effects, errored>>
    BY DEF Look
  <2>4. \A q \in effects : request'[q] = "done"
    BY DEF Look
  <2> QED BY <2>1, <2>2, <2>3, <2>4
<1>5. ASSUME NEW r \in Requests PROVE Clear(r) => Earned'
  BY DEF Clear, NoKey
<1>6. ASSUME NEW r \in Requests PROVE ClaimAgain(r) => Earned'
  BY DEF ClaimAgain, Claim
<1>7. ASSUME NEW r \in Requests PROVE Succeed(r) => Earned'
  BY DEF Succeed
<1>8. ASSUME NEW r \in Requests PROVE Refuse(r) => Earned'
  BY DEF Refuse, ErrorAfter
<1>9. ASSUME NEW r \in Requests PROVE Disconnect(r) => Earned'
  BY DEF Disconnect
<1>10. ASSUME NEW r \in Requests PROVE Die(r) => Earned'
  BY DEF Die
<1>11. ASSUME NEW r \in Requests PROVE StoreResponse(r) => Earned'
  BY DEF StoreResponse
<1>12. ASSUME NEW r \in Requests PROVE Release(r) => Earned'
  BY DEF Release, NoKey
<1> QED BY <1>1, <1>2, <1>3, <1>4, <1>5, <1>6, <1>7, <1>8, <1>9, <1>10, <1>11, <1>12 DEF IdempotencyNext

(* Late: updates are sent off when a request is answered or loses its client. *)
LEMMA LateStep == Typed /\ Late /\ [IdempotencyNext]_idempotencyVars => Late'
<1> SUFFICES ASSUME Typed, Late, [IdempotencyNext]_idempotencyVars PROVE Late'
  OBVIOUS
<1> USE DEF Typed, Late, To
<1>1. CASE UNCHANGED idempotencyVars
  BY <1>1 DEF idempotencyVars
<1>2. CASE Expire
  BY <1>2 DEF Expire
<1>3. ASSUME NEW r \in Requests PROVE Arrive(r) => Late'
  BY DEF Arrive, Claim
<1>4. ASSUME NEW r \in Requests PROVE Look(r) => Late'
  BY DEF Look
<1>5. ASSUME NEW r \in Requests PROVE Clear(r) => Late'
  BY DEF Clear
<1>6. ASSUME NEW r \in Requests PROVE ClaimAgain(r) => Late'
  BY DEF ClaimAgain, Claim
<1>7. ASSUME NEW r \in Requests PROVE Succeed(r) => Late'
  BY DEF Succeed
<1>8. ASSUME NEW r \in Requests PROVE Refuse(r) => Late'
  BY DEF Refuse, ErrorAfter
<1>9. ASSUME NEW r \in Requests PROVE Disconnect(r) => Late'
  BY DEF Disconnect
<1>10. ASSUME NEW r \in Requests PROVE Die(r) => Late'
  BY DEF Die
<1>11. ASSUME NEW r \in Requests PROVE StoreResponse(r) => Late'
  BY DEF StoreResponse
<1>12. ASSUME NEW r \in Requests PROVE Release(r) => Late'
  BY DEF Release
<1> QED BY <1>1, <1>2, <1>3, <1>4, <1>5, <1>6, <1>7, <1>8, <1>9, <1>10, <1>11, <1>12 DEF IdempotencyNext

(* Held: an active request acts on its own key; whoever is not active does  *)
(* not touch it.                                                            *)
LEMMA HeldStep == Typed /\ Earned /\ Late /\ Held /\ [IdempotencyNext]_idempotencyVars => Held'
<1> SUFFICES ASSUME Typed, Earned, Late, Held, [IdempotencyNext]_idempotencyVars, ~expired' PROVE Held'
  BY DEF Held
<1>0. ~expired
  BY DEF idempotencyVars, IdempotencyNext, Expire, Arrive, Look, Clear, ClaimAgain, Succeed, Refuse,
         Disconnect, Die, StoreResponse, Release, Typed
<1> USE <1>0 DEF Typed, Held, To, Active
<1>1. CASE UNCHANGED idempotencyVars
  BY <1>1 DEF idempotencyVars
<1>2. CASE Expire
  BY <1>2 DEF Expire
<1>3. ASSUME NEW r \in Requests PROVE Arrive(r) => Held'
  BY DEF Arrive, Claim
<1>4. ASSUME NEW r \in Requests PROVE Look(r) => Held'
  <2> SUFFICES ASSUME Look(r) PROVE Held'
    OBVIOUS
  <2>1. UNCHANGED <<key, body, late, closed, effects, errored, expired>>
    BY DEF Look
  <2>2. request' = [request EXCEPT ![r] = "again"] \/ request' = [request EXCEPT ![r] = "done"]
    BY DEF Look
  <2>3. Active' = Active /\ \A q \in Requests : request'[q] # "clear"
    BY <2>1, <2>2 DEF Look
  <2>4. answer' = answer \/ (key.exists /\ Replays(r) /\ answer' = [answer EXCEPT ![r] = {key.by}])
    BY DEF Look
  <2>5. Replays(r) /\ key.exists => body[key.by] = body[r]
    BY KeyFields DEF Replays
  <2>6. \A q \in Requests : \A s \in answer'[q] : body[s] = body[q]
    BY <2>4, <2>5
  <2> QED BY <2>1, <2>3, <2>6
<1>5. ASSUME NEW r \in Requests PROVE Clear(r) => Held'
  BY DEF Clear
<1>6. ASSUME NEW r \in Requests PROVE ClaimAgain(r) => Held'
  BY DEF ClaimAgain, Claim
<1>7. ASSUME NEW r \in Requests PROVE Succeed(r) => Held'
  BY DEF Succeed
<1>8. ASSUME NEW r \in Requests PROVE Refuse(r) => Held'
  BY DEF Refuse, ErrorAfter
<1>9. ASSUME NEW r \in Requests PROVE Disconnect(r) => Held'
  BY DEF Disconnect
<1>10. ASSUME NEW r \in Requests PROVE Die(r) => Held'
  BY DEF Die
<1>11. ASSUME NEW r \in Requests PROVE StoreResponse(r) => Held'
  <2> SUFFICES ASSUME StoreResponse(r) PROVE Held'
    OBVIOUS
  <2> DEFINE answered == [exists |-> TRUE, hash |-> key.hash, status |-> 200, expired |-> key.expired, by |-> r]
  <2>1. UNCHANGED <<body, request, closed, effects, errored, answer, expired>> /\ late' = [late EXCEPT ![r] = "none"]
    BY DEF StoreResponse
  <2>2. r \in Active /\ key.exists /\ key.status = 0 /\ key.hash = body[r] /\ ~key.expired
    BY DEF StoreResponse
  <2>3. key' = key \/ key' = answered
    BY <2>2 DEF StoreResponse
  <2>4. Active' \subseteq {r} /\ (Active' # {} => request[r] = "run" /\ r \notin closed)
    BY <2>1, <2>2
  <2>5. ~(request[r] = "run" /\ r \notin closed)
    BY DEF StoreResponse, Late
  <2>6. Active' = {}
    BY <2>4, <2>5
  <2>7. CASE key' = key
    BY <2>1, <2>2, <2>6, <2>7
  <2>8. CASE key' = answered
    <3>1. key'.hash = body'[key'.by] /\ ~key'.expired
      BY <2>1, <2>2, <2>8
    <3> QED BY <2>1, <2>6, <3>1
  <2> QED BY <2>3, <2>7, <2>8
<1>12. ASSUME NEW r \in Requests PROVE Release(r) => Held'
  <2> SUFFICES ASSUME Release(r) PROVE Held'
    OBVIOUS
  <2>1. UNCHANGED <<body, request, closed, effects, errored, answer, expired>> /\ late' = [late EXCEPT ![r] = "none"]
    BY DEF Release
  <2>2. r \in Active /\ key.exists /\ key.status = 0 /\ key.hash = body[r] /\ ~key.expired
    BY DEF Release
  <2>3. key' = key \/ ~key'.exists
    BY DEF Release, NoKey
  <2>4. Active' \subseteq {r} /\ (Active' # {} => request[r] = "run" /\ r \notin closed)
    BY <2>1, <2>2
  <2>5. ~(request[r] = "run" /\ r \notin closed)
    BY DEF Release, Late
  <2>6. Active' = {}
    BY <2>4, <2>5
  <2> QED BY <2>1, <2>2, <2>3, <2>6
<1> QED BY <1>1, <1>2, <1>3, <1>4, <1>5, <1>6, <1>7, <1>8, <1>9, <1>10, <1>11, <1>12 DEF IdempotencyNext

(* Sole: a claim succeeds only when nobody is active, ran or took effect;   *)
(* the key goes only when it was refused.                                   *)
LEMMA SoleStep ==
  Typed /\ Earned /\ Late /\ Held /\ Sole /\ [IdempotencyNext]_idempotencyVars => Sole'
<1> SUFFICES ASSUME Typed, Earned, Late, Held, Sole, [IdempotencyNext]_idempotencyVars,
                    ~expired', closed' = {}
             PROVE  Sole'
  BY DEF Sole
<1>0. ~expired /\ closed = {}
  BY DEF idempotencyVars, IdempotencyNext, Expire, Arrive, Look, Clear, ClaimAgain, Succeed, Refuse,
         Disconnect, Die, StoreResponse, Release, Typed
<1> USE <1>0 DEF Typed, Earned, Sole, To, Running
<1>1. CASE UNCHANGED idempotencyVars
  BY <1>1 DEF idempotencyVars
<1>2. CASE Expire
  BY <1>2 DEF Expire
<1>c. ASSUME NEW r \in Requests, NEW place \in {"look", "done"}, request[r] # "run", Claim(r, place),
             UNCHANGED <<late, effects, errored>>
      PROVE  Sole'
  <2>1. CASE key.exists
    BY <1>c, <2>1 DEF Claim
  <2>2. CASE ~key.exists
    <3>1. Running \cup (effects \ errored) = {} /\ \A q \in Requests : late[q] = "none"
      BY <2>2 DEF Held, Active
    <3>2. Running' = {r} /\ key'.exists
      BY <1>c, <2>2, <3>1 DEF Claim
    <3> QED BY <1>c, <3>1, <3>2
  <2> QED BY <2>1, <2>2
<1>3. ASSUME NEW r \in Requests PROVE Arrive(r) => Sole'
  BY <1>c DEF Arrive
<1>4. ASSUME NEW r \in Requests PROVE Look(r) => Sole'
  BY DEF Look
<1>5. ASSUME NEW r \in Requests PROVE Clear(r) => Sole'
  BY DEF Clear, Held
<1>6. ASSUME NEW r \in Requests PROVE ClaimAgain(r) => Sole'
  BY <1>c DEF ClaimAgain
<1>7. ASSUME NEW r \in Requests PROVE Succeed(r) => Sole'
  BY DEF Succeed
<1>8. ASSUME NEW r \in Requests PROVE Refuse(r) => Sole'
  BY DEF Refuse, ErrorAfter
<1>9. ASSUME NEW r \in Requests PROVE Disconnect(r) => Sole'
  BY DEF Disconnect
<1>10. ASSUME NEW r \in Requests PROVE Die(r) => Sole'
  BY DEF Die
<1>11. ASSUME NEW r \in Requests PROVE StoreResponse(r) => Sole'
  BY DEF StoreResponse
<1>12. ASSUME NEW r \in Requests PROVE Release(r) => Sole'
  BY DEF Release
<1> QED BY <1>1, <1>2, <1>3, <1>4, <1>5, <1>6, <1>7, <1>8, <1>9, <1>10, <1>11, <1>12 DEF IdempotencyNext

-----------------------------------------------------------------------------
(* The five parts together.                                                 *)
LEMMA InvHolds == IdempotencySpec => []IdempotencyInv
<1>1. IdempotencyInv /\ [IdempotencyNext]_idempotencyVars => IdempotencyInv'
  BY TypedStep, EarnedStep, LateStep, HeldStep, SoleStep DEF IdempotencyInv
<1> QED BY InitHolds, <1>1, PTL DEF IdempotencySpec

(* A set whose members are all the same has at most one.                    *)
LEMMA AtMostOne ==
  ASSUME NEW S, \A x, y \in S : x = y
  PROVE  Cardinality(S) <= 1
<1>1. CASE S = {}
  BY <1>1, FS_EmptySet
<1>2. CASE S # {}
  <2>1. PICK x : S = {x}
    BY <1>2
  <2>2. Cardinality(S) = 1
    BY <2>1, FS_Singleton
  <2> QED BY <2>2
<1> QED BY <1>1, <1>2

(* The types hold for any number of requests; the row holds a response only *)
(* of a request that took effect, and a replay is of one response.          *)
THEOREM IdempotencyTypeCorrect == IdempotencySpec => []IdempotencyTypeOK
<1>1. IdempotencyInv => IdempotencyTypeOK
  <2> SUFFICES ASSUME IdempotencyInv PROVE IdempotencyTypeOK
    OBVIOUS
  <2>1. ASSUME NEW r \in Requests PROVE answer[r] \in SUBSET (effects \ errored) /\ Cardinality(answer[r]) <= 1
    <3>1. answer[r] = {} \/ \E s \in effects \ errored : answer[r] = {s}
      BY DEF IdempotencyInv, Earned
    <3>2. answer[r] \subseteq effects \ errored /\ \A x, y \in answer[r] : x = y
      BY <3>1
    <3> QED BY <3>2, AtMostOne
  <2> QED BY <2>1 DEF IdempotencyInv, Typed, IdempotencyTypeOK
<1> QED BY InvHolds, <1>1, PTL

(* However many retries a client sends, and whatever is refused, lost or    *)
(* crashes: no request runs, and none takes effect, after one that took     *)
(* effect and did not answer with an error, until the key expires or a      *)
(* connection closes early.  One that took effect and then failed releases  *)
(* the key, and its retry may take effect again.                            *)
THEOREM OneEffect == IdempotencySpec => []OneEffectPerKey
<1>1. IdempotencyInv => OneEffectPerKey
  <2> SUFFICES ASSUME IdempotencyInv, ~expired, closed = {} PROVE Cardinality(Running \cup (effects \ errored)) <= 1
    BY DEF OneEffectPerKey
  <2>1. \A x, y \in Running \cup (effects \ errored) : x = y
    BY DEF IdempotencyInv, Sole
  <2> QED BY <2>1, AtMostOne
<1> QED BY InvHolds, <1>1, PTL

(* A replayed response is that of the same request, for 24 hours, even when *)
(* connections close early.                                                 *)
THEOREM ReplaySafe == IdempotencySpec => []ReplayIsOfSameRequest
<1>1. IdempotencyInv => ReplayIsOfSameRequest
  BY DEF IdempotencyInv, Held, ReplayIsOfSameRequest
<1> QED BY InvHolds, <1>1, PTL

-----------------------------------------------------------------------------
(* Disputes                                                                *)

(* Unless a claim was overtaken, a decision is the end of the dispute, and  *)
(* nobody is about to claim it.                                             *)
DisputesInv ==
    /\ DisputesTypeOK
    /\ ~stale /\ dispute.resolution # "none" =>
          dispute.status = "resolved" /\ \A a \in Admins : acall[a].at # "claim"

LEMMA AdminPlaces ==
  /\ AtEase \in AdminCall
  /\ [at |-> "claim"] \in AdminCall
  /\ \A r \in Decisions : [at |-> "resolve", resolution |-> r] \in AdminCall
  BY DEF AdminCall, AtEase

LEMMA AdminFields ==
  \A c \in AdminCall :
      /\ c.at \in {"idle", "claim", "resolve"}
      /\ c.at = "resolve" => c.resolution \in Decisions
  BY DEF AdminCall

(* The steps of one admin.                                                  *)
LEMMA AdminStep ==
  ASSUME DisputesInv, NEW a \in Admins,
         ClaimDispute(a) \/ WriteClaim(a) \/ ResolveDispute(a) \/ WriteResolution(a) \/ AdminInterrupt(a)
  PROVE  DisputesInv'
<1> USE AdminPlaces, AdminFields
<1>1. /\ dispute \in Dispute /\ stale \in BOOLEAN /\ acall \in [Admins -> AdminCall]
      /\ dispute.status = "under_review" => dispute.claimedById \in Admins
      /\ ~stale /\ dispute.resolution # "none" =>
            dispute.status = "resolved" /\ \A b \in Admins : acall[b].at # "claim"
  BY DEF DisputesInv, DisputesTypeOK
<1>2. CASE ClaimDispute(a)
  BY <1>1, <1>2 DEF ClaimDispute, AdminTo, DisputesInv, DisputesTypeOK, AtEase
<1>3. CASE WriteClaim(a)
  BY <1>1, <1>3 DEF WriteClaim, AdminTo, DisputesInv, DisputesTypeOK, AtEase, Dispute
<1>4. CASE ResolveDispute(a)
  BY <1>1, <1>4 DEF ResolveDispute, AdminTo, DisputesInv, DisputesTypeOK, AtEase
<1>5. CASE WriteResolution(a)
  <2>1. CASE dispute.status = "resolved"
    BY <1>1, <1>5, <2>1 DEF WriteResolution, AdminTo, DisputesInv, DisputesTypeOK, AtEase
  <2>2. CASE dispute.status # "resolved"
    <3>1. Resolved(a) /\ AdminTo(a, AtEase) /\ acall[a].at = "resolve"
      BY <1>5, <2>2 DEF WriteResolution
    <3>2. acall[a].resolution \in Decisions
      BY <1>1, <3>1
    <3>3. dispute' \in Dispute /\ dispute'.status = "resolved" /\ stale' \in BOOLEAN
      BY <1>1, <3>1, <3>2 DEF Resolved, Dispute
    <3>4. acall' \in [Admins -> AdminCall] /\ \A b \in Admins : acall'[b].at = "claim" => acall[b].at = "claim"
      BY <1>1, <3>1 DEF AdminTo, AtEase
    <3>5. ~stale' => \A b \in Admins : acall[b].at # "claim"
      BY <3>1 DEF Resolved
    <3> QED BY <3>3, <3>4, <3>5 DEF DisputesInv, DisputesTypeOK
  <2> QED BY <2>1, <2>2
<1>6. CASE AdminInterrupt(a)
  BY <1>1, <1>6 DEF AdminInterrupt, AdminTo, DisputesInv, DisputesTypeOK, AtEase
<1> QED BY <1>2, <1>3, <1>4, <1>5, <1>6

LEMMA DisputesStart == DisputesInit => DisputesInv
<1> SUFFICES ASSUME DisputesInit PROVE DisputesInv
  OBVIOUS
<1>1. dispute \in Dispute /\ dispute.status = "none" /\ dispute.resolution = "none"
  BY DEF DisputesInit, Dispute
<1>2. acall \in [Admins -> AdminCall]
  BY AdminPlaces DEF DisputesInit
<1>3. stale \in BOOLEAN
  BY DEF DisputesInit
<1> QED BY <1>1, <1>2, <1>3 DEF DisputesInv, DisputesTypeOK

LEMMA DisputesStep == DisputesInv /\ [DisputesNext]_disputeVars => DisputesInv'
<1> SUFFICES ASSUME DisputesInv, [DisputesNext]_disputeVars PROVE DisputesInv'
  OBVIOUS
<1>1. CASE FileDispute
  BY <1>1 DEF FileDispute, DisputesInv, DisputesTypeOK, Dispute
<1>2. CASE UNCHANGED disputeVars
  BY <1>2 DEF disputeVars, DisputesInv, DisputesTypeOK
<1> QED BY <1>1, <1>2, AdminStep DEF DisputesNext

(* A decision a claim has not overtaken is not replaced by any step.        *)
LEMMA DecisionStands ==
  ASSUME DisputesInv, [DisputesNext]_disputeVars, dispute.resolution # "none"
  PROVE  stale \/ dispute'.resolution = dispute.resolution
<1>1. dispute \in Dispute /\ (~stale => dispute.status = "resolved" /\ \A b \in Admins : acall[b].at # "claim")
  BY DEF DisputesInv, DisputesTypeOK
<1>2. CASE FileDispute
  BY <1>1, <1>2 DEF FileDispute, Dispute
<1>3. ASSUME NEW a \in Admins, WriteClaim(a) PROVE dispute'.resolution = dispute.resolution
  BY <1>1, <1>3 DEF WriteClaim, Dispute
<1>4. ASSUME NEW a \in Admins, WriteResolution(a) PROVE stale \/ dispute' = dispute
  BY <1>1, <1>4 DEF WriteResolution
<1> QED BY <1>2, <1>3, <1>4 DEF DisputesNext, disputeVars, ClaimDispute, ResolveDispute, AdminInterrupt

(* "two admins can't both resolve the same dispute" (routes/admin.ts): for  *)
(* any number of admins.                                                    *)
THEOREM DecisionIsKept == DisputesSpec => DecidedOnce
<1>1. DisputesInv /\ [DisputesNext]_disputeVars
      => [dispute.resolution # "none" => stale \/ dispute'.resolution = dispute.resolution]_disputeVars
  BY DecisionStands
<1> QED BY <1>1, DisputesStart, DisputesStep, PTL DEF DisputesSpec, DecidedOnce

-----------------------------------------------------------------------------
(* Beneficiaries                                                           *)

(* A row that has a destination has its own bank account's, on the account  *)
(* the row names.                                                           *)
BookInv ==
    \A i \in Saved : book[i].bachsDestinationId # None =>
        book[i].bachsDestinationId = <<book[i].bachsAccountId, book[i].bank>>

(* A request that registers a row again has the row's bank account, if the  *)
(* row is still there, and an id once given out is not given out again; one *)
(* that creates a withdrawal has a destination of the account that pays.    *)
CashierFits(c) ==
    /\ c.at = "redirect" =>
          book[c.id] # Blank("unused") /\ (c.id \in Saved => book[c.id].bank = c.bank)
    /\ c.at = "create" => c.target.destinationId = <<c.target.providerAccountId, c.target.bank>>

BeneficiariesInv ==
    /\ BeneficiariesTypeOK
    /\ AccountsAreRight
    /\ BookInv
    /\ \A h \in Cashiers : CashierFits(bcall[h])

(* A row in use is not taken for a new one, and keeps its bank account.     *)
BookKept ==
    \A i \in Entries : book[i] # Blank("unused") =>
        book'[i] # Blank("unused") /\ (i \in Saved' => i \in Saved /\ book'[i].bank = book[i].bank)

LEMMA BlankIsApart ==
  /\ Blank("unused") \notin Entry /\ Blank("removed") \notin Entry /\ Blank("none") \notin Target
  /\ Blank("unused") # Blank("removed")
<1>1. \A e \in Entry : DOMAIN e = {"bank", "bachsDestinationId", "bachsAccountId"}
  BY DEF Entry
<1>2. \A t \in Target : DOMAIN t = {"beneficiaryId", "bank", "destinationId", "providerAccountId"}
  BY DEF Target
<1>3. \A x : DOMAIN Blank(x) = {"state"} /\ Blank(x).state = x
  BY DEF Blank
<1> QED BY <1>1, <1>2, <1>3

LEMMA CashierPlaces ==
  /\ Closed \in CashierCall
  /\ \A b \in Banks, a \in Leads :
        /\ [at |-> "register", bank |-> b, on |-> a] \in CashierCall
        /\ [at |-> "insert", bank |-> b, on |-> a] \in CashierCall
  /\ \A i \in Entries : [at |-> "delete", id |-> i] \in CashierCall
  /\ \A i \in Entries, b \in Banks, a \in Leads : [at |-> "redirect", id |-> i, bank |-> b, on |-> a] \in CashierCall
  /\ \A i \in Entries \cup {None}, b \in Banks, d \in Destinations, a \in Leads : Towards(i, b, d, a) \in CashierCall
<1>1. Closed \in CashierCall
  BY DEF Closed, CashierCall
<1>2. ASSUME NEW b \in Banks, NEW a \in Leads
      PROVE  /\ [at |-> "register", bank |-> b, on |-> a] \in CashierCall
             /\ [at |-> "insert", bank |-> b, on |-> a] \in CashierCall
  BY DEF CashierCall
<1>3. ASSUME NEW i \in Entries PROVE [at |-> "delete", id |-> i] \in CashierCall
  BY DEF CashierCall
<1>4. ASSUME NEW i \in Entries, NEW b \in Banks, NEW a \in Leads
      PROVE  [at |-> "redirect", id |-> i, bank |-> b, on |-> a] \in CashierCall
  BY DEF CashierCall
<1>5. ASSUME NEW i \in Entries \cup {None}, NEW b \in Banks, NEW d \in Destinations, NEW a \in Leads
      PROVE  Towards(i, b, d, a) \in CashierCall
  <2>1. [beneficiaryId |-> i, bank |-> b, destinationId |-> d, providerAccountId |-> a] \in Target
    BY DEF Target
  <2> QED BY <2>1 DEF Towards, CashierCall
<1> QED BY <1>1, <1>2, <1>3, <1>4, <1>5

LEMMA CashierFields ==
  \A c \in CashierCall :
      /\ c.at \in {"idle", "register", "insert", "delete", "redirect", "create"}
      /\ c.at \in {"register", "insert"} => c.bank \in Banks /\ c.on \in Leads
      /\ c.at = "delete" => c.id \in Entries
      /\ c.at = "redirect" => c.id \in Entries /\ c.bank \in Banks /\ c.on \in Leads
      /\ c.at = "create" => c.target \in Target
  BY DEF CashierCall

(* Only these handlers have anything to keep to.                            *)
LEMMA FitsTrivially ==
  \A c \in CashierCall : c.at \in {"idle", "register", "insert", "delete"} => CashierFits(c) /\ CashierFits(c)'
  BY DEF CashierFits

LEMMA FitsKept ==
  ASSUME BookKept, NEW c \in CashierCall, CashierFits(c)
  PROVE  CashierFits(c)'
  BY CashierFields DEF BookKept, CashierFits

(* A handler moves on and the others stay where they are.                   *)
LEMMA CashierMoves ==
  ASSUME BeneficiariesInv, BookKept, NEW h \in Cashiers, NEW next \in CashierCall, CashierTo(h, next),
         CashierFits(next)'
  PROVE  bcall' \in [Cashiers -> CashierCall] /\ (\A g \in Cashiers : CashierFits(bcall[g]))'
<1>1. bcall \in [Cashiers -> CashierCall] /\ \A g \in Cashiers : CashierFits(bcall[g])
  BY DEF BeneficiariesInv, BeneficiariesTypeOK
<1>2. bcall' \in [Cashiers -> CashierCall] /\ bcall'[h] = next /\ \A g \in Cashiers \ {h} : bcall'[g] = bcall[g]
  BY <1>1 DEF CashierTo
<1>3. ASSUME NEW g \in Cashiers PROVE CashierFits(bcall[g])'
  <2>1. CASE g = h
    BY <1>2, <2>1 DEF CashierFits
  <2>2. CASE g # h
    <3>1. PICK c \in CashierCall : c = bcall[g]
      BY <1>1
    <3>2. CashierFits(c)'
      BY <1>1, <3>1, FitsKept
    <3> QED BY <1>2, <2>2, <3>1, <3>2 DEF CashierFits
  <2> QED BY <2>1, <2>2
<1> QED BY <1>2, <1>3

LEMMA SavedIsFinite == IsFiniteSet(Saved) /\ Cardinality(Saved) \in Nat
  BY BeneficiariesAssumption, FS_Subset, FS_CardinalityType DEF Saved

(* A step that leaves book, lead and payout alone.                          *)
LEMMA CashierOnly ==
  ASSUME BeneficiariesInv, UNCHANGED <<book, lead, payout>>, NEW h \in Cashiers, NEW next \in CashierCall,
         CashierTo(h, next), CashierFits(next)
  PROVE  BeneficiariesInv'
<1>1. BookKept
  BY DEF BookKept, Saved
<1>2. CashierFits(next)'
  BY <1>1, FitsKept
<1>3. bcall' \in [Cashiers -> CashierCall] /\ (\A g \in Cashiers : CashierFits(bcall[g]))'
  BY <1>1, <1>2, CashierMoves
<1> QED
  BY <1>3 DEF BeneficiariesInv, BeneficiariesTypeOK, AccountsAreRight, SavedOnce, WithinTheLimit, PaidWhereItSays,
              BookInv, Saved

LEMMA NewEntryIsEntry ==
  ASSUME NEW c \in CashierCall, c.at = "insert"
  PROVE  /\ NewEntry(c) \in Entry /\ NewEntry(c).bank = c.bank
         /\ NewEntry(c).bachsDestinationId = <<NewEntry(c).bachsAccountId, NewEntry(c).bank>>
<1>1. c.bank \in Banks /\ c.on \in Leads
  BY CashierFields
<1>2. <<c.on, c.bank>> \in Destinations
  BY <1>1 DEF Destinations
<1> QED BY <1>1, <1>2 DEF NewEntry, Entry

(* An insert of an account that is not there, with room for it.             *)
LEMMA InsertKeeps ==
  ASSUME BeneficiariesInv, NEW h \in Cashiers, InsertBeneficiary(h)
  PROVE  BeneficiariesInv'
<1>1. PICK c \in CashierCall : c = bcall[h]
  BY DEF BeneficiariesInv, BeneficiariesTypeOK
<1>2. c.at = "insert" /\ CashierTo(h, Closed) /\ UNCHANGED <<lead, payout>>
  BY <1>1 DEF InsertBeneficiary
<1>3. CashierFits(Closed) /\ CashierFits(Closed)'
  BY CashierPlaces, FitsTrivially DEF Closed
<1>4. CASE UNCHANGED book
  BY <1>2, <1>3, <1>4, CashierPlaces, CashierOnly
<1>5. CASE ~UNCHANGED book
  <2>1. PICK i \in Entries : IsNew(i) /\ book' = [book EXCEPT ![i] = NewEntry(c)]
    BY <1>1, <1>5 DEF InsertBeneficiary
  <2>2. Duplicate(c.bank) = {} /\ HasRoom
    BY <1>1, <1>5 DEF InsertBeneficiary
  <2> DEFINE e == NewEntry(c)
  <2>3. e \in Entry /\ e.bank = c.bank /\ e.bachsDestinationId = <<e.bachsAccountId, e.bank>>
    BY <1>2, NewEntryIsEntry
  <2>4. book' = [book EXCEPT ![i] = e]
    BY <2>1
  <2> HIDE DEF e
  <2>5. book \in [Entries -> Entry \cup {Blank("unused"), Blank("removed")}] /\ book[i] = Blank("unused")
    BY <2>1 DEF BeneficiariesInv, BeneficiariesTypeOK, IsNew
  <2>6. /\ book' \in [Entries -> Entry \cup {Blank("unused"), Blank("removed")}]
        /\ book'[i] = e /\ \A j \in Entries \ {i} : book'[j] = book[j]
    BY <2>3, <2>4, <2>5
  <2>7. Saved' = Saved \cup {i} /\ i \notin Saved
    BY <2>3, <2>5, <2>6, BlankIsApart DEF Saved
  <2>8. BookKept
    BY <2>5, <2>6, <2>7 DEF BookKept
  <2>9. SavedOnce'
    BY <2>2, <2>3, <2>6, <2>7 DEF BeneficiariesInv, AccountsAreRight, SavedOnce, Duplicate, Saved
  <2>10. WithinTheLimit'
    <3>1. Cardinality(Saved \cup {i}) = Cardinality(Saved) + 1
      BY <2>7, SavedIsFinite, FS_AddElement
    <3> QED BY <2>2, <2>7, <3>1, SavedIsFinite, BeneficiariesAssumption DEF HasRoom, WithinTheLimit
  <2>11. BookInv'
    <3>1. ASSUME NEW j \in Saved, j # i PROVE book'[j] = book[j]
      BY <2>6, <3>1 DEF Saved
    <3> QED BY <2>3, <2>6, <2>7, <3>1 DEF BeneficiariesInv, BookInv
  <2>12. bcall' \in [Cashiers -> CashierCall] /\ (\A g \in Cashiers : CashierFits(bcall[g]))'
    BY <1>2, <1>3, <2>8, CashierPlaces, CashierMoves
  <2>13. PaidWhereItSays' /\ lead' \in Leads /\ payout' \in Target \cup {Blank("none")}
         /\ (payout # Blank("none") => payout.beneficiaryId \in Saved \cup {None})'
    BY <1>2, <2>7 DEF BeneficiariesInv, BeneficiariesTypeOK, AccountsAreRight, PaidWhereItSays
  <2> QED
    BY <2>6, <2>9, <2>10, <2>11, <2>12, <2>13 DEF BeneficiariesInv, BeneficiariesTypeOK, AccountsAreRight
<1> QED BY <1>4, <1>5

(* A row goes; the withdrawal that named it names none, and goes where it   *)
(* went.                                                                    *)
LEMMA DeleteKeeps ==
  ASSUME BeneficiariesInv, NEW h \in Cashiers, DeleteBeneficiary(h)
  PROVE  /\ BeneficiariesInv'
         /\ payout # Blank("none") => /\ payout' # Blank("none")
                                      /\ payout'.destinationId = payout.destinationId
                                      /\ payout'.providerAccountId = payout.providerAccountId
<1>1. PICK c \in CashierCall : c = bcall[h]
  BY DEF BeneficiariesInv, BeneficiariesTypeOK
<1>2. c.at = "delete" /\ CashierTo(h, Closed) /\ UNCHANGED lead
  BY <1>1 DEF DeleteBeneficiary
<1>3. CashierFits(Closed) /\ CashierFits(Closed)'
  BY CashierPlaces, FitsTrivially DEF Closed
<1>4. CASE c.id \notin Saved
  BY <1>1, <1>2, <1>3, <1>4, CashierPlaces, CashierOnly DEF DeleteBeneficiary
<1>5. CASE c.id \in Saved
  <2>1. PICK i \in Saved : i = c.id
    BY <1>5
  <2>2. book' = [book EXCEPT ![i] = Blank("removed")]
        /\ payout' = IF payout # Blank("none") /\ payout.beneficiaryId = i
                     THEN [payout EXCEPT !.beneficiaryId = None] ELSE payout
    BY <1>1, <1>5, <2>1 DEF DeleteBeneficiary, Deleted
  <2>3. /\ book \in [Entries -> Entry \cup {Blank("unused"), Blank("removed")}] /\ lead \in Leads
        /\ payout \in Target \cup {Blank("none")} /\ i \in Entries
        /\ payout # Blank("none") => payout.beneficiaryId \in Saved \cup {None}
        /\ payout # Blank("none") => payout.destinationId = <<payout.providerAccountId, payout.bank>>
    BY DEF BeneficiariesInv, BeneficiariesTypeOK, AccountsAreRight, PaidWhereItSays, Saved
  <2>4. /\ book' \in [Entries -> Entry \cup {Blank("unused"), Blank("removed")}]
        /\ book'[i] = Blank("removed") /\ \A j \in Entries \ {i} : book'[j] = book[j]
    BY <2>2, <2>3
  <2>5. Saved' = Saved \ {i}
    BY <2>3, <2>4, BlankIsApart DEF Saved
  <2>6. BookKept
    BY <2>3, <2>4, <2>5, BlankIsApart DEF BookKept
  <2>7. SavedOnce' /\ BookInv'
    <3>1. \A j \in Saved' : j \in Saved /\ book'[j] = book[j]
      BY <2>4, <2>5 DEF Saved
    <3> QED BY <3>1 DEF BeneficiariesInv, AccountsAreRight, SavedOnce, BookInv
  <2>8. WithinTheLimit'
    <3>1. IsFiniteSet(Saved \ {i}) /\ Cardinality(Saved \ {i}) <= Cardinality(Saved) /\ Cardinality(Saved \ {i}) \in Nat
      BY SavedIsFinite, FS_Subset, FS_CardinalityType
    <3>2. Cardinality(Saved) <= MAX_BENEFICIARIES
      BY DEF BeneficiariesInv, AccountsAreRight, WithinTheLimit
    <3> QED BY <2>5, <3>1, <3>2, SavedIsFinite, BeneficiariesAssumption DEF WithinTheLimit
  <2>9. bcall' \in [Cashiers -> CashierCall] /\ (\A g \in Cashiers : CashierFits(bcall[g]))'
    BY <1>2, <1>3, <2>6, CashierPlaces, CashierMoves
  <2>10. /\ payout' \in Target \cup {Blank("none")}
         /\ payout' # Blank("none") => /\ payout # Blank("none")
                                       /\ payout'.beneficiaryId \in (Saved \ {i}) \cup {None}
                                       /\ payout'.destinationId = payout.destinationId
                                       /\ payout'.providerAccountId = payout.providerAccountId
                                       /\ payout'.bank = payout.bank
         /\ payout' = Blank("none") => payout = Blank("none")
    <3>1. CASE payout # Blank("none") /\ payout.beneficiaryId = i
      <4> DEFINE t == [payout EXCEPT !.beneficiaryId = None]
      <4>1. payout \in Target /\ payout' = t
        BY <2>2, <2>3, <3>1
      <4>2. t \in Target /\ t.beneficiaryId = None /\ t.destinationId = payout.destinationId
            /\ t.providerAccountId = payout.providerAccountId /\ t.bank = payout.bank
        BY <4>1 DEF Target
      <4> HIDE DEF t
      <4> QED BY <3>1, <4>1, <4>2, BlankIsApart
    <3>2. CASE ~(payout # Blank("none") /\ payout.beneficiaryId = i)
      BY <2>2, <2>3, <3>2
    <3> QED BY <3>1, <3>2
  <2>11. PaidWhereItSays' /\ lead' \in Leads /\ (payout # Blank("none") => payout.beneficiaryId \in Saved \cup {None})'
    BY <1>2, <2>3, <2>5, <2>10 DEF PaidWhereItSays
  <2>12. BeneficiariesInv'
    BY <2>4, <2>7, <2>8, <2>9, <2>10, <2>11 DEF BeneficiariesInv, BeneficiariesTypeOK, AccountsAreRight
  <2> QED BY <2>10, <2>12
<1> QED BY <1>4, <1>5

(* The row is given a destination on the account of the lead who asked.     *)
LEMMA RedirectKeeps ==
  ASSUME BeneficiariesInv, NEW h \in Cashiers, DestinationFor(h)
  PROVE  BeneficiariesInv'
<1>1. PICK c \in CashierCall : c = bcall[h]
  BY DEF BeneficiariesInv, BeneficiariesTypeOK
<1>2. c.at = "redirect" /\ UNCHANGED <<lead, payout>> /\ CashierFits(c) /\ c.id \in Entries /\ c.bank \in Banks /\ c.on \in Leads
  BY <1>1, CashierFields DEF DestinationFor, BeneficiariesInv
<1>3. CASE c.id \notin Saved
  <2>1. CashierFits(Closed) /\ Closed \in CashierCall
    BY CashierPlaces, FitsTrivially DEF Closed
  <2> QED BY <1>1, <1>2, <1>3, <2>1, CashierOnly DEF DestinationFor
<1>4. CASE c.id \in Saved
  <2>1. PICK i \in Saved : i = c.id
    BY <1>4
  <2> DEFINE d == <<c.on, c.bank>>
             e == [book[i] EXCEPT !.bachsDestinationId = d, !.bachsAccountId = c.on]
             next == Towards(i, c.bank, d, c.on)
  <2>2. book \in [Entries -> Entry \cup {Blank("unused"), Blank("removed")}] /\ i \in Entries /\ book[i] \in Entry
        /\ book[i].bank = c.bank
    BY <1>2, <2>1 DEF BeneficiariesInv, BeneficiariesTypeOK, Saved, CashierFits
  <2>3. d \in Destinations
    BY <1>2 DEF Destinations
  <2>4. e \in Entry /\ e.bank = c.bank /\ e.bachsDestinationId = <<e.bachsAccountId, e.bank>>
    BY <1>2, <2>2, <2>3 DEF Entry
  <2>5. book' = [book EXCEPT ![i] = e] /\ CashierTo(h, next)
    BY <1>1, <1>4, <2>1, <2>2 DEF DestinationFor
  <2>6. next \in CashierCall
    BY <1>2, <2>2, <2>3, CashierPlaces
  <2>7. CashierFits(next)'
    BY DEF CashierFits, Towards
  <2> HIDE DEF d, e, next
  <2>8. /\ book' \in [Entries -> Entry \cup {Blank("unused"), Blank("removed")}]
        /\ book'[i] = e /\ \A j \in Entries \ {i} : book'[j] = book[j]
    BY <2>2, <2>4, <2>5
  <2>9. Saved' = Saved
    BY <2>2, <2>4, <2>8 DEF Saved
  <2>10. \A j \in Saved : book'[j].bank = book[j].bank
    BY <2>2, <2>4, <2>8 DEF Saved
  <2>11. BookKept
    <3>1. book'[i] # Blank("unused")
      BY <2>4, <2>8, BlankIsApart
    <3>2. ASSUME NEW j \in Entries, book[j] # Blank("unused") PROVE book'[j] # Blank("unused")
      BY <2>8, <3>1, <3>2
    <3> QED BY <2>9, <2>10, <3>2 DEF BookKept
  <2>12. SavedOnce' /\ WithinTheLimit'
    BY <2>9, <2>10 DEF BeneficiariesInv, AccountsAreRight, SavedOnce, WithinTheLimit
  <2>13. BookInv'
    <3>1. ASSUME NEW j \in Saved, j # i PROVE book'[j] = book[j]
      BY <2>8, <3>1 DEF Saved
    <3> QED BY <2>4, <2>8, <2>9, <3>1 DEF BeneficiariesInv, BookInv
  <2>14. bcall' \in [Cashiers -> CashierCall] /\ (\A g \in Cashiers : CashierFits(bcall[g]))'
    BY <2>5, <2>6, <2>7, <2>11, CashierMoves
  <2>15. PaidWhereItSays' /\ lead' \in Leads /\ payout' \in Target \cup {Blank("none")}
         /\ (payout # Blank("none") => payout.beneficiaryId \in Saved \cup {None})'
    BY <1>2, <2>9 DEF BeneficiariesInv, BeneficiariesTypeOK, AccountsAreRight, PaidWhereItSays
  <2> QED BY <2>8, <2>12, <2>13, <2>14, <2>15 DEF BeneficiariesInv, BeneficiariesTypeOK, AccountsAreRight
<1> QED BY <1>3, <1>4

(* The steps that read, or wait for the provider.                           *)
LEMMA CashierReads ==
  ASSUME BeneficiariesInv, NEW h \in Cashiers,
         \/ \E i \in Entries : RemoveBeneficiary(h, i) \/ ResolveTarget(h, i)
         \/ \E bank \in Banks : AddBeneficiary(h, bank) \/ OneOffDestination(h, bank)
         \/ RegisterPayoutDestination(h) \/ CashierInterrupt(h)
  PROVE  BeneficiariesInv' /\ UNCHANGED <<book, lead, payout>>
<1>1. bcall \in [Cashiers -> CashierCall] /\ lead \in Leads
      /\ book \in [Entries -> Entry \cup {Blank("unused"), Blank("removed")}]
  BY DEF BeneficiariesInv, BeneficiariesTypeOK
<1>2. CASE \E i \in Entries : RemoveBeneficiary(h, i)
  <2>1. PICK i \in Entries : RemoveBeneficiary(h, i)
    BY <1>2
  <2> DEFINE next == [at |-> "delete", id |-> i]
  <2>2. next \in CashierCall /\ next.at = "delete" /\ CashierTo(h, next) /\ UNCHANGED <<book, lead, payout>>
    BY <2>1, CashierPlaces DEF RemoveBeneficiary, Serves
  <2> HIDE DEF next
  <2> QED BY <2>2, FitsTrivially, CashierOnly
<1>3. CASE \E i \in Entries : ResolveTarget(h, i)
  <2>1. PICK i \in Entries : ResolveTarget(h, i)
    BY <1>3
  <2>2. i \in Saved /\ UNCHANGED <<book, lead, payout>>
    BY <2>1 DEF ResolveTarget
  <2>3. PICK e \in Entry : e = book[i]
    BY <2>2 DEF Saved
  <2>4. e.bank \in Banks /\ e.bachsDestinationId \in Destinations \cup {None}
    BY DEF Entry
  <2>5. CASE Reusable(i)
    <3> DEFINE next == Towards(i, e.bank, e.bachsDestinationId, lead)
    <3>1. CashierTo(h, next) /\ e.bachsDestinationId # None /\ e.bachsAccountId = lead
      BY <2>1, <2>3, <2>5 DEF ResolveTarget, Serves, Reusable
    <3>2. next \in CashierCall
      BY <1>1, <2>4, <3>1, CashierPlaces
    <3>3. e.bachsDestinationId = <<lead, e.bank>>
      BY <2>2, <2>3, <3>1 DEF BeneficiariesInv, BookInv
    <3>4. CashierFits(next)
      BY <3>3 DEF CashierFits, Towards
    <3> HIDE DEF next
    <3> QED BY <2>2, <3>1, <3>2, <3>4, CashierOnly
  <2>6. CASE ~Reusable(i)
    <3> DEFINE next == [at |-> "redirect", id |-> i, bank |-> e.bank, on |-> lead]
    <3>1. CashierTo(h, next)
      BY <2>1, <2>3, <2>6 DEF ResolveTarget, Serves
    <3>2. next \in CashierCall
      BY <1>1, <2>4, CashierPlaces
    <3>3. CashierFits(next)
      BY <2>2, <2>3, BlankIsApart DEF CashierFits
    <3> HIDE DEF next
    <3> QED BY <2>2, <3>1, <3>2, <3>3, CashierOnly
  <2> QED BY <2>5, <2>6
<1>4. CASE \E bank \in Banks : AddBeneficiary(h, bank)
  <2>1. PICK bank \in Banks : AddBeneficiary(h, bank)
    BY <1>4
  <2> DEFINE next == [at |-> "register", bank |-> bank, on |-> lead]
  <2>2. next \in CashierCall /\ next.at = "register" /\ CashierTo(h, next) /\ UNCHANGED <<book, lead, payout>>
    BY <1>1, <2>1, CashierPlaces DEF AddBeneficiary, Serves
  <2> HIDE DEF next
  <2> QED BY <2>2, FitsTrivially, CashierOnly
<1>5. CASE \E bank \in Banks : OneOffDestination(h, bank)
  <2>1. PICK bank \in Banks : OneOffDestination(h, bank)
    BY <1>5
  <2> DEFINE next == Towards(None, bank, <<lead, bank>>, lead)
  <2>2. <<lead, bank>> \in Destinations
    BY <1>1 DEF Destinations
  <2>3. next \in CashierCall /\ CashierTo(h, next) /\ UNCHANGED <<book, lead, payout>>
    BY <1>1, <2>1, <2>2, CashierPlaces DEF OneOffDestination, Serves
  <2>4. CashierFits(next)
    BY DEF CashierFits, Towards
  <2> HIDE DEF next
  <2> QED BY <2>3, <2>4, CashierOnly
<1>6. CASE RegisterPayoutDestination(h)
  <2>1. PICK c \in CashierCall : c = bcall[h]
    BY <1>1
  <2> DEFINE next == [c EXCEPT !.at = "insert"]
  <2>2. c.at = "register" /\ CashierTo(h, next) /\ UNCHANGED <<book, lead, payout>>
    BY <1>6, <2>1 DEF RegisterPayoutDestination
  <2>3. next \in CashierCall /\ next.at = "insert"
    BY <2>2 DEF CashierCall
  <2> HIDE DEF next
  <2> QED BY <2>2, <2>3, FitsTrivially, CashierOnly
<1>7. CASE CashierInterrupt(h)
  <2>1. Closed \in CashierCall /\ CashierFits(Closed)
    BY CashierPlaces, FitsTrivially DEF Closed
  <2> QED BY <1>7, <2>1, CashierOnly DEF CashierInterrupt
<1> QED BY <1>2, <1>3, <1>4, <1>5, <1>6, <1>7

(* A withdrawal begins.                                                     *)
LEMMA CreateKeeps ==
  ASSUME BeneficiariesInv, NEW h \in Cashiers, CreatePayout(h)
  PROVE  BeneficiariesInv' /\ (payout # Blank("none") => UNCHANGED payout)
<1>1. PICK c \in CashierCall : c = bcall[h]
  BY DEF BeneficiariesInv, BeneficiariesTypeOK
<1>2. c.at = "create" /\ CashierTo(h, Closed) /\ UNCHANGED <<book, lead>>
  BY <1>1 DEF CreatePayout
<1>3. payout' = IF payout = Blank("none") /\ c.target.beneficiaryId \in Saved \cup {None} THEN c.target ELSE payout
  BY <1>1 DEF CreatePayout
<1>4. c.target \in Target /\ c.target.destinationId = <<c.target.providerAccountId, c.target.bank>>
  BY <1>1, <1>2, CashierFields DEF BeneficiariesInv, CashierFits
<1>5. BookKept /\ Saved' = Saved
  BY <1>2 DEF BookKept, Saved
<1>6. CashierFits(Closed)' /\ Closed \in CashierCall
  BY CashierPlaces, FitsTrivially DEF Closed
<1>7. bcall' \in [Cashiers -> CashierCall] /\ (\A g \in Cashiers : CashierFits(bcall[g]))'
  BY <1>2, <1>5, <1>6, CashierMoves
<1>8. /\ payout' \in Target \cup {Blank("none")} /\ PaidWhereItSays'
      /\ payout' # Blank("none") => payout'.beneficiaryId \in Saved \cup {None}
  BY <1>3, <1>4 DEF BeneficiariesInv, BeneficiariesTypeOK, AccountsAreRight, PaidWhereItSays
<1>9. BeneficiariesInv'
  BY <1>2, <1>5, <1>7, <1>8 DEF BeneficiariesInv, BeneficiariesTypeOK, AccountsAreRight, SavedOnce, WithinTheLimit, BookInv
<1> QED BY <1>3, <1>9

(* Nobody's call: the withdrawal ends, or the lead changes.                 *)
LEMMA SpaceMoves ==
  ASSUME BeneficiariesInv, PayoutEnds \/ LeadChanges
  PROVE  BeneficiariesInv'
<1>1. UNCHANGED <<book, bcall>> /\ lead' \in Leads /\ payout' \in {payout, Blank("none")}
  BY DEF PayoutEnds, LeadChanges, BeneficiariesInv, BeneficiariesTypeOK
<1>2. Saved' = Saved /\ \A h \in Cashiers : CashierFits(bcall[h])'
  BY <1>1 DEF Saved, BeneficiariesInv, CashierFits
<1> QED
  BY <1>1, <1>2 DEF BeneficiariesInv, BeneficiariesTypeOK, AccountsAreRight, SavedOnce, WithinTheLimit, PaidWhereItSays,
                    BookInv

LEMMA BeneficiariesStart == BeneficiariesInit => BeneficiariesInv
<1> SUFFICES ASSUME BeneficiariesInit PROVE BeneficiariesInv
  OBVIOUS
<1> DEFINE empty == [i \in Entries |-> Blank("unused")]
<1>1. /\ book \in {empty} \cup {[empty EXCEPT ![1] = CarriedOver(bank)] : bank \in Banks}
      /\ lead \in Leads /\ payout = Blank("none") /\ bcall = [h \in Cashiers |-> Closed]
  BY DEF BeneficiariesInit
<1>2. \A bank \in Banks : CarriedOver(bank) \in Entry /\ CarriedOver(bank).bachsDestinationId = None
  BY DEF CarriedOver, Entry
<1>3. /\ book \in [Entries -> Entry \cup {Blank("unused"), Blank("removed")}]
      /\ \A i \in Saved : i = 1 /\ book[i].bachsDestinationId = None
  BY <1>1, <1>2, BlankIsApart, BeneficiariesAssumption DEF Saved
<1>4. Cardinality(Saved) <= 1
  <2>1. CASE Saved = {}
    BY <2>1, FS_EmptySet
  <2>2. CASE Saved # {}
    <3>1. Saved = {1}
      BY <1>3, <2>2
    <3> QED BY <3>1, FS_Singleton
  <2> QED BY <2>1, <2>2
<1>5. SavedOnce /\ WithinTheLimit /\ BookInv /\ PaidWhereItSays
  BY <1>1, <1>3, <1>4, SavedIsFinite, BeneficiariesAssumption DEF SavedOnce, WithinTheLimit, BookInv, PaidWhereItSays
<1>6. Closed \in CashierCall /\ CashierFits(Closed)
  BY CashierPlaces, FitsTrivially DEF Closed
<1>7. bcall \in [Cashiers -> CashierCall] /\ \A h \in Cashiers : CashierFits(bcall[h])
  BY <1>1, <1>6
<1> QED BY <1>1, <1>3, <1>5, <1>7 DEF BeneficiariesInv, BeneficiariesTypeOK, AccountsAreRight

LEMMA BeneficiariesStep == BeneficiariesInv /\ [BeneficiariesNext]_beneficiaryVars => BeneficiariesInv'
<1> SUFFICES ASSUME BeneficiariesInv, [BeneficiariesNext]_beneficiaryVars PROVE BeneficiariesInv'
  OBVIOUS
<1>1. CASE UNCHANGED beneficiaryVars
  BY <1>1 DEF beneficiaryVars, BeneficiariesInv, BeneficiariesTypeOK, AccountsAreRight, SavedOnce, WithinTheLimit,
              PaidWhereItSays, BookInv, CashierFits, Saved
<1> QED
  BY <1>1, CashierReads, InsertKeeps, DeleteKeeps, RedirectKeeps, CreateKeeps, SpaceMoves DEF BeneficiariesNext

LEMMA TargetStands ==
  ASSUME BeneficiariesInv, [BeneficiariesNext]_beneficiaryVars, payout # Blank("none"), ~PayoutEnds
  PROVE  /\ payout' # Blank("none")
         /\ payout'.destinationId = payout.destinationId
         /\ payout'.providerAccountId = payout.providerAccountId
<1>1. CASE \E h \in Cashiers : DeleteBeneficiary(h)
  BY <1>1, DeleteKeeps
<1>2. CASE \E h \in Cashiers : CreatePayout(h)
  BY <1>2, CreateKeeps
<1>3. CASE \E h \in Cashiers : InsertBeneficiary(h) \/ DestinationFor(h)
  BY <1>3 DEF InsertBeneficiary, DestinationFor
<1>4. CASE LeadChanges \/ UNCHANGED beneficiaryVars
  BY <1>4 DEF LeadChanges, beneficiaryVars
<1> QED BY <1>1, <1>2, <1>3, <1>4, CashierReads DEF BeneficiariesNext

(* The list has no account twice and not too many, and a withdrawal pays    *)
(* the account it names out of the account it is debited from: for any      *)
(* number of requests, leads, accounts and rows, and any limit but 0        *)
(* (beneficiary.service.ts).                                                *)
THEOREM AccountsStayRight == BeneficiariesSpec => []AccountsAreRight
<1>1. BeneficiariesInv => AccountsAreRight
  BY DEF BeneficiariesInv
<1> QED BY <1>1, BeneficiariesStart, BeneficiariesStep, PTL DEF BeneficiariesSpec

(* "a later edit or removal of the beneficiary can't redirect it"           *)
(* (schema.prisma), whoever is leading and whoever asks at the same time.   *)
THEOREM TargetIsKept == BeneficiariesSpec => InFlightKeepsItsTarget
<1>1. BeneficiariesInv /\ [BeneficiariesNext]_beneficiaryVars
      => [payout # Blank("none") /\ ~PayoutEnds =>
            /\ payout' # Blank("none")
            /\ payout'.destinationId = payout.destinationId
            /\ payout'.providerAccountId = payout.providerAccountId]_beneficiaryVars
  BY TargetStands
<1> QED BY <1>1, BeneficiariesStart, BeneficiariesStep, PTL DEF BeneficiariesSpec, InFlightKeepsItsTarget

-----------------------------------------------------------------------------
(* Partners                                                                *)

(* Past the row lock, a handler holds it; past the check, there is room for *)
(* one more, which nobody else can take and no edit can take away.          *)
TellerFits(h) ==
    LET c == tcall[h] IN
    /\ c.at \in {"check", "insert"} => rowLock[c.code] = h
    /\ c.at = "insert" /\ partner[c.code].max # 0 => Cardinality(Used(c.code)) < partner[c.code].max

PartnersInv ==
    /\ PartnersTypeOK
    /\ \A s \in Groups : redeemed[s] <= 1 /\ (redemption[s] = NoRedemption => redeemed[s] = 0)
    /\ \A k \in Codes : IsFiniteSet(Used(k))
    /\ \A h \in Tellers : TellerFits(h)

LEMMA TellerPlaces ==
  /\ NoCall \in TellerCall
  /\ \A s \in Groups, k \in Codes, at \in {"lock", "check", "insert"} : [at |-> at, s |-> s, code |-> k] \in TellerCall
  BY DEF TellerCall, NoCall

LEMMA TellerFields ==
  \A c \in TellerCall :
      /\ c.at \in {"idle", "lock", "check", "insert"}
      /\ c.at # "idle" =>
            /\ c.s \in Groups /\ c.code \in Codes
            /\ \A at \in {"check", "insert"} :
                  /\ [c EXCEPT !.at = at] \in TellerCall
                  /\ [c EXCEPT !.at = at].at = at /\ [c EXCEPT !.at = at].code = c.code
  BY DEF TellerCall

LEMMA RedemptionFields ==
  /\ NoRedemption.code = NoOne /\ NoOne \notin Codes /\ NoRedemption \notin Redemption
  /\ \A x \in Redemption : x.code \in Codes /\ x.revoked \in BOOLEAN /\ x.discountPercent \in Percents
  BY PartnersAssumption DEF NoRedemption, Redemption

(* What the invariant says of one handler at c and the lock.                *)
TellerHolds(h, c) == c.at \in {"check", "insert"} => rowLock[c.code] = h

HasRoomFor(c) == c.at = "insert" /\ partner[c.code].max # 0 => Cardinality(Used(c.code)) < partner[c.code].max

(* The invariant, with the handlers apart from the tables.                  *)
TablesHold ==
    /\ partner \in [Codes -> Partner]
    /\ redemption \in [Groups -> Redemption \cup {NoRedemption}]
    /\ redeemed \in [Groups -> 0..2]
    /\ \A s \in Groups : redeemed[s] <= 1 /\ (redemption[s] = NoRedemption => redeemed[s] = 0)
    /\ \A k \in Codes : IsFiniteSet(Used(k))

TellersHold ==
    /\ tcall \in [Tellers -> TellerCall]
    /\ rowLock \in [Codes -> Tellers \cup {NoOne}]
    /\ \A h \in Tellers, k \in Codes : rowLock[k] = h => tcall[h].at \in {"check", "insert"} /\ tcall[h].code = k
    /\ \A h \in Tellers : TellerHolds(h, tcall[h])

LEMMA PartnersParts ==
  /\ PartnersInv <=> TablesHold /\ TellersHold /\ \A h \in Tellers : HasRoomFor(tcall[h])
  /\ PartnersInv' <=> TablesHold' /\ TellersHold' /\ (\A h \in Tellers : HasRoomFor(tcall[h]))'
  BY DEF PartnersInv, PartnersTypeOK, TablesHold, TellersHold, TellerHolds, HasRoomFor, TellerFits

(* A handler ends, with what it has locked.                                 *)
LEMMA TellerEnds ==
  ASSUME TellersHold, NEW h \in Tellers, TellerTo(h, NoCall), rowLock' = Unlocked(h)
  PROVE  TellersHold' /\ tcall'[h] = NoCall /\ \A g \in Tellers \ {h} : tcall'[g] = tcall[g]
<1>1. /\ tcall \in [Tellers -> TellerCall] /\ rowLock \in [Codes -> Tellers \cup {NoOne}]
      /\ \A g \in Tellers, k \in Codes : rowLock[k] = g => tcall[g].at \in {"check", "insert"} /\ tcall[g].code = k
      /\ \A g \in Tellers : tcall[g].at \in {"check", "insert"} => rowLock[tcall[g].code] = g
  BY DEF TellersHold, TellerHolds
<1>2. tcall' \in [Tellers -> TellerCall] /\ tcall'[h] = NoCall /\ \A g \in Tellers \ {h} : tcall'[g] = tcall[g]
  BY <1>1, TellerPlaces DEF TellerTo
<1>3. rowLock' \in [Codes -> Tellers \cup {NoOne}] /\ \A k \in Codes : rowLock'[k] = IF rowLock[k] = h THEN NoOne ELSE rowLock[k]
  BY <1>1 DEF Unlocked
<1>4. NoOne \notin Tellers /\ NoCall.at = "idle"
  BY PartnersAssumption DEF NoCall
<1>5. ASSUME NEW g \in Tellers, NEW k \in Codes, rowLock'[k] = g PROVE tcall'[g].at \in {"check", "insert"} /\ tcall'[g].code = k
  BY <1>1, <1>2, <1>3, <1>4, <1>5
<1>6. ASSUME NEW g \in Tellers, tcall'[g].at \in {"check", "insert"} PROVE rowLock'[tcall'[g].code] = g
  <2>1. g # h /\ tcall'[g] = tcall[g]
    BY <1>2, <1>4, <1>6
  <2>2. tcall[g].code \in Codes /\ rowLock[tcall[g].code] = g
    BY <1>1, <1>6, <2>1, TellerFields
  <2> QED BY <1>3, <2>1, <2>2
<1> QED BY <1>2, <1>3, <1>5, <1>6 DEF TellersHold, TellerHolds

(* A redemption looks for nothing but its own space.                        *)
LEMMA RedeemKeeps ==
  ASSUME PartnersInv, NEW h \in Tellers, NEW s \in Groups, NEW k \in Codes, RedeemForSpace(h, s, k)
  PROVE  PartnersInv'
<1> DEFINE next == [at |-> "lock", s |-> s, code |-> k]
<1>1. next \in TellerCall /\ next.at = "lock"
  BY TellerPlaces
<1>2. tcall[h] = NoCall /\ TellerTo(h, next) /\ UNCHANGED <<partner, redemption, rowLock, redeemed>>
  BY DEF RedeemForSpace
<1> HIDE DEF next
<1>3. tcall \in [Tellers -> TellerCall] /\ NoCall.at = "idle"
  BY DEF PartnersInv, PartnersTypeOK, NoCall
<1>4. tcall' \in [Tellers -> TellerCall] /\ tcall'[h] = next /\ \A g \in Tellers \ {h} : tcall'[g] = tcall[g]
  BY <1>1, <1>2, <1>3 DEF TellerTo
<1>5. TellersHold'
  BY <1>1, <1>2, <1>3, <1>4, PartnersParts DEF TellersHold, TellerHolds
<1>6. (\A g \in Tellers : HasRoomFor(tcall[g]))'
  BY <1>1, <1>2, <1>4, PartnersParts DEF HasRoomFor, Used
<1>7. TablesHold'
  BY <1>2, PartnersParts DEF TablesHold, Used
<1> QED BY <1>5, <1>6, <1>7, PartnersParts

LEMMA LockKeeps ==
  ASSUME PartnersInv, NEW h \in Tellers, LockPartner(h)
  PROVE  PartnersInv'
<1>1. /\ tcall \in [Tellers -> TellerCall] /\ rowLock \in [Codes -> Tellers \cup {NoOne}]
      /\ \A g \in Tellers, k \in Codes : rowLock[k] = g => tcall[g].at \in {"check", "insert"} /\ tcall[g].code = k
      /\ \A g \in Tellers : tcall[g].at \in {"check", "insert"} => rowLock[tcall[g].code] = g
  BY PartnersParts DEF TellersHold, TellerHolds
<1>2. PICK c \in TellerCall : c = tcall[h]
  BY <1>1
<1> DEFINE next == [c EXCEPT !.at = "check"]
<1>3. /\ c.at = "lock" /\ rowLock[c.code] = NoOne /\ rowLock' = [rowLock EXCEPT ![c.code] = h]
      /\ TellerTo(h, next) /\ UNCHANGED <<partner, redemption, redeemed>>
  BY <1>2 DEF LockPartner
<1>4. c.code \in Codes /\ next \in TellerCall /\ next.at = "check" /\ next.code = c.code
  BY <1>3, TellerFields
<1> HIDE DEF next
<1>5. tcall' \in [Tellers -> TellerCall] /\ tcall'[h] = next /\ \A g \in Tellers \ {h} : tcall'[g] = tcall[g]
  BY <1>1, <1>3, <1>4 DEF TellerTo
<1>6. /\ rowLock' \in [Codes -> Tellers \cup {NoOne}] /\ rowLock'[c.code] = h
      /\ \A k \in Codes \ {c.code} : rowLock'[k] = rowLock[k]
  BY <1>1, <1>3, <1>4
<1>7. ASSUME NEW g \in Tellers, NEW k \in Codes, rowLock'[k] = g PROVE tcall'[g].at \in {"check", "insert"} /\ tcall'[g].code = k
  <2>1. CASE k = c.code
    BY <1>4, <1>5, <1>6, <1>7, <2>1
  <2>2. CASE k # c.code
    <3>1. rowLock[k] = g
      BY <1>6, <1>7, <2>2
    <3>2. g # h
      BY <1>1, <1>2, <1>3, <3>1
    <3> QED BY <1>1, <1>5, <3>1, <3>2
  <2> QED BY <2>1, <2>2
<1>8. ASSUME NEW g \in Tellers, tcall'[g].at \in {"check", "insert"} PROVE rowLock'[tcall'[g].code] = g
  <2>1. CASE g = h
    BY <1>4, <1>5, <1>6, <2>1
  <2>2. CASE g # h
    <3>1. tcall'[g] = tcall[g] /\ rowLock[tcall[g].code] = g /\ tcall[g].code \in Codes
      BY <1>1, <1>5, <1>8, <2>2, TellerFields
    <3>2. tcall[g].code # c.code
      BY <1>3, <3>1, PartnersAssumption
    <3> QED BY <1>6, <3>1, <3>2
  <2> QED BY <2>1, <2>2
<1>9. TellersHold'
  BY <1>5, <1>6, <1>7, <1>8 DEF TellersHold, TellerHolds
<1>10. (\A g \in Tellers : HasRoomFor(tcall[g]))'
  BY <1>3, <1>4, <1>5, PartnersParts DEF HasRoomFor, Used
<1>11. TablesHold'
  BY <1>3, PartnersParts DEF TablesHold, Used
<1> QED BY <1>9, <1>10, <1>11, PartnersParts

LEMMA CheckKeeps ==
  ASSUME PartnersInv, NEW h \in Tellers, CheckCode(h)
  PROVE  PartnersInv'
<1>1. PICK c \in TellerCall : c = tcall[h]
  BY DEF PartnersInv, PartnersTypeOK
<1>2. c.at = "check" /\ UNCHANGED <<partner, redemption, redeemed>>
  BY <1>1 DEF CheckCode
<1>3. TablesHold'
  BY <1>2, PartnersParts DEF TablesHold, Used
<1>4. CASE FindRedeemablePartner(c.code)
  <2> DEFINE next == [c EXCEPT !.at = "insert"]
  <2>1. TellerTo(h, next) /\ UNCHANGED rowLock
    BY <1>1, <1>4 DEF CheckCode
  <2>2. c.code \in Codes /\ next \in TellerCall /\ next.at = "insert" /\ next.code = c.code
    BY <1>2, TellerFields
  <2> HIDE DEF next
  <2>3. tcall' \in [Tellers -> TellerCall] /\ tcall'[h] = next /\ \A g \in Tellers \ {h} : tcall'[g] = tcall[g]
    BY <2>1, <2>2, PartnersParts DEF TellerTo, TellersHold
  <2>4. TellersHold'
    BY <1>1, <1>2, <2>1, <2>2, <2>3, PartnersParts DEF TellersHold, TellerHolds
  <2>5. partner[c.code].max # 0 => Cardinality(Used(c.code)) < partner[c.code].max
    BY <1>4 DEF FindRedeemablePartner
  <2>6. (\A g \in Tellers : HasRoomFor(tcall[g]))'
    <3>1. ASSUME NEW g \in Tellers, g # h PROVE HasRoomFor(tcall[g])'
      BY <1>2, <2>3, <3>1, PartnersParts DEF HasRoomFor, Used
    <3>2. HasRoomFor(tcall[h])'
      BY <1>2, <2>2, <2>3, <2>5 DEF HasRoomFor, Used
    <3> QED BY <3>1, <3>2
  <2> QED BY <1>3, <2>4, <2>6, PartnersParts
<1>5. CASE ~FindRedeemablePartner(c.code)
  <2>1. TellerTo(h, NoCall) /\ rowLock' = Unlocked(h)
    BY <1>1, <1>5 DEF CheckCode
  <2>2. TellersHold' /\ tcall'[h] = NoCall /\ \A g \in Tellers \ {h} : tcall'[g] = tcall[g]
    BY <2>1, TellerEnds, PartnersParts
  <2>3. (\A g \in Tellers : HasRoomFor(tcall[g]))'
    BY <1>2, <2>2, PartnersParts DEF HasRoomFor, Used, NoCall
  <2> QED BY <1>3, <2>2, <2>3, PartnersParts
<1> QED BY <1>4, <1>5

LEMMA AbortKeeps ==
  ASSUME PartnersInv, NEW h \in Tellers, Abort(h)
  PROVE  PartnersInv'
<1>1. TellerTo(h, NoCall) /\ rowLock' = Unlocked(h) /\ UNCHANGED <<partner, redemption, redeemed>>
  BY DEF Abort
<1>2. TablesHold'
  BY <1>1, PartnersParts DEF TablesHold, Used
<1>3. TellersHold' /\ tcall'[h] = NoCall /\ \A g \in Tellers \ {h} : tcall'[g] = tcall[g]
  BY <1>1, TellerEnds, PartnersParts
<1>4. (\A g \in Tellers : HasRoomFor(tcall[g]))'
  BY <1>1, <1>3, PartnersParts DEF HasRoomFor, Used, NoCall
<1> QED BY <1>2, <1>3, <1>4, PartnersParts

(* The space had no redemption: the uses of its code grow by one, to the    *)
(* limit at most, and no other code's do.                                   *)
LEMMA InsertRedemptionKeeps ==
  ASSUME PartnersInv, NEW h \in Tellers, InsertRedemption(h)
  PROVE  /\ PartnersInv'
         /\ \A k \in Codes : Cardinality(Used(k)') > Cardinality(Used(k)) /\ partner[k].max # 0
                             => Cardinality(Used(k)') <= partner[k].max
         /\ \A s \in Groups : redemption[s] # NoRedemption => redemption'[s] = redemption[s]
<1>1. PICK c \in TellerCall : c = tcall[h]
  BY DEF PartnersInv, PartnersTypeOK
<1>2. c.at = "insert" /\ TellerTo(h, NoCall) /\ rowLock' = Unlocked(h) /\ UNCHANGED partner
  BY <1>1 DEF InsertRedemption
<1>3. c.s \in Groups /\ c.code \in Codes
  BY <1>2, TellerFields
<1>4. TellersHold' /\ tcall'[h] = NoCall /\ \A g \in Tellers \ {h} : tcall'[g] = tcall[g]
  BY <1>2, TellerEnds, PartnersParts
<1>5. /\ redemption \in [Groups -> Redemption \cup {NoRedemption}] /\ redeemed \in [Groups -> 0..2]
      /\ partner \in [Codes -> Partner]
      /\ \A s \in Groups : redeemed[s] <= 1 /\ (redemption[s] = NoRedemption => redeemed[s] = 0)
      /\ \A k \in Codes : IsFiniteSet(Used(k)) /\ Cardinality(Used(k)) \in Nat
      /\ \A g \in Tellers : HasRoomFor(tcall[g])
  BY PartnersParts, FS_CardinalityType DEF TablesHold
<1>6. CASE redemption[c.s] # NoRedemption
  <2>1. UNCHANGED <<redemption, redeemed>>
    BY <1>1, <1>6 DEF InsertRedemption
  <2>2. \A k \in Codes : Used(k)' = Used(k)
    BY <2>1 DEF Used
  <2>3. TablesHold'
    BY <1>2, <2>1, <2>2, PartnersParts DEF TablesHold
  <2>4. (\A g \in Tellers : HasRoomFor(tcall[g]))'
    BY <1>2, <1>4, <1>5, <2>1 DEF HasRoomFor, Used, NoCall
  <2> QED BY <1>4, <1>5, <2>1, <2>2, <2>3, <2>4, PartnersParts
<1>7. CASE redemption[c.s] = NoRedemption
  <2> DEFINE x == [code |-> c.code, discountPercent |-> partner[c.code].percent, revoked |-> FALSE, ended |-> FALSE]
  <2>1. redemption' = [redemption EXCEPT ![c.s] = x] /\ redeemed' = [redeemed EXCEPT ![c.s] = @ + 1]
    BY <1>1, <1>7 DEF InsertRedemption
  <2>2. x \in Redemption /\ x.code = c.code /\ ~x.revoked
    BY <1>3, <1>5 DEF Redemption, Partner
  <2> HIDE DEF x
  <2>3. /\ redemption' \in [Groups -> Redemption \cup {NoRedemption}] /\ redemption'[c.s] = x
        /\ \A s \in Groups \ {c.s} : redemption'[s] = redemption[s]
    BY <1>3, <1>5, <2>1, <2>2
  <2>4. /\ redeemed' \in [Groups -> 0..2] /\ redeemed'[c.s] = 1
        /\ \A s \in Groups \ {c.s} : redeemed'[s] = redeemed[s]
    BY <1>3, <1>5, <1>7, <2>1
  <2>5. /\ c.s \notin Used(c.code) /\ Used(c.code)' = Used(c.code) \cup {c.s}
        /\ \A k \in Codes \ {c.code} : Used(k)' = Used(k)
    BY <1>3, <1>7, <2>2, <2>3, RedemptionFields DEF Used
  <2>6. IsFiniteSet(Used(c.code)') /\ Cardinality(Used(c.code)') = Cardinality(Used(c.code)) + 1
    BY <1>3, <1>5, <2>5, FS_AddElement
  <2>7. \A s \in Groups : redemption'[s] = NoRedemption => redemption[s] = NoRedemption /\ s # c.s
    BY <2>2, <2>3, RedemptionFields
  <2>8. TablesHold'
    <3>1. \A s \in Groups : redeemed'[s] <= 1 /\ (redemption'[s] = NoRedemption => redeemed'[s] = 0)
      BY <1>5, <2>4, <2>7
    <3>2. \A k \in Codes : IsFiniteSet(Used(k)')
      BY <1>5, <2>5, <2>6
    <3> QED BY <1>2, <1>5, <2>3, <2>4, <3>1, <3>2 DEF TablesHold
  <2>9. partner[c.code].max # 0 => Cardinality(Used(c.code)) < partner[c.code].max
    BY <1>1, <1>2, <1>5 DEF HasRoomFor
  <2>10. ASSUME NEW g \in Tellers, tcall'[g].at = "insert" PROVE tcall'[g].code \in Codes \ {c.code} /\ tcall'[g] = tcall[g]
    <3>1. g # h /\ tcall'[g] = tcall[g]
      BY <1>4, <2>10 DEF NoCall
    <3>2. tcall[g] \in TellerCall /\ rowLock[tcall[g].code] = g /\ rowLock[c.code] = h
      BY <1>1, <1>2, <2>10, <3>1, PartnersParts DEF TellersHold, TellerHolds
    <3> QED BY <2>10, <3>1, <3>2, TellerFields
  <2>11. (\A g \in Tellers : HasRoomFor(tcall[g]))'
    BY <1>2, <1>5, <2>5, <2>10 DEF HasRoomFor
  <2>12. partner[c.code].max \in Nat
    BY <1>3, <1>5, PartnersAssumption DEF Partner
  <2>13. \A k \in Codes : Cardinality(Used(k)') > Cardinality(Used(k)) /\ partner[k].max # 0
                          => Cardinality(Used(k)') <= partner[k].max
    <3>1. PICK n \in Nat : n = Cardinality(Used(c.code))
      BY <1>3, <1>5
    <3>2. partner[c.code].max # 0 => n + 1 <= partner[c.code].max
      BY <2>9, <2>12, <3>1
    <3>3. ASSUME NEW k \in Codes \ {c.code} PROVE ~(Cardinality(Used(k)') > Cardinality(Used(k)))
      BY <1>5, <2>5
    <3> QED BY <2>6, <3>1, <3>2, <3>3
  <2> QED BY <1>4, <1>7, <2>3, <2>8, <2>11, <2>13, PartnersParts
<1> QED BY <1>6, <1>7

(* The partner is edited while nobody holds its row.                        *)
LEMMA PatchKeeps ==
  ASSUME PartnersInv, NEW k \in Codes, PatchPartner(k)
  PROVE  PartnersInv'
<1>1. PICK p \in Partner : partner' = [partner EXCEPT ![k] = p]
  BY DEF PatchPartner
<1>2. rowLock[k] = NoOne /\ UNCHANGED <<redemption, rowLock, tcall, redeemed>>
  BY DEF PatchPartner
<1>3. partner' \in [Codes -> Partner] /\ \A j \in Codes \ {k} : partner'[j] = partner[j]
  BY <1>1, PartnersParts DEF TablesHold
<1>4. TablesHold' /\ TellersHold'
  BY <1>2, <1>3, PartnersParts DEF TablesHold, TellersHold, TellerHolds, Used
<1>5. ASSUME NEW h \in Tellers PROVE HasRoomFor(tcall[h])'
  <2>1. CASE tcall[h].at # "insert"
    BY <1>2, <2>1 DEF HasRoomFor
  <2>2. CASE tcall[h].at = "insert"
    <3>1. rowLock[tcall[h].code] = h /\ tcall[h].code \in Codes
      BY <2>2, PartnersParts, TellerFields DEF TellersHold, TellerHolds
    <3>2. tcall[h].code # k
      BY <1>2, <3>1, PartnersAssumption
    <3>3. HasRoomFor(tcall[h])
      BY PartnersParts
    <3> QED BY <1>2, <1>3, <3>1, <3>2, <3>3 DEF HasRoomFor, Used
  <2> QED BY <2>1, <2>2
<1> QED BY <1>4, <1>5, PartnersParts

(* A redemption is revoked or ends: no code's uses grow, and the terms are  *)
(* the same or gone.                                                        *)
LEMMA RedemptionGoes ==
  ASSUME PartnersInv, NEW s \in Groups, RevokeRedemption(s) \/ RedemptionEnds(s)
  PROVE  /\ PartnersInv'
         /\ \A k \in Codes : Used(k)' \subseteq Used(k) /\ Cardinality(Used(k)') <= Cardinality(Used(k))
         /\ \A t \in Groups : ActiveDiscount(t)' \in {ActiveDiscount(t), 0}
<1>1. /\ redemption \in [Groups -> Redemption \cup {NoRedemption}]
      /\ \A k \in Codes : IsFiniteSet(Used(k)) /\ Cardinality(Used(k)) \in Nat
  BY PartnersParts, FS_CardinalityType DEF TablesHold
<1>2. redemption[s] # NoRedemption /\ UNCHANGED <<partner, rowLock, tcall, redeemed>>
  BY DEF RevokeRedemption, RedemptionEnds
<1>3. PICK x \in Redemption : x = redemption[s]
  BY <1>1, <1>2
<1>4. PICK y \in Redemption :
        /\ redemption' = [redemption EXCEPT ![s] = y]
        /\ y.code = x.code /\ y.discountPercent = x.discountPercent /\ (x.revoked => y.revoked)
        /\ y.revoked \/ y.ended
  <2>1. CASE RevokeRedemption(s)
    <3> DEFINE y == [x EXCEPT !.revoked = TRUE]
    <3>1. redemption' = [redemption EXCEPT ![s] = y]
      BY <1>3, <2>1 DEF RevokeRedemption
    <3>2. y \in Redemption /\ y.code = x.code /\ y.discountPercent = x.discountPercent /\ y.revoked
      BY DEF Redemption
    <3> HIDE DEF y
    <3> QED BY <3>1, <3>2
  <2>2. CASE RedemptionEnds(s)
    <3> DEFINE y == [x EXCEPT !.ended = TRUE]
    <3>1. redemption' = [redemption EXCEPT ![s] = y]
      BY <1>3, <2>2 DEF RedemptionEnds
    <3>2. y \in Redemption /\ y.code = x.code /\ y.discountPercent = x.discountPercent /\ y.revoked = x.revoked /\ y.ended
      BY DEF Redemption
    <3> HIDE DEF y
    <3> QED BY <3>1, <3>2
  <2> QED BY <2>1, <2>2
<1>5. /\ redemption' \in [Groups -> Redemption \cup {NoRedemption}] /\ redemption'[s] = y
      /\ \A t \in Groups \ {s} : redemption'[t] = redemption[t]
  BY <1>1, <1>4
<1>6. \A k \in Codes : Used(k)' \subseteq Used(k)
  BY <1>3, <1>4, <1>5 DEF Used
<1>7. \A k \in Codes : IsFiniteSet(Used(k)') /\ Cardinality(Used(k)') <= Cardinality(Used(k)) /\ Cardinality(Used(k)') \in Nat
  BY <1>1, <1>6, FS_Subset, FS_CardinalityType
<1>8. \A t \in Groups : redemption'[t] = NoRedemption => redemption[t] = NoRedemption
  BY <1>2, <1>5, RedemptionFields
<1>9. TablesHold'
  BY <1>2, <1>5, <1>7, <1>8, PartnersParts DEF TablesHold
<1>10. TellersHold'
  BY <1>2, PartnersParts DEF TellersHold, TellerHolds
<1>11. ASSUME NEW h \in Tellers PROVE HasRoomFor(tcall[h])'
  <2>1. CASE tcall[h].at # "insert"
    BY <1>2, <2>1 DEF HasRoomFor
  <2>2. CASE tcall[h].at = "insert" /\ partner[tcall[h].code].max # 0
    <3>1. PICK k \in Codes : k = tcall[h].code
      BY <2>2, PartnersParts, TellerFields DEF TellersHold
    <3>2. Cardinality(Used(k)) < partner[k].max /\ partner[k].max \in Nat
      BY <2>2, <3>1, PartnersParts, PartnersAssumption DEF HasRoomFor, TablesHold, Partner
    <3>3. Cardinality(Used(k)') < partner[k].max
      BY <1>1, <1>7, <3>2
    <3> QED BY <1>2, <3>1, <3>3 DEF HasRoomFor
  <2>3. CASE partner[tcall[h].code].max = 0
    BY <1>2, <2>3 DEF HasRoomFor
  <2> QED BY <2>1, <2>2, <2>3
<1>12. ASSUME NEW t \in Groups PROVE ActiveDiscount(t)' \in {ActiveDiscount(t), 0}
  <2>1. CASE t = s
    BY <1>4, <1>5, <2>1 DEF ActiveDiscount
  <2>2. CASE t # s
    BY <1>5, <2>2 DEF ActiveDiscount
  <2> QED BY <2>1, <2>2
<1> QED BY <1>6, <1>7, <1>9, <1>10, <1>11, <1>12, PartnersParts

LEMMA PartnersStart == PartnersInit => PartnersInv
<1> SUFFICES ASSUME PartnersInit PROVE PartnersInv
  OBVIOUS
<1>1. /\ partner \in [Codes -> Partner]
      /\ redemption = [s \in Groups |-> NoRedemption] /\ redeemed = [s \in Groups |-> 0]
      /\ rowLock = [k \in Codes |-> NoOne] /\ tcall = [h \in Tellers |-> NoCall]
  BY DEF PartnersInit
<1>2. \A k \in Codes : Used(k) = {}
  BY <1>1, RedemptionFields DEF Used
<1>3. TablesHold
  BY <1>1, <1>2, FS_EmptySet DEF TablesHold
<1>4. NoCall \in TellerCall /\ NoCall.at = "idle"
  BY TellerPlaces DEF NoCall
<1>5. TellersHold /\ \A h \in Tellers : HasRoomFor(tcall[h])
  BY <1>1, <1>4, PartnersAssumption DEF TellersHold, TellerHolds, HasRoomFor
<1> QED BY <1>3, <1>5, PartnersParts

LEMMA PartnersStep == PartnersInv /\ [PartnersNext]_partnerVars => PartnersInv'
<1> SUFFICES ASSUME PartnersInv, [PartnersNext]_partnerVars PROVE PartnersInv'
  OBVIOUS
<1>1. CASE UNCHANGED partnerVars
  BY <1>1 DEF partnerVars, PartnersInv, PartnersTypeOK, TellerFits, Used
<1> QED
  BY <1>1, RedeemKeeps, LockKeeps, CheckKeeps, InsertRedemptionKeeps, AbortKeeps, PatchKeeps, RedemptionGoes
     DEF PartnersNext

(* What any step does to the uses of a code and to the terms of a space.    *)
LEMMA TermsStand ==
  ASSUME PartnersInv, [PartnersNext]_partnerVars
  PROVE  /\ \A k \in Codes : Cardinality(Used(k)') > Cardinality(Used(k)) /\ partner[k].max # 0
                             => Cardinality(Used(k)') <= partner[k].max
         /\ \A s \in Groups : ActiveDiscount(s) # 0 => ActiveDiscount(s)' \in {ActiveDiscount(s), 0}
<1>1. \A k \in Codes : Cardinality(Used(k)) \in Nat
  BY PartnersParts, FS_CardinalityType DEF TablesHold
<1>2. CASE UNCHANGED redemption
  <2>1. \A k \in Codes : Cardinality(Used(k)') = Cardinality(Used(k))
    BY <1>2 DEF Used
  <2>2. \A s \in Groups : ActiveDiscount(s)' = ActiveDiscount(s)
    BY <1>2 DEF ActiveDiscount
  <2> QED BY <1>1, <2>1, <2>2
<1>3. ASSUME NEW h \in Tellers, InsertRedemption(h)
      PROVE  \A s \in Groups : ActiveDiscount(s) # 0 => ActiveDiscount(s)' = ActiveDiscount(s)
  BY <1>3, InsertRedemptionKeeps DEF ActiveDiscount
<1>4. CASE \E h \in Tellers : InsertRedemption(h)
  BY <1>3, <1>4, InsertRedemptionKeeps
<1>5. CASE \E s \in Groups : RevokeRedemption(s) \/ RedemptionEnds(s)
  <2>1. PICK s \in Groups : RevokeRedemption(s) \/ RedemptionEnds(s)
    BY <1>5
  <2>2. /\ \A k \in Codes : Cardinality(Used(k)') <= Cardinality(Used(k))
        /\ \A t \in Groups : ActiveDiscount(t)' \in {ActiveDiscount(t), 0}
    BY <2>1, RedemptionGoes
  <2>3. \A k \in Codes : Cardinality(Used(k)') \in Nat
    BY <2>1, RedemptionGoes, FS_CardinalityType, PartnersParts DEF TablesHold
  <2>4. \A k \in Codes : ~(Cardinality(Used(k)') > Cardinality(Used(k)))
    BY <1>1, <2>2, <2>3
  <2> QED BY <2>2, <2>4
<1> QED
  BY <1>2, <1>4, <1>5
     DEF PartnersNext, partnerVars, RedeemForSpace, LockPartner, CheckCode, Abort, PatchPartner

(* A space redeems once, no code is redeemed beyond its limit, and terms do *)
(* not change: for any number of spaces, codes and requests, with edits and *)
(* revocations racing (partner.service.ts).                                 *)
THEOREM RedemptionsAreKept == PartnersSpec => RedemptionsHold
<1>1. PartnersInv => RedeemedOnce
  BY DEF PartnersInv, RedeemedOnce
<1>2. PartnersInv /\ [PartnersNext]_partnerVars
      => [\A k \in Codes : Cardinality(Used(k)') > Cardinality(Used(k)) /\ partner[k].max # 0
                           => Cardinality(Used(k)') <= partner[k].max]_partnerVars
  BY TermsStand
<1>3. PartnersInv /\ [PartnersNext]_partnerVars
      => [\A s \in Groups : ActiveDiscount(s) # 0 => ActiveDiscount(s)' \in {ActiveDiscount(s), 0}]_partnerVars
  BY TermsStand
<1> QED
  BY <1>1, <1>2, <1>3, PartnersStart, PartnersStep, PTL DEF PartnersSpec, RedemptionsHold, NeverOvershoots, TermsAreKept

-----------------------------------------------------------------------------
(* Voting                                                                  *)

Votes == {vc \in Voters \X Categories : pollVotes[vc] > 0}

VotesInv ==
    /\ OneVoteEach
    /\ TotalIsVotes
    /\ IsFiniteSet(Votes)

(* Whoever is about to show a total has the present one, a poll that was    *)
(* shown is closed, and nobody is about to vote in a closed one or to       *)
(* publish it, unless a vote or a publication was overtaken.                *)
ShownInv ==
    raced \cap {"late", "reopen"} = {} =>
        /\ \A n \in shown : poll.status = "closed" /\ n = poll.totalVotes
        /\ \A h \in Desks :
              /\ pcall[h].at = "auto" => pcall[h].total = poll.totalVotes
              /\ poll.status = "closed" => pcall[h].at \notin {"cast", "publish"}

(* An edit of the price.                                                    *)
Reprices(c) == c.at = "edit" /\ c.paid # "same"

(* Whoever is about to change the price read the draft: the poll has had no *)
(* votes and is not active, and nobody is about to vote, unless a           *)
(* publication overtook the edit.                                           *)
FreeInv ==
    "structure" \notin raced =>
        /\ poll.totalVotes > 0 => ~poll.paid
        /\ \A h \in Desks :
              /\ pcall[h].at = "cast" => ~poll.paid
              /\ Reprices(pcall[h]) => /\ poll.status # "active" /\ poll.totalVotes = 0
                                      /\ \A g \in Desks : pcall[g].at # "cast"

VotingInv ==
    /\ VotingTypeOK
    /\ VotesInv
    /\ poll.status = "draft" => \A h \in Desks : pcall[h].at # "cast"
    /\ ShownInv
    /\ FreeInv

LEMMA PollPlaces ==
  /\ AtDesk \in PollCall /\ AtDesk.at = "idle"
  /\ \A at \in {"publish", "close"} : [at |-> at] \in PollCall
  /\ \A paid \in Price, extend \in BOOLEAN : [at |-> "edit", paid |-> paid, extend |-> extend] \in PollCall
  /\ \A view \in BOOLEAN, n \in Nat : [at |-> "auto", view |-> view, total |-> n] \in PollCall
  /\ \A v \in Voters, choice \in SUBSET Categories, n \in 1..MaxQuantity :
        [at |-> "cast", voter |-> v, choice |-> choice, quantity |-> n] \in PollCall
  BY DEF PollCall, AtDesk

LEMMA PollCallFields ==
  \A c \in PollCall :
      /\ c.at \in {"idle", "publish", "close", "edit", "auto", "cast"}
      /\ c.at = "edit" => c.paid \in Price /\ c.extend \in BOOLEAN
      /\ c.at = "auto" => c.view \in BOOLEAN /\ c.total \in Nat
      /\ c.at = "cast" => c.voter \in Voters /\ c.choice \in SUBSET Categories /\ c.quantity \in 1..MaxQuantity
  BY DEF PollCall

LEMMA PollFields ==
  /\ \A p \in Poll : p.status \in {"draft", "active", "closed"} /\ p.paid \in BOOLEAN /\ p.past \in BOOLEAN /\ p.totalVotes \in Nat
  /\ \A p \in Poll, status \in {"draft", "active", "closed"} :
        /\ [p EXCEPT !.status = status] \in Poll /\ [p EXCEPT !.status = status].status = status
        /\ [p EXCEPT !.status = status].paid = p.paid /\ [p EXCEPT !.status = status].past = p.past
        /\ [p EXCEPT !.status = status].totalVotes = p.totalVotes
  BY DEF Poll

LEMMA PollMoves ==
  ASSUME VotingInv, NEW h \in Desks, NEW next \in PollCall, PollGoto(h, next)
  PROVE  pcall' \in [Desks -> PollCall] /\ pcall'[h] = next /\ \A g \in Desks \ {h} : pcall'[g] = pcall[g]
  BY DEF VotingInv, VotingTypeOK, PollGoto

(* A handler begins: nothing was overtaken yet.                             *)
LEMMA Begins ==
  ASSUME VotingInv, UNCHANGED <<poll, pollVotes, raced>>, raced = {},
         NEW h \in Desks, NEW next \in PollCall, PollGoto(h, next),
         shown' \subseteq Nat, \A n \in shown' : poll.status = "closed" /\ n = poll.totalVotes,
         next.at = "auto" => next.total = poll.totalVotes,
         next.at = "publish" => poll.status # "closed",
         next.at = "cast" => poll.status = "active" /\ ~poll.paid,
         Reprices(next) => poll.status = "draft"
  PROVE  VotingInv'
<1>1. pcall' \in [Desks -> PollCall] /\ pcall'[h] = next /\ \A g \in Desks \ {h} : pcall'[g] = pcall[g]
  BY PollMoves
<1>2. VotingTypeOK' /\ VotesInv'
  BY <1>1 DEF VotingInv, VotingTypeOK, VotesInv, OneVoteEach, TotalIsVotes, Votes
<1>3. poll.status = "draft" => poll.totalVotes = 0 /\ \A g \in Desks : pcall[g].at # "cast"
  BY DEF VotingInv, VotingTypeOK
<1>4. (poll.status = "draft" => \A g \in Desks : pcall[g].at # "cast")'
  BY <1>1, <1>3
<1>5. ShownInv'
  BY <1>1 DEF VotingInv, ShownInv
<1>6. FreeInv'
  <2>1. \A g \in Desks : pcall'[g].at = "cast" => ~poll.paid
    BY <1>1 DEF VotingInv, FreeInv
  <2>2. ASSUME NEW g \in Desks, Reprices(pcall'[g])
        PROVE  poll.status # "active" /\ poll.totalVotes = 0 /\ \A f \in Desks : pcall'[f].at # "cast"
    <3>1. CASE g = h
      BY <1>1, <1>3, <2>2, <3>1 DEF Reprices
    <3>2. CASE g # h
      <4>1. poll.status # "active" /\ poll.totalVotes = 0 /\ \A f \in Desks : pcall[f].at # "cast"
        BY <1>1, <2>2, <3>2 DEF VotingInv, FreeInv
      <4> QED BY <1>1, <4>1
    <3> QED BY <3>1, <3>2
  <2>3. poll.totalVotes > 0 => ~poll.paid
    BY DEF VotingInv, FreeInv
  <2>4. ASSUME NEW g \in Desks PROVE Reprices(pcall[g])' <=> Reprices(pcall'[g])
    BY DEF Reprices
  <2> QED BY <2>1, <2>2, <2>3, <2>4 DEF FreeInv
<1> QED BY <1>2, <1>4, <1>5, <1>6 DEF VotingInv

LEMMA DeskReads ==
  ASSUME VotingInv, NEW h \in Desks, PatchPoll(h) \/ PublishPoll(h) \/ ClosePoll(h) \/ Vote(h) \/ ViewPoll(h)
  PROVE  VotingInv'
<1>1. poll \in Poll /\ pcall \in [Desks -> PollCall] /\ shown \subseteq Nat /\ poll.totalVotes \in Nat
  BY PollFields DEF VotingInv, VotingTypeOK
<1>2. raced = {} => \A n \in shown : poll.status = "closed" /\ n = poll.totalVotes
  BY DEF VotingInv, ShownInv
<1>3. CASE PatchPoll(h)
  <2>1. PICK paid \in Price, extend \in BOOLEAN :
           (poll.status = "active" => paid = "same") /\ Sits(h, [at |-> "edit", paid |-> paid, extend |-> extend])
    BY <1>3 DEF PatchPoll
  <2> DEFINE next == [at |-> "edit", paid |-> paid, extend |-> extend]
  <2>2. next \in PollCall /\ next.at = "edit" /\ (Reprices(next) => poll.status = "draft")
    BY <1>1, <1>3, <2>1, PollPlaces, PollFields DEF PatchPoll, Reprices
  <2>3. raced = {} /\ PollGoto(h, next) /\ UNCHANGED <<poll, pollVotes, shown, raced>>
    BY <1>3, <2>1 DEF PatchPoll, Sits
  <2> HIDE DEF next
  <2> QED BY <1>1, <1>2, <2>2, <2>3, Begins
<1>4. CASE PublishPoll(h) \/ ClosePoll(h)
  <2>1. PICK at \in {"publish", "close"} : Sits(h, [at |-> at]) /\ poll.status # "closed" /\ UNCHANGED <<poll, pollVotes, shown, raced>>
    BY <1>4 DEF PublishPoll, ClosePoll
  <2> DEFINE next == [at |-> at]
  <2>2. next \in PollCall /\ next.at \in {"publish", "close"} /\ ~Reprices(next)
    BY PollPlaces DEF Reprices
  <2>3. raced = {} /\ PollGoto(h, next)
    BY <2>1 DEF Sits
  <2> HIDE DEF next
  <2> QED BY <1>1, <1>2, <2>1, <2>2, <2>3, Begins
<1>5. CASE Vote(h) /\ poll.past
  <2> DEFINE next == [at |-> "auto", view |-> FALSE, total |-> poll.totalVotes]
  <2>1. Sits(h, next) /\ UNCHANGED <<poll, pollVotes, shown, raced>>
    BY <1>5 DEF Vote
  <2>2. next \in PollCall /\ next.at = "auto" /\ next.total = poll.totalVotes /\ ~Reprices(next)
    BY <1>1, PollPlaces DEF Reprices
  <2>3. raced = {} /\ PollGoto(h, next)
    BY <2>1 DEF Sits
  <2> HIDE DEF next
  <2> QED BY <1>1, <1>2, <2>1, <2>2, <2>3, Begins
<1>6. CASE Vote(h) /\ ~poll.past
  <2>1. PICK v \in Voters, choice \in SUBSET Categories \ {{}}, n \in 1..MaxQuantity :
           Sits(h, [at |-> "cast", voter |-> v, choice |-> choice, quantity |-> n])
    BY <1>6 DEF Vote
  <2> DEFINE next == [at |-> "cast", voter |-> v, choice |-> choice, quantity |-> n]
  <2>2. next \in PollCall /\ next.at = "cast" /\ ~Reprices(next)
    BY PollPlaces DEF Reprices
  <2>3. raced = {} /\ PollGoto(h, next) /\ UNCHANGED <<poll, pollVotes, shown, raced>> /\ poll.status = "active" /\ ~poll.paid
    BY <1>6, <2>1 DEF Sits, Vote
  <2> HIDE DEF next
  <2> QED BY <1>1, <1>2, <2>2, <2>3, Begins
<1>7. CASE ViewPoll(h) /\ poll.status = "active" /\ poll.past
  <2> DEFINE next == [at |-> "auto", view |-> TRUE, total |-> poll.totalVotes]
  <2>1. Sits(h, next) /\ UNCHANGED <<poll, pollVotes, shown, raced>>
    BY <1>7 DEF ViewPoll
  <2>2. next \in PollCall /\ next.at = "auto" /\ next.total = poll.totalVotes /\ ~Reprices(next)
    BY <1>1, PollPlaces DEF Reprices
  <2>3. raced = {} /\ PollGoto(h, next)
    BY <2>1 DEF Sits
  <2> HIDE DEF next
  <2> QED BY <1>1, <1>2, <2>1, <2>2, <2>3, Begins
<1>8. CASE ViewPoll(h) /\ ~(poll.status = "active" /\ poll.past)
  <2>1. /\ pcall[h] = AtDesk /\ raced = {} /\ UNCHANGED <<poll, pollVotes, pcall, raced>>
        /\ shown' = IF poll.status = "closed" THEN shown \cup {poll.totalVotes} ELSE shown
    BY <1>8 DEF ViewPoll
  <2>2. PollGoto(h, AtDesk)
    BY <1>1, <2>1 DEF PollGoto
  <2>3. shown' \subseteq Nat /\ \A n \in shown' : poll.status = "closed" /\ n = poll.totalVotes
    BY <1>1, <1>2, <2>1
  <2>4. ~Reprices(AtDesk)
    BY PollPlaces DEF Reprices
  <2> QED BY <2>1, <2>2, <2>3, <2>4, PollPlaces, Begins
<1> QED BY <1>3, <1>4, <1>5, <1>6, <1>7, <1>8

(* A handler has written what does not count votes, and ends.               *)
LEMMA PatchWrites ==
  ASSUME VotingInv, NEW h \in Desks, WritePatch(h)
  PROVE  VotingInv'
<1>1. PICK c \in PollCall : c = pcall[h]
  BY DEF VotingInv, VotingTypeOK
<1>2. c.at = "edit" /\ PollGoto(h, AtDesk) /\ UNCHANGED <<pollVotes, shown, raced>>
  BY <1>1 DEF WritePatch
<1>3. pcall' \in [Desks -> PollCall] /\ pcall'[h] = AtDesk /\ \A g \in Desks \ {h} : pcall'[g] = pcall[g]
  BY <1>2, PollPlaces, PollMoves
<1>4. PICK p \in Poll : p = poll
  BY DEF VotingInv, VotingTypeOK
<1> DEFINE paid == IF c.paid = "same" THEN p.paid ELSE c.paid = "paid"
           past == p.past /\ ~c.extend
           q == [p EXCEPT !.paid = paid, !.past = past]
<1>5. paid \in BOOLEAN /\ (c.paid = "same" => paid = p.paid)
  BY PollFields
<1>6. past \in BOOLEAN
  BY PollFields
<1>7. poll' = q
  BY <1>1, <1>4 DEF WritePatch
<1> HIDE DEF paid, past
<1>8. q \in Poll /\ q.status = p.status /\ q.paid = paid /\ q.totalVotes = p.totalVotes
  BY <1>5, <1>6 DEF Poll
<1> HIDE DEF q
<1>9. poll' \in Poll /\ poll'.status = poll.status /\ poll'.totalVotes = poll.totalVotes
      /\ (c.paid = "same" => poll'.paid = poll.paid)
  BY <1>4, <1>5, <1>7, <1>8
<1>10. VotingTypeOK' /\ VotesInv' /\ (poll.status = "draft" => \A g \in Desks : pcall[g].at # "cast")'
  BY <1>2, <1>3, <1>9, PollPlaces DEF VotingInv, VotingTypeOK, VotesInv, OneVoteEach, TotalIsVotes, Votes
<1>11. ShownInv'
  BY <1>2, <1>3, <1>9, PollPlaces DEF VotingInv, ShownInv
<1>12. FreeInv'
  <2>1. ASSUME NEW g \in Desks, Reprices(pcall[g])' PROVE Reprices(pcall[g])
    BY <1>3, <2>1, PollPlaces DEF Reprices
  <2>2. \A g \in Desks : pcall'[g].at = "cast" => pcall[g].at = "cast"
    BY <1>3, PollPlaces
  <2>3. c.paid # "same" /\ "structure" \notin raced => poll.totalVotes = 0 /\ \A g \in Desks : pcall[g].at # "cast"
    BY <1>1, <1>2 DEF VotingInv, FreeInv, Reprices
  <2>4. poll.totalVotes \in Nat
    BY PollFields DEF VotingInv, VotingTypeOK
  <2> QED BY <1>2, <1>9, <2>1, <2>2, <2>3, <2>4 DEF VotingInv, FreeInv
<1> QED BY <1>10, <1>11, <1>12 DEF VotingInv

LEMMA PublishWrites ==
  ASSUME VotingInv, NEW h \in Desks, WritePublish(h)
  PROVE  VotingInv'
<1>1. pcall[h].at = "publish" /\ poll' = [poll EXCEPT !.status = "active"] /\ OvertakenBy(h, "structure", {"edit"})
      /\ PollGoto(h, AtDesk) /\ UNCHANGED <<pollVotes, shown>>
  BY DEF WritePublish
<1>2. pcall' \in [Desks -> PollCall] /\ pcall'[h] = AtDesk /\ \A g \in Desks \ {h} : pcall'[g] = pcall[g]
  BY <1>1, PollPlaces, PollMoves
<1>3. poll' \in Poll /\ poll'.status = "active" /\ poll'.totalVotes = poll.totalVotes /\ poll'.paid = poll.paid
  BY <1>1, PollFields DEF VotingInv, VotingTypeOK
<1>4. /\ raced' \subseteq Races /\ raced \subseteq raced' /\ raced' \subseteq raced \cup {"structure"}
      /\ "structure" \notin raced' => \A g \in Desks \ {h} : pcall[g].at # "edit"
  BY <1>1 DEF OvertakenBy, VotingInv, VotingTypeOK, Races
<1>5. VotingTypeOK' /\ VotesInv'
  BY <1>1, <1>2, <1>3, <1>4 DEF VotingInv, VotingTypeOK, VotesInv, OneVoteEach, TotalIsVotes, Votes
<1>6. ShownInv'
  <2>1. raced \cap {"late", "reopen"} = {} => shown = {}
    BY <1>1 DEF VotingInv, ShownInv
  <2> QED BY <1>1, <1>2, <1>3, <1>4, <2>1, PollPlaces DEF VotingInv, ShownInv
<1>7. FreeInv'
  <2>1. "structure" \notin raced' => \A g \in Desks : pcall'[g].at # "edit"
    BY <1>2, <1>4, PollPlaces
  <2>2. \A g \in Desks : pcall'[g].at = "cast" => pcall[g].at = "cast"
    BY <1>2, PollPlaces
  <2> QED BY <1>3, <1>4, <2>1, <2>2 DEF VotingInv, FreeInv, Reprices
<1> QED BY <1>3, <1>5, <1>6, <1>7 DEF VotingInv

(* The poll is closed by whichever route.                                   *)
LEMMA ClosesKeeps ==
  ASSUME VotingInv, NEW h \in Desks, Closes(h), PollGoto(h, AtDesk), UNCHANGED pollVotes,
         shown' = shown \/ (pcall[h].at = "auto" /\ shown' = shown \cup {pcall[h].total})
  PROVE  VotingInv'
<1>1. pcall' \in [Desks -> PollCall] /\ pcall'[h] = AtDesk /\ \A g \in Desks \ {h} : pcall'[g] = pcall[g]
  BY PollPlaces, PollMoves
<1>2. poll' \in Poll /\ poll'.status = "closed" /\ poll'.totalVotes = poll.totalVotes /\ poll'.paid = poll.paid
  BY PollFields DEF VotingInv, VotingTypeOK, Closes
<1>3. /\ raced' \subseteq Races /\ raced \subseteq raced' /\ ("structure" \in raced' => "structure" \in raced)
      /\ raced' \cap {"late", "reopen"} = {} => \A g \in Desks \ {h} : pcall[g].at \notin {"cast", "publish"}
  BY DEF Closes, VotingInv, VotingTypeOK, Races
<1>4. shown' \subseteq Nat
  BY PollCallFields DEF VotingInv, VotingTypeOK
<1>5. VotingTypeOK' /\ VotesInv'
  BY <1>1, <1>2, <1>3, <1>4 DEF VotingInv, VotingTypeOK, VotesInv, OneVoteEach, TotalIsVotes, Votes
<1>6. ShownInv'
  <2>1. raced' \cap {"late", "reopen"} = {} => \A n \in shown' : n = poll.totalVotes
    BY <1>3 DEF VotingInv, ShownInv
  <2> QED BY <1>1, <1>2, <1>3, <2>1, PollPlaces DEF VotingInv, ShownInv
<1>7. FreeInv'
  <2>1. ASSUME NEW g \in Desks, Reprices(pcall[g])' PROVE Reprices(pcall[g])
    BY <1>1, <2>1, PollPlaces DEF Reprices
  <2>2. \A g \in Desks : pcall'[g].at = "cast" => pcall[g].at = "cast"
    BY <1>1, PollPlaces
  <2> QED BY <1>2, <1>3, <2>1, <2>2 DEF VotingInv, FreeInv
<1> QED BY <1>2, <1>5, <1>6, <1>7 DEF VotingInv

LEMMA CloseWrites ==
  ASSUME VotingInv, NEW h \in Desks, WriteClose(h) \/ AutoClose(h) \/ ForceClose(h)
  PROVE  VotingInv'
<1>1. CASE WriteClose(h)
  BY <1>1, ClosesKeeps DEF WriteClose
<1>2. CASE AutoClose(h)
  BY <1>2, ClosesKeeps DEF AutoClose
<1>3. CASE ForceClose(h)
  <2>1. PollGoto(h, AtDesk)
    BY <1>3 DEF ForceClose, PollGoto, VotingInv, VotingTypeOK
  <2> QED BY <1>3, <2>1, ClosesKeeps DEF ForceClose
<1> QED BY <1>1, <1>2, <1>3

(* The votes of v in choice are new, and so many more are counted.          *)
LEMMA VotesCounted ==
  ASSUME VotingInv, NEW v \in Voters, NEW choice \in SUBSET Categories, ~HasVoted(v, choice), ApplyPollVotes(v, choice, 1)
  PROVE  /\ VotesInv' /\ pollVotes' \in Ballot /\ poll' \in Poll
         /\ poll'.status = poll.status /\ poll'.paid = poll.paid
<1>1. IsFiniteSet(choice) /\ Cardinality(choice) \in Nat
  BY VotingAssumption, FS_Subset, FS_CardinalityType
<1>2. /\ pollVotes \in [Voters \X Categories -> 0..(2 * MaxQuantity)] /\ poll \in Poll
      /\ \A vc \in Voters \X Categories : pollVotes[vc] <= 1
      /\ poll.totalVotes = Cardinality(Votes) /\ IsFiniteSet(Votes) /\ Cardinality(Votes) \in Nat
  BY FS_CardinalityType DEF VotingInv, VotingTypeOK, Ballot, VotesInv, OneVoteEach, TotalIsVotes, Votes
<1>3. ASSUME NEW vc \in Voters \X Categories, vc[1] = v, vc[2] \in choice PROVE pollVotes[vc] = 0
  <2>1. vc = <<v, vc[2]>>
    BY <1>3
  <2>2. ~(pollVotes[vc] > 0)
    BY <1>3, <2>1 DEF HasVoted
  <2> QED BY <1>2, <2>2
<1>4. /\ pollVotes' \in [Voters \X Categories -> 0..(2 * MaxQuantity)]
      /\ \A vc \in Voters \X Categories : pollVotes'[vc] = IF vc[1] = v /\ vc[2] \in choice THEN 1 ELSE pollVotes[vc]
  <2>1. pollVotes' = [vc \in Voters \X Categories |-> IF vc[1] = v /\ vc[2] \in choice THEN pollVotes[vc] + 1 ELSE pollVotes[vc]]
    BY DEF ApplyPollVotes
  <2>2. 1 \in 0..(2 * MaxQuantity)
    BY VotingAssumption
  <2> QED BY <1>2, <1>3, <2>1, <2>2
<1> DEFINE New == {v} \X choice
<1>5. IsFiniteSet(New) /\ Cardinality(New) = Cardinality(choice)
  <2>1. IsFiniteSet({v}) /\ Cardinality({v}) = 1
    BY FS_Singleton
  <2>2. IsFiniteSet({v} \X choice) /\ Cardinality({v} \X choice) = Cardinality({v}) * Cardinality(choice)
    BY <1>1, <2>1, FS_Product
  <2> QED BY <1>1, <2>1, <2>2
<1>6. Votes' = Votes \cup New /\ Votes \cap New = {}
  <2>1. \A vc \in Voters \X Categories : vc \in New <=> vc[1] = v /\ vc[2] \in choice
    OBVIOUS
  <2>2. New \subseteq Voters \X Categories
    OBVIOUS
  <2> HIDE DEF New
  <2> QED BY <1>2, <1>3, <1>4, <2>1, <2>2 DEF Votes
<1> HIDE DEF New
<1>7. IsFiniteSet(Votes') /\ Cardinality(Votes') = Cardinality(Votes) + Cardinality(choice)
  <2>1. IsFiniteSet(Votes \cup New) /\ Cardinality(Votes \cup New) = Cardinality(Votes) + Cardinality(New) - Cardinality(Votes \cap New)
    BY <1>2, <1>5, FS_Union
  <2>2. Cardinality(Votes \cap New) = 0
    BY <1>6, FS_EmptySet
  <2> QED BY <1>1, <1>2, <1>5, <1>6, <2>1, <2>2
<1>8. poll' = [poll EXCEPT !.totalVotes = poll.totalVotes + Cardinality(choice)]
  BY <1>1 DEF ApplyPollVotes
<1>9. poll' \in Poll /\ poll'.status = poll.status /\ poll'.paid = poll.paid
      /\ poll'.totalVotes = poll.totalVotes + Cardinality(choice)
  <2>1. poll.totalVotes + Cardinality(choice) \in Nat
    BY <1>1, <1>2
  <2> QED BY <1>2, <1>8, <2>1 DEF Poll
<1>10. OneVoteEach'
  BY <1>2, <1>4 DEF OneVoteEach
<1>11. TotalIsVotes'
  BY <1>2, <1>7, <1>9 DEF TotalIsVotes, Votes
<1> QED BY <1>4, <1>7, <1>9, <1>10, <1>11 DEF VotesInv, Ballot

LEMMA CastKeeps ==
  ASSUME VotingInv, NEW h \in Desks, CastVote(h)
  PROVE  VotingInv'
<1>1. PICK c \in PollCall : c = pcall[h]
  BY DEF VotingInv, VotingTypeOK
<1>2. c.at = "cast" /\ OvertakenBy(h, "late", {"auto"}) /\ PollGoto(h, AtDesk) /\ UNCHANGED shown
  BY <1>1 DEF CastVote
<1>3. c.voter \in Voters /\ c.choice \in SUBSET Categories
  BY <1>2, PollCallFields
<1>4. pcall' \in [Desks -> PollCall] /\ pcall'[h] = AtDesk /\ \A g \in Desks \ {h} : pcall'[g] = pcall[g]
  BY <1>2, PollPlaces, PollMoves
<1>5. /\ VotesInv' /\ pollVotes' \in Ballot /\ poll' \in Poll
      /\ poll'.status = poll.status /\ poll'.paid = poll.paid
  <2>1. CASE HasVoted(c.voter, c.choice)
    <3>1. UNCHANGED <<poll, pollVotes>>
      BY <1>1, <2>1 DEF CastVote
    <3> QED BY <3>1 DEF VotingInv, VotingTypeOK, VotesInv, OneVoteEach, TotalIsVotes, Votes
  <2>2. CASE ~HasVoted(c.voter, c.choice)
    <3>1. ApplyPollVotes(c.voter, c.choice, 1)
      BY <1>1, <2>2 DEF CastVote, Counted
    <3> QED BY <1>3, <2>2, <3>1, VotesCounted
  <2> QED BY <2>1, <2>2
<1>6. /\ raced' \subseteq Races /\ raced \subseteq raced' /\ raced' \subseteq raced \cup {"late"}
      /\ "late" \notin raced' => \A g \in Desks \ {h} : pcall[g].at # "auto"
  BY <1>2 DEF OvertakenBy, VotingInv, VotingTypeOK, Races
<1>7. poll.status # "draft"
  BY <1>1, <1>2 DEF VotingInv
<1>8. VotingTypeOK'
  BY <1>2, <1>4, <1>5, <1>6, <1>7 DEF VotingInv, VotingTypeOK
<1>9. ShownInv'
  <2>1. raced \cap {"late", "reopen"} = {} => poll.status # "closed" /\ shown = {}
    BY <1>1, <1>2 DEF VotingInv, ShownInv
  <2>2. raced' \cap {"late", "reopen"} = {} => \A g \in Desks : pcall'[g].at # "auto"
    BY <1>4, <1>6, PollPlaces
  <2> QED BY <1>2, <1>5, <1>6, <2>1, <2>2 DEF ShownInv
<1>10. FreeInv'
  <2>1. "structure" \notin raced => ~poll.paid /\ \A g \in Desks : ~Reprices(pcall[g])
    BY <1>1, <1>2 DEF VotingInv, FreeInv
  <2>2. ASSUME NEW g \in Desks, Reprices(pcall[g])' PROVE Reprices(pcall[g])
    BY <1>4, <2>2, PollPlaces DEF Reprices
  <2> QED BY <1>5, <1>6, <2>1, <2>2 DEF FreeInv
<1> QED BY <1>5, <1>7, <1>8, <1>9, <1>10 DEF VotingInv

LEMMA VotingStart == VotingInit => VotingInv
<1> SUFFICES ASSUME VotingInit PROVE VotingInv
  OBVIOUS
<1>1. /\ pollVotes = [vc \in Voters \X Categories |-> 0] /\ pcall = [h \in Desks |-> AtDesk] /\ shown = {} /\ raced = {}
      /\ poll.totalVotes = 0
  BY DEF VotingInit
<1>2. poll \in Poll
  BY DEF VotingInit, Poll
<1>3. 0 \in 0..(2 * MaxQuantity) /\ 0 <= 1 /\ ~(0 > 0)
  BY VotingAssumption
<1>4. Votes = {} /\ OneVoteEach /\ pollVotes \in Ballot
  BY <1>1, <1>3 DEF Votes, OneVoteEach, Ballot
<1>5. VotesInv
  BY <1>1, <1>4, FS_EmptySet DEF VotesInv, TotalIsVotes, Votes
<1> QED BY <1>1, <1>2, <1>4, <1>5, PollPlaces DEF VotingInv, VotingTypeOK, ShownInv, FreeInv, Reprices

LEMMA VotingStep == VotingInv /\ [VotingNext]_pollVars => VotingInv'
<1> SUFFICES ASSUME VotingInv, [VotingNext]_pollVars PROVE VotingInv'
  OBVIOUS
<1>1. CASE UNCHANGED pollVars
  BY <1>1 DEF pollVars, VotingInv, VotingTypeOK, VotesInv, OneVoteEach, TotalIsVotes, Votes, ShownInv, FreeInv, Reprices
<1>2. CASE DeadlinePasses
  <2>1. poll' = [poll EXCEPT !.past = TRUE] /\ UNCHANGED <<pollVotes, pcall, shown, raced>>
    BY <1>2 DEF DeadlinePasses
  <2>2. poll' \in Poll /\ poll'.status = poll.status /\ poll'.paid = poll.paid /\ poll'.totalVotes = poll.totalVotes
    BY <2>1 DEF Poll, VotingInv, VotingTypeOK
  <2> QED
    BY <2>1, <2>2 DEF VotingInv, VotingTypeOK, VotesInv, OneVoteEach, TotalIsVotes, Votes, ShownInv, FreeInv, Reprices
<1> QED BY <1>1, <1>2, DeskReads, PatchWrites, PublishWrites, CloseWrites, CastKeeps DEF VotingNext

(* One vote a voter and category, counted in full, no tally shown before it *)
(* is final and no free vote in a poll that is paid for: with any number of *)
(* voters, categories and requests (poll.service.ts, polls.ts).             *)
THEOREM PollStaysFair == VotingSpec => []PollIsFair
<1>1. VotingInv => PollIsFair
  BY DEF VotingInv, VotesInv, ShownInv, FreeInv, PollIsFair, ShownIsFinal, VotesAreFree
<1> QED BY <1>1, VotingStart, VotingStep, PTL DEF VotingSpec

-----------------------------------------------------------------------------
(* Onboarding                                                              *)

Busy == {h \in Reps : rcall[h] # RepIdle}

(* Without an overlap one handler runs, and never three.                    *)
TwoAtMost ==
    /\ ~hist.overlap => \A g, h \in Busy : g = h
    /\ \A f, g, h \in Busy : f = g \/ g = h \/ f = h

(* The card a submission has stored, or one to be discarded.                *)
New(c) == IF c.at \in {"find", "send", "write", "card"} THEN {c.f} ELSE {}

Old(c) == IF c.at \in {"store", "find", "send", "write", "card"} THEN {c.old} ELSE {}

Doomed(c) == IF c.at = "discard" THEN {c.f} ELSE {}

(* The card a submission has stored is there, and nobody else's: it is not  *)
(* on the row, no other request has it, replaces it or is about to discard  *)
(* it.  No request is about to discard the card on the row.                 *)
CardsInv ==
    /\ row.studentIdFile # NoFile => row.studentIdFile \in stored
    /\ \A h \in Reps :
          /\ New(rcall[h]) \subseteq stored \ ({row.studentIdFile} \cup Old(rcall[h]))
          /\ row.studentIdFile \notin Doomed(rcall[h])
          /\ \A g \in Reps \ {h} :
                New(rcall[h]) \cap (New(rcall[g]) \cup Old(rcall[g]) \cup Doomed(rcall[g])) = {}

(* A person is about to be added to the account although there may be one.  *)
Adds(h) == rcall[h].at = "send" /\ ~rcall[h].found

PersonsInv ==
    /\ bachs.persons # 0 => \A g, h \in Reps : Adds(g) /\ Adds(h) => g = h
    /\ bachs.persons = 2 => \A h \in Reps : ~Adds(h)

(* What holds of the handlers in any case: a card that is reviewed exists,  *)
(* and a refusal is counted within the bound.                               *)
RepFits(c) ==
    /\ c.at = "failed" => c.attempts < MaxRefusals
    /\ c.at = "review" \/ (c.at = "approve" /\ c.pendingCard) => row.studentId # "none"

(* And while they do not overlap: what a handler has read is still so.      *)
Current(c) ==
    /\ c.at = "send" /\ ~c.found => bachs.persons = 0
    /\ c.at \in {"store", "find", "send", "failed"} => hist.refusals <= c.attempts
    /\ c.at \in {"ask", "apply"} =>
          /\ hist.refusals <= c.read.kycAttempts
          /\ row.kycStatus = c.read.kycStatus /\ row.payoutsActive = c.read.payoutsActive
    /\ c.at \in {"write", "apply"} /\ ~event => c.verdict = bachs.verdict /\ c.payouts = bachs.payouts
    /\ c.at \in {"review", "approve"} => hist.seen = row.studentIdFile
    /\ c.at = "approve" => row.application = "pending"

(* The row says what Bachs says, unless somebody is about to ask.           *)
FollowsInv ==
    (/\ ~event /\ row.person /\ hist.last = "bachs"
     /\ \A h \in Reps : rcall[h].at \notin {"refresh", "ask", "apply"})
        => row.kycStatus = bachs.verdict /\ row.payoutsActive = bachs.payouts

AloneInv ==
    ~hist.overlap =>
        /\ \A h \in Reps : Current(rcall[h])
        /\ FollowsInv
        /\ bachs.persons <= 1
        /\ row.spaces <= 1
        /\ hist.refusals <= row.kycAttempts
        /\ row.studentId = "approved" => row.studentIdFile = hist.seen

OnboardingInv ==
    /\ OnboardingTypeOK
    /\ TwoAtMost
    /\ CardsInv
    /\ PersonsInv
    /\ \A h \in Reps : RepFits(rcall[h])
    /\ row.application = "pending" => row.spaces = 0
    /\ AloneInv

MaybeFile == Files \cup {NoFile}

Attempts == 0..MaxRefusals

LEMMA RepPlaces ==
  /\ \A at \in {"idle", "refresh", "reject"} : [at |-> at] \in RepCall
  /\ \A what \in {"kyc", "card"}, old \in MaybeFile, n \in Attempts, found \in BOOLEAN :
        [at |-> "store", what |-> what, old |-> old, attempts |-> n, found |-> found] \in RepCall
  /\ \A at \in {"find", "send"}, f \in Files, old \in MaybeFile, n \in Attempts, found \in BOOLEAN :
        [at |-> at, f |-> f, old |-> old, attempts |-> n, found |-> found] \in RepCall
  /\ \A n \in Attempts : [at |-> "failed", attempts |-> n] \in RepCall
  /\ \A f \in Files, old \in MaybeFile, v \in Verdicts, p \in BOOLEAN :
        [at |-> "write", f |-> f, old |-> old, verdict |-> v, payouts |-> p] \in RepCall
  /\ \A f \in Files, old \in MaybeFile : [at |-> "card", f |-> f, old |-> old] \in RepCall
  /\ \A f \in Files : [at |-> "discard", f |-> f] \in RepCall
  /\ \A read \in Read : [at |-> "ask", read |-> read] \in RepCall
  /\ \A read \in Read, v \in Verdicts, p \in BOOLEAN :
        [at |-> "apply", read |-> read, verdict |-> v, payouts |-> p] \in RepCall
  /\ \A d \in {"approved", "rejected"} : [at |-> "review", decision |-> d] \in RepCall
  /\ \A b \in BOOLEAN : [at |-> "approve", pendingCard |-> b] \in RepCall
<1> USE DEF MaybeFile, Attempts
<1>1. /\ \A at \in {"idle", "refresh", "reject"} : [at |-> at] \in RepCall
      /\ \A n \in Attempts : [at |-> "failed", attempts |-> n] \in RepCall
      /\ \A f \in Files : [at |-> "discard", f |-> f] \in RepCall
      /\ \A d \in {"approved", "rejected"} : [at |-> "review", decision |-> d] \in RepCall
      /\ \A b \in BOOLEAN : [at |-> "approve", pendingCard |-> b] \in RepCall
  BY DEF RepCall
<1>2. \A what \in {"kyc", "card"}, old \in MaybeFile, n \in Attempts, found \in BOOLEAN :
        [at |-> "store", what |-> what, old |-> old, attempts |-> n, found |-> found] \in RepCall
  BY DEF RepCall
<1>3. \A at \in {"find", "send"}, f \in Files, old \in MaybeFile, n \in Attempts, found \in BOOLEAN :
        [at |-> at, f |-> f, old |-> old, attempts |-> n, found |-> found] \in RepCall
  BY DEF RepCall
<1>4. /\ \A f \in Files, old \in MaybeFile, v \in Verdicts, p \in BOOLEAN :
            [at |-> "write", f |-> f, old |-> old, verdict |-> v, payouts |-> p] \in RepCall
      /\ \A f \in Files, old \in MaybeFile : [at |-> "card", f |-> f, old |-> old] \in RepCall
  BY DEF RepCall
<1>5. /\ \A read \in Read : [at |-> "ask", read |-> read] \in RepCall
      /\ \A read \in Read, v \in Verdicts, p \in BOOLEAN :
            [at |-> "apply", read |-> read, verdict |-> v, payouts |-> p] \in RepCall
  BY DEF RepCall
<1> QED BY <1>1, <1>2, <1>3, <1>4, <1>5

LEMMA RepFields ==
  ASSUME NEW c \in RepCall
  PROVE  /\ c.at \in {"idle", "refresh", "reject", "store", "find", "send", "failed", "write", "card", "discard",
                      "ask", "apply", "review", "approve"}
         /\ c.at = "store" => c.what \in {"kyc", "card"}
         /\ c.at \in {"store", "find", "send"} => c.found \in BOOLEAN
         /\ c.at \in {"store", "find", "send", "failed"} => c.attempts \in Attempts
         /\ c.at \in {"store", "find", "send", "write", "card"} => c.old \in MaybeFile
         /\ c.at \in {"find", "send", "write", "card", "discard"} => c.f \in Files
         /\ c.at \in {"write", "apply"} => c.verdict \in Verdicts /\ c.payouts \in BOOLEAN
         /\ c.at \in {"ask", "apply"} => c.read \in Read
         /\ c.at = "review" => c.decision \in {"approved", "rejected"}
         /\ c.at = "approve" => c.pendingCard \in BOOLEAN
  BY DEF RepCall, MaybeFile, Attempts

LEMMA RepDomain ==
  ASSUME NEW c \in RepCall
  PROVE  /\ c.at \in {"find", "send", "write", "card", "discard"} => "f" \in DOMAIN c
         /\ c.at \in {"store", "find", "send", "write", "card"} => "old" \in DOMAIN c
         /\ c # RepIdle => c.at # "idle"
  BY DEF RepCall, RepIdle

LEMMA IdleHasNothing ==
  /\ RepIdle \in RepCall /\ RepIdle.at = "idle"
  /\ New(RepIdle) = {} /\ Old(RepIdle) = {} /\ Doomed(RepIdle) = {}
  /\ RepFits(RepIdle) /\ RepFits(RepIdle)' /\ Current(RepIdle) /\ Current(RepIdle)'
<1>1. RepIdle \in RepCall /\ RepIdle.at = "idle"
  BY RepPlaces DEF RepIdle
<1> QED BY <1>1 DEF New, Old, Doomed, RepFits, Current

LEMMA OnboardingTypes ==
  ASSUME OnboardingInv
  PROVE  /\ row \in Row /\ bachs \in Bachs /\ event \in BOOLEAN /\ stored \subseteq Files
         /\ rcall \in [Reps -> RepCall] /\ hist \in Hist
         /\ row.studentId = "none" <=> row.studentIdFile = NoFile
  BY DEF OnboardingInv, OnboardingTypeOK

LEMMA RowFields ==
  ASSUME NEW r \in Row
  PROVE  /\ r.application \in {"pending", "approved", "rejected"} /\ r.isRep \in BOOLEAN /\ r.spaces \in 0..2
         /\ r.kycStatus \in Verdicts \cup {"unverified"} /\ r.person \in BOOLEAN /\ r.payoutsActive \in BOOLEAN
         /\ r.kycAttempts \in Attempts /\ r.locked \in BOOLEAN
         /\ r.studentId \in {"none", "pending", "approved", "rejected"} /\ r.studentIdFile \in MaybeFile
  BY DEF Row, Attempts, MaybeFile

LEMMA HistFields ==
  ASSUME NEW x \in Hist
  PROVE  /\ x.overlap \in BOOLEAN /\ x.seen \in MaybeFile /\ x.last \in {"bachs", "refusal", "admin"}
         /\ x.refusals \in Attempts
  BY DEF Hist, Attempts, MaybeFile

LEMMA BachsFields ==
  ASSUME NEW x \in Bachs
  PROVE  x.persons \in 0..2 /\ x.verdict \in Verdicts /\ x.payouts \in BOOLEAN
  BY DEF Bachs

(* A handler that is not alone overlaps.                                    *)
LEMMA OthersIdle ==
  ASSUME OnboardingInv, ~hist.overlap, NEW h \in Reps, rcall[h] # RepIdle
  PROVE  \A g \in Reps \ {h} : rcall[g] = RepIdle
  BY DEF OnboardingInv, TwoAtMost, Busy

LEMMA RepMoves ==
  ASSUME OnboardingInv, NEW h \in Reps, NEW next \in RepCall, RepGoto(h, next)
  PROVE  rcall' \in [Reps -> RepCall] /\ rcall'[h] = next /\ \A g \in Reps \ {h} : rcall'[g] = rcall[g]
  BY OnboardingTypes DEF RepGoto

(* What a file that is not referenced is not, and one that is.              *)
LEMMA ReferencedFiles ==
  ASSUME OnboardingInv, NEW R \in SUBSET Reps
  PROVE  /\ row.studentIdFile \in Referenced(R)
         /\ \A g \in R : New(rcall[g]) \cup Old(rcall[g]) \cup Doomed(rcall[g]) \subseteq Referenced(R)
<1>1. ASSUME NEW g \in R, NEW x \in {"f", "old"} \cap DOMAIN rcall[g]
      PROVE  rcall[g][x] \in Referenced(R)
  BY DEF Referenced
<1>2. ASSUME NEW g \in R PROVE New(rcall[g]) \cup Old(rcall[g]) \cup Doomed(rcall[g]) \subseteq Referenced(R)
  <2>1. PICK c \in RepCall : c = rcall[g]
    BY OnboardingTypes
  <2>2. /\ c.at \in {"find", "send", "write", "card", "discard"} => c.f \in Referenced(R)
        /\ c.at \in {"store", "find", "send", "write", "card"} => c.old \in Referenced(R)
    BY <1>1, <2>1, RepDomain
  <2> QED BY <2>1, <2>2 DEF New, Old, Doomed
<1> QED BY <1>2 DEF Referenced

(* A request moves on with no card it did not have, and the row with none   *)
(* but its own.                                                             *)
LEMMA CardsStep ==
  ASSUME OnboardingInv, NEW h \in Reps, NEW c \in RepCall, c = rcall[h], NEW next \in RepCall, RepGoto(h, next),
         New(next) \subseteq New(c), Old(next) \subseteq Old(c), Doomed(next) \subseteq New(c) \cup Old(c) \cup Doomed(c),
         row'.studentIdFile \in {row.studentIdFile} \cup New(c),
         row'.studentIdFile \notin New(next) \cup Doomed(next),
         row'.studentIdFile # NoFile => row'.studentIdFile \in stored',
         New(next) \subseteq stored', \A g \in Reps \ {h} : New(rcall[g]) \subseteq stored'
  PROVE  CardsInv'
<1>1. rcall' \in [Reps -> RepCall] /\ rcall'[h] = next /\ \A g \in Reps \ {h} : rcall'[g] = rcall[g]
  BY RepMoves
<1>2. /\ New(c) \cap ({row.studentIdFile} \cup Old(c)) = {} /\ row.studentIdFile \notin Doomed(c)
      /\ \A g \in Reps \ {h} :
            /\ New(rcall[g]) \cap ({row.studentIdFile} \cup Old(rcall[g])) = {} /\ row.studentIdFile \notin Doomed(rcall[g])
            /\ New(c) \cap (New(rcall[g]) \cup Old(rcall[g]) \cup Doomed(rcall[g])) = {}
            /\ New(rcall[g]) \cap (New(c) \cup Old(c) \cup Doomed(c)) = {}
  BY DEF OnboardingInv, CardsInv
<1>3. ASSUME NEW g \in Reps
      PROVE  /\ New(rcall'[g]) \subseteq stored' \ ({row'.studentIdFile} \cup Old(rcall'[g]))
             /\ row'.studentIdFile \notin Doomed(rcall'[g])
  <2>1. CASE g = h
    BY <1>1, <1>2, <2>1
  <2>2. CASE g # h
    BY <1>1, <1>2, <2>2
  <2> QED BY <2>1, <2>2
<1>4. ASSUME NEW f \in Reps, NEW g \in Reps \ {f}
      PROVE  New(rcall'[f]) \cap (New(rcall'[g]) \cup Old(rcall'[g]) \cup Doomed(rcall'[g])) = {}
  <2>1. CASE f = h
    BY <1>1, <1>2, <2>1
  <2>2. CASE g = h
    BY <1>1, <1>2, <2>2
  <2>3. CASE f # h /\ g # h
    BY <1>1, <2>3 DEF OnboardingInv, CardsInv
  <2> QED BY <2>1, <2>2, <2>3
<1> QED BY <1>3, <1>4 DEF CardsInv, New, Old, Doomed

(* No person is added, or is about to be that was not.                      *)
LEMMA PersonsStep ==
  ASSUME OnboardingInv, NEW h \in Reps, NEW next \in RepCall, RepGoto(h, next), bachs'.persons = bachs.persons,
         next.at = "send" => next.found
  PROVE  PersonsInv'
<1>1. rcall' \in [Reps -> RepCall] /\ rcall'[h] = next /\ \A g \in Reps \ {h} : rcall'[g] = rcall[g]
  BY RepMoves
<1>2. \A g \in Reps : Adds(g)' => Adds(g)
  BY <1>1 DEF Adds
<1> QED BY <1>2 DEF OnboardingInv, PersonsInv

(* What the row says is what Bachs says.                                    *)
Match == row.kycStatus = bachs.verdict /\ row.payoutsActive = bachs.payouts

(* All that a step of one handler has to keep.                              *)
LEMMA StepKeeps ==
  ASSUME OnboardingInv, NEW h \in Reps, NEW c \in RepCall, c = rcall[h], c # RepIdle, NEW next \in RepCall, RepGoto(h, next),
         row' \in Row, bachs' \in Bachs, event' \in BOOLEAN, stored' \subseteq Files, hist' \in Hist,
         hist'.overlap = hist.overlap,
         row'.studentId = "none" <=> row'.studentIdFile = NoFile,
         row.studentId # "none" => row'.studentId # "none",
         row'.application = "pending" => row'.spaces = 0,
         CardsInv', PersonsInv', RepFits(next)',
         ~hist.overlap =>
            /\ Current(next)'
            /\ next.at \notin {"refresh", "ask", "apply"} /\ ~event' /\ row'.person /\ hist'.last = "bachs" => Match'
            /\ bachs'.persons <= 1 /\ row'.spaces <= 1 /\ hist'.refusals <= row'.kycAttempts
            /\ row'.studentId = "approved" => row'.studentIdFile = hist'.seen
  PROVE  OnboardingInv'
<1>1. rcall' \in [Reps -> RepCall] /\ rcall'[h] = next /\ \A g \in Reps \ {h} : rcall'[g] = rcall[g]
  BY RepMoves
<1>2. OnboardingTypeOK'
  BY <1>1 DEF OnboardingTypeOK
<1>3. TwoAtMost'
  <2>1. Busy' \subseteq Busy
    BY <1>1 DEF Busy
  <2> QED BY <2>1 DEF OnboardingInv, TwoAtMost
<1>4. (\A g \in Reps : RepFits(rcall[g]))'
  <2>1. ASSUME NEW g \in Reps, g # h PROVE RepFits(rcall[g])'
    <3>1. RepFits(rcall[g]) /\ rcall'[g] = rcall[g]
      BY <1>1, <2>1 DEF OnboardingInv
    <3> QED BY <3>1 DEF RepFits
  <2>2. RepFits(rcall[h])'
    BY <1>1 DEF RepFits
  <2> QED BY <2>1, <2>2
<1>5. AloneInv'
  <2> SUFFICES ASSUME ~hist'.overlap PROVE AloneInv'
    BY DEF AloneInv
  <2>1. \A g \in Reps \ {h} : rcall'[g] = RepIdle
    BY <1>1, OthersIdle
  <2>2. (\A g \in Reps : Current(rcall[g]))'
    BY <1>1, <2>1, IdleHasNothing DEF Current
  <2>3. FollowsInv'
    BY <1>1 DEF FollowsInv, Match
  <2> QED BY <2>2, <2>3 DEF AloneInv
<1> QED BY <1>2, <1>3, <1>4, <1>5 DEF OnboardingInv

(* What StepKeeps asks for, where the row, Bachs, the files and the history *)
(* stay and the handler has no card it did not have.                        *)
LEMMA QuietKeeps ==
  ASSUME OnboardingInv, NEW h \in Reps, NEW c \in RepCall, c = rcall[h], c # RepIdle, NEW next \in RepCall, RepGoto(h, next),
         UNCHANGED <<row, bachs, event, stored, hist>>, PersonsInv', RepFits(next),
         New(next) \subseteq New(c), Old(next) \subseteq Old(c), Doomed(next) \subseteq New(c) \cup Doomed(c),
         ~hist.overlap =>
            /\ Current(next)
            /\ next.at \notin {"refresh", "ask", "apply"} /\ ~event /\ row.person /\ hist.last = "bachs" => Match
  PROVE  OnboardingInv'
<1>1. RepFits(next)' /\ (~hist.overlap => Current(next)')
  BY DEF RepFits, Current
<1>2. /\ New(c) \cap {row.studentIdFile} = {} /\ row.studentIdFile \notin Doomed(c)
      /\ row.studentIdFile # NoFile => row.studentIdFile \in stored
      /\ \A g \in Reps : New(rcall[g]) \subseteq stored
  BY DEF OnboardingInv, CardsInv
<1>3. CardsInv'
  BY <1>2, CardsStep
<1> QED BY <1>1, <1>3, OnboardingTypes, StepKeeps DEF OnboardingInv, AloneInv, Match

LEMMA FindKeeps ==
  ASSUME OnboardingInv, NEW h \in Reps, FindRepresentative(h)
  PROVE  OnboardingInv'
<1>1. PICK c \in RepCall : c = rcall[h]
  BY OnboardingTypes
<1> DEFINE found == c.found \/ bachs.persons > 0
           next == [c EXCEPT !.at = "send", !.found = found]
<1>2. c.at = "find" /\ RepGoto(h, next) /\ UNCHANGED <<row, bachs, event, stored, hist>>
  BY <1>1 DEF FindRepresentative
<1>3. found \in BOOLEAN
  BY <1>2, RepFields
<1>4. ~found => bachs.persons = 0
  BY OnboardingTypes, BachsFields
<1> HIDE DEF found
<1>5. c \in [at : {"find", "send"}, f : Files, old : Files \cup {NoFile}, attempts : 0..MaxRefusals, found : BOOLEAN]
  BY <1>2 DEF RepCall
<1>6. next \in [at : {"find", "send"}, f : Files, old : Files \cup {NoFile}, attempts : 0..MaxRefusals, found : BOOLEAN]
      /\ next.at = "send" /\ next.found = found /\ next.f = c.f /\ next.old = c.old /\ next.attempts = c.attempts
  BY <1>3, <1>5
<1>7. next \in RepCall
  BY <1>6 DEF RepCall
<1> HIDE DEF next
<1>8. c # RepIdle
  BY <1>2 DEF RepIdle
<1>9. PersonsInv'
  <2>1. rcall' \in [Reps -> RepCall] /\ rcall'[h] = next /\ \A g \in Reps \ {h} : rcall'[g] = rcall[g]
    BY <1>2, <1>7, RepMoves
  <2>2. CASE found
    BY <1>2, <1>6, <1>7, <2>2, PersonsStep
  <2>3. CASE ~found
    BY <1>2, <1>4, <2>3 DEF PersonsInv
  <2> QED BY <2>2, <2>3
<1>10. New(next) = New(c) /\ Old(next) = Old(c) /\ Doomed(next) = {} /\ RepFits(next)
  BY <1>2, <1>6 DEF New, Old, Doomed, RepFits
<1>11. ~hist.overlap => /\ Current(next)
                        /\ ~event /\ row.person /\ hist.last = "bachs" => Match
  <2> SUFFICES ASSUME ~hist.overlap PROVE Current(next) /\ (~event /\ row.person /\ hist.last = "bachs" => Match)
    OBVIOUS
  <2>1. Current(c) /\ FollowsInv
    BY <1>1 DEF OnboardingInv, AloneInv
  <2>2. \A g \in Reps : rcall[g].at \notin {"refresh", "ask", "apply"}
    BY <1>1, <1>2, <1>8, OthersIdle, IdleHasNothing
  <2> QED BY <1>2, <1>4, <1>6, <2>1, <2>2 DEF Current, FollowsInv, Match
<1> QED BY <1>1, <1>2, <1>7, <1>8, <1>9, <1>10, <1>11, QuietKeeps

(* A handler that ends here leaves nothing behind.                          *)
LEMMA EndsKeeps ==
  ASSUME OnboardingInv, NEW h \in Reps, rcall[h] # RepIdle, RepGoto(h, RepIdle),
         UNCHANGED <<row, bachs, event, stored, hist>>,
         ~hist.overlap /\ ~event /\ row.person /\ hist.last = "bachs" => Match
  PROVE  OnboardingInv'
<1>1. PICK c \in RepCall : c = rcall[h]
  BY OnboardingTypes
<1>2. PersonsInv'
  BY PersonsStep, IdleHasNothing
<1> QED BY <1>1, <1>2, IdleHasNothing, QuietKeeps

(* While a lone handler is elsewhere, the row and Bachs agree.              *)
LEMMA MatchElsewhere ==
  ASSUME OnboardingInv, NEW h \in Reps, rcall[h] # RepIdle, rcall[h].at \notin {"refresh", "ask", "apply"}
  PROVE  ~hist.overlap /\ ~event /\ row.person /\ hist.last = "bachs" => Match
<1> SUFFICES ASSUME ~hist.overlap, ~event, row.person, hist.last = "bachs" PROVE Match
  OBVIOUS
<1>1. \A g \in Reps : rcall[g].at \notin {"refresh", "ask", "apply"}
  BY OthersIdle, IdleHasNothing
<1> QED BY <1>1 DEF OnboardingInv, AloneInv, FollowsInv, Match

LEMMA CurrentHere ==
  ASSUME OnboardingInv, NEW h \in Reps
  PROVE  RepFits(rcall[h]) /\ (~hist.overlap => Current(rcall[h]))
  BY DEF OnboardingInv, AloneInv

LEMMA RefreshKeeps ==
  ASSUME OnboardingInv, NEW h \in Reps, RefreshIdentity(h)
  PROVE  OnboardingInv'
<1>1. PICK c \in RepCall : c = rcall[h]
  BY OnboardingTypes
<1>2. c.at = "refresh" /\ UNCHANGED <<row, bachs, event, stored, hist>> /\ c # RepIdle
  BY <1>1, IdleHasNothing DEF RefreshIdentity
<1>3. CASE ~row.person
  <2>1. RepGoto(h, RepIdle)
    BY <1>3 DEF RefreshIdentity
  <2> QED BY <1>1, <1>2, <1>3, <2>1, EndsKeeps
<1>4. CASE row.person
  <2> DEFINE read == [kycStatus |-> row.kycStatus, payoutsActive |-> row.payoutsActive,
                      kycAttempts |-> row.kycAttempts, locked |-> row.locked]
             next == [at |-> "ask", read |-> read]
  <2>1. RepGoto(h, next)
    BY <1>4 DEF RefreshIdentity
  <2>2. read \in Read
    BY OnboardingTypes, RowFields DEF Read, Attempts
  <2>3. next \in RepCall /\ next.at = "ask" /\ next.read = read
    BY <2>2, RepPlaces
  <2>4. read.kycStatus = row.kycStatus /\ read.payoutsActive = row.payoutsActive /\ read.kycAttempts = row.kycAttempts
    OBVIOUS
  <2> HIDE DEF read, next
  <2>5. New(next) = {} /\ Old(next) = {} /\ Doomed(next) = {} /\ RepFits(next)
    BY <2>3 DEF New, Old, Doomed, RepFits
  <2>6. ~hist.overlap => Current(next)
    BY <2>3, <2>4 DEF Current, OnboardingInv, AloneInv
  <2>7. PersonsInv'
    BY <1>2, <2>1, <2>3, PersonsStep
  <2> QED BY <1>1, <1>2, <2>1, <2>3, <2>5, <2>6, <2>7, QuietKeeps
<1> QED BY <1>3, <1>4

LEMMA AskKeeps ==
  ASSUME OnboardingInv, NEW h \in Reps, GetIdentityStatus(h)
  PROVE  OnboardingInv'
<1>1. PICK c \in RepCall : c = rcall[h]
  BY OnboardingTypes
<1>2. c.at = "ask" /\ UNCHANGED <<row, bachs, event, stored, hist>> /\ c # RepIdle
  BY <1>1, IdleHasNothing DEF GetIdentityStatus
<1>3. c.read \in Read
  BY <1>2, RepFields
<1>4. ~hist.overlap => /\ hist.refusals <= c.read.kycAttempts
                       /\ row.kycStatus = c.read.kycStatus /\ row.payoutsActive = c.read.payoutsActive
  BY <1>1, <1>2, CurrentHere DEF Current
<1>5. CASE Unchanged(c.read) /\ RepGoto(h, RepIdle)
  BY <1>1, <1>2, <1>4, <1>5, EndsKeeps DEF Unchanged, Match
<1>6. CASE RepGoto(h, [at |-> "apply", read |-> c.read, verdict |-> bachs.verdict, payouts |-> bachs.payouts])
  <2> DEFINE next == [at |-> "apply", read |-> c.read, verdict |-> bachs.verdict, payouts |-> bachs.payouts]
  <2>1. RepGoto(h, next)
    BY <1>6
  <2>2. next \in RepCall /\ next.at = "apply" /\ next.read = c.read /\ next.verdict = bachs.verdict /\ next.payouts = bachs.payouts
    BY <1>3, RepPlaces, OnboardingTypes, BachsFields
  <2> HIDE DEF next
  <2>3. New(next) = {} /\ Old(next) = {} /\ Doomed(next) = {} /\ RepFits(next)
    BY <2>2 DEF New, Old, Doomed, RepFits
  <2>4. ~hist.overlap => Current(next)
    BY <1>4, <2>2 DEF Current
  <2>5. PersonsInv'
    BY <1>2, <2>1, <2>2, PersonsStep
  <2> QED BY <1>1, <1>2, <2>1, <2>2, <2>3, <2>4, <2>5, QuietKeeps
<1> QED BY <1>1, <1>5, <1>6 DEF GetIdentityStatus

LEMMA Recorded ==
  ASSUME OnboardingInv, NEW next, Record(next), ~hist.overlap => next \in Hist /\ next.overlap = hist.overlap
  PROVE  hist' \in Hist /\ hist'.overlap = hist.overlap /\ (~hist.overlap => hist' = next)
  BY OnboardingTypes DEF Record

LEMMA SeenStep ==
  ASSUME NEW x \in Hist, NEW f \in MaybeFile
  PROVE  /\ [x EXCEPT !.seen = f] \in Hist /\ [x EXCEPT !.seen = f].overlap = x.overlap
         /\ [x EXCEPT !.seen = f].seen = f /\ [x EXCEPT !.seen = f].last = x.last /\ [x EXCEPT !.seen = f].refusals = x.refusals
  BY DEF Hist, MaybeFile

LEMMA LastStep ==
  ASSUME NEW x \in Hist, NEW last \in {"bachs", "refusal", "admin"}
  PROVE  /\ [x EXCEPT !.last = last] \in Hist /\ [x EXCEPT !.last = last].overlap = x.overlap
         /\ [x EXCEPT !.last = last].seen = x.seen /\ [x EXCEPT !.last = last].last = last
         /\ [x EXCEPT !.last = last].refusals = x.refusals
  BY DEF Hist

LEMMA RefusalsStep ==
  ASSUME NEW x \in Hist, NEW last \in {"bachs", "refusal", "admin"}, NEW n \in Attempts
  PROVE  /\ [x EXCEPT !.last = last, !.refusals = n] \in Hist
         /\ [x EXCEPT !.last = last, !.refusals = n].overlap = x.overlap
         /\ [x EXCEPT !.last = last, !.refusals = n].seen = x.seen
         /\ [x EXCEPT !.last = last, !.refusals = n].last = last
         /\ [x EXCEPT !.last = last, !.refusals = n].refusals = n
  BY DEF Hist, Attempts

(* A card is stored under a name of its own.                                *)
LEMMA CardsFresh ==
  ASSUME OnboardingInv, NEW h \in Reps, NEW c \in RepCall, c = rcall[h], NEW next \in RepCall, RepGoto(h, next),
         NEW f \in Files, NewName(f), stored' = stored \cup {f}, UNCHANGED row,
         New(next) = {f}, Old(next) = Old(c), Doomed(next) = {}
  PROVE  CardsInv'
<1>1. rcall' \in [Reps -> RepCall] /\ rcall'[h] = next /\ \A g \in Reps \ {h} : rcall'[g] = rcall[g]
  BY RepMoves
<1>2. /\ f # row.studentIdFile
      /\ \A g \in Reps : f \notin New(rcall[g]) \cup Old(rcall[g]) \cup Doomed(rcall[g])
  BY ReferencedFiles DEF NewName
<1>3. /\ row.studentIdFile # NoFile => row.studentIdFile \in stored
      /\ \A g \in Reps : /\ New(rcall[g]) \subseteq stored \ ({row.studentIdFile} \cup Old(rcall[g]))
                         /\ row.studentIdFile \notin Doomed(rcall[g])
  BY DEF OnboardingInv, CardsInv
<1>4. ASSUME NEW g \in Reps
      PROVE  /\ New(rcall'[g]) \subseteq stored' \ ({row'.studentIdFile} \cup Old(rcall'[g]))
             /\ row'.studentIdFile \notin Doomed(rcall'[g])
  <2>1. CASE g = h
    BY <1>1, <1>2, <2>1
  <2>2. CASE g # h
    BY <1>1, <1>3, <2>2
  <2> QED BY <2>1, <2>2
<1>5. ASSUME NEW e \in Reps, NEW g \in Reps \ {e}
      PROVE  New(rcall'[e]) \cap (New(rcall'[g]) \cup Old(rcall'[g]) \cup Doomed(rcall'[g])) = {}
  <2>1. CASE e = h
    BY <1>1, <1>2, <2>1
  <2>2. CASE g = h
    <3>1. New(rcall[e]) \cap (Old(c) \cup {f}) = {}
      BY <1>2, <2>2 DEF OnboardingInv, CardsInv
    <3> QED BY <1>1, <2>2, <3>1
  <2>3. CASE e # h /\ g # h
    BY <1>1, <2>3 DEF OnboardingInv, CardsInv
  <2> QED BY <2>1, <2>2, <2>3
<1> QED BY <1>3, <1>4, <1>5 DEF CardsInv, New, Old, Doomed

LEMMA StoreKeeps ==
  ASSUME OnboardingInv, NEW h \in Reps, StoreStudentId(h)
  PROVE  OnboardingInv'
<1>1. PICK c \in RepCall : c = rcall[h]
  BY OnboardingTypes
<1>2. c.at = "store" /\ UNCHANGED <<row, bachs, event>> /\ c # RepIdle
  BY <1>1, IdleHasNothing DEF StoreStudentId
<1>3. ~hist.overlap /\ ~event /\ row.person /\ hist.last = "bachs" => Match
  BY <1>1, <1>2, MatchElsewhere
<1>4. CASE RepGoto(h, RepIdle) /\ UNCHANGED <<stored, hist>>
  BY <1>1, <1>2, <1>3, <1>4, EndsKeeps
<1>5. CASE ~(RepGoto(h, RepIdle) /\ UNCHANGED <<stored, hist>>)
  <2> DEFINE Next1(f) == IF c.what = "card" THEN [at |-> "card", f |-> f, old |-> c.old]
                         ELSE [at |-> "find", f |-> f, old |-> c.old, attempts |-> c.attempts, found |-> c.found]
             seen(f) == IF hist.seen = f THEN NoFile ELSE hist.seen
  <2>1. PICK f \in Files : /\ NewName(f) /\ stored' = stored \cup {f}
                           /\ Record([hist EXCEPT !.seen = seen(f)]) /\ RepGoto(h, Next1(f))
    BY <1>1, <1>5 DEF StoreStudentId
  <2> DEFINE next == Next1(f)
             hs == [hist EXCEPT !.seen = seen(f)]
  <2>2. c.old \in MaybeFile /\ c.attempts \in Attempts /\ c.found \in BOOLEAN
    BY <1>2, RepFields
  <2>3. next \in RepCall /\ next.at \in {"card", "find"} /\ next.f = f /\ next.old = c.old
        /\ (next.at = "find" => next.attempts = c.attempts)
    BY <2>2, RepPlaces
  <2>4. RepGoto(h, next)
    BY <2>1
  <2>5. seen(f) \in MaybeFile
    BY OnboardingTypes, HistFields DEF MaybeFile
  <2>6. hs \in Hist /\ hs.overlap = hist.overlap /\ hs.seen = seen(f) /\ hs.last = hist.last /\ hs.refusals = hist.refusals
    BY <2>5, OnboardingTypes, SeenStep
  <2>r. Record(hs)
    BY <2>1
  <2>8. row.studentIdFile = hist.seen => seen(f) = hist.seen
    BY <2>1, ReferencedFiles DEF NewName
  <2> HIDE DEF next, hs, seen
  <2>7. hist' \in Hist /\ hist'.overlap = hist.overlap /\ (~hist.overlap => hist' = hs)
    BY <2>6, <2>r, Recorded
  <2>9. New(next) = {f} /\ Old(next) = Old(c) /\ Doomed(next) = {} /\ RepFits(next)'
    BY <1>2, <2>3 DEF New, Old, Doomed, RepFits
  <2>10. CardsInv'
    BY <1>1, <1>2, <2>1, <2>3, <2>4, <2>9, CardsFresh
  <2>11. PersonsInv'
    BY <1>2, <2>3, <2>4, PersonsStep
  <2>12. ~hist.overlap =>
            /\ Current(next)'
            /\ ~event' /\ row'.person /\ hist'.last = "bachs" => Match'
            /\ bachs'.persons <= 1 /\ row'.spaces <= 1 /\ hist'.refusals <= row'.kycAttempts
            /\ row'.studentId = "approved" => row'.studentIdFile = hist'.seen
    <3> SUFFICES ASSUME ~hist.overlap
                 PROVE  /\ Current(next)'
                        /\ ~event' /\ row'.person /\ hist'.last = "bachs" => Match'
                        /\ bachs'.persons <= 1 /\ row'.spaces <= 1 /\ hist'.refusals <= row'.kycAttempts
                        /\ row'.studentId = "approved" => row'.studentIdFile = hist'.seen
      OBVIOUS
    <3>1. hist'.seen = seen(f) /\ hist'.last = hist.last /\ hist'.refusals = hist.refusals
      BY <2>6, <2>7
    <3>2. hist.refusals <= c.attempts
      BY <1>1, <1>2, CurrentHere DEF Current
    <3>3. Current(next)'
      BY <2>3, <3>1, <3>2 DEF Current
    <3>4. ~event' /\ row'.person /\ hist'.last = "bachs" => Match'
      BY <1>2, <1>3, <3>1 DEF Match
    <3>5. bachs.persons <= 1 /\ row.spaces <= 1 /\ hist.refusals <= row.kycAttempts
          /\ (row.studentId = "approved" => row.studentIdFile = hist.seen)
      BY DEF OnboardingInv, AloneInv
    <3> QED BY <1>2, <2>8, <3>1, <3>3, <3>4, <3>5
  <2>13. stored' \subseteq Files
    BY <2>1, OnboardingTypes
  <2>14. row.application = "pending" => row.spaces = 0
    BY DEF OnboardingInv
  <2> QED BY <1>1, <1>2, <2>3, <2>4, <2>7, <2>9, <2>10, <2>11, <2>12, <2>13, <2>14, OnboardingTypes, StepKeeps
<1> QED BY <1>4, <1>5

(* What holds of the row and the history while handlers do not overlap.     *)
LEMMA AloneFacts ==
  ASSUME OnboardingInv, ~hist.overlap
  PROVE  /\ bachs.persons <= 1 /\ row.spaces <= 1 /\ hist.refusals <= row.kycAttempts
         /\ row.studentId = "approved" => row.studentIdFile = hist.seen
  BY DEF OnboardingInv, AloneInv

(* The details are sent.  A person is added by the only one of two who is   *)
(* about to, or by the first of them.                                       *)
LEMMA SendKeeps ==
  ASSUME OnboardingInv, NEW h \in Reps, SendPerson(h)
  PROVE  OnboardingInv'
<1>1. PICK c \in RepCall : c = rcall[h]
  BY OnboardingTypes
<1>2. c.at = "send" /\ UNCHANGED <<row, event, hist>> /\ c # RepIdle
  BY <1>1, IdleHasNothing DEF SendPerson
<1>3. c.f \in Files /\ c.old \in MaybeFile /\ c.attempts \in Attempts /\ c.found \in BOOLEAN
  BY <1>2, RepFields
<1> DEFINE taken == [bachs EXCEPT !.persons = IF c.found THEN @ ELSE @ + 1]
           failed == [at |-> "failed", attempts |-> c.attempts]
           discard == [at |-> "discard", f |-> c.f]
           write == [at |-> "write", f |-> c.f, old |-> c.old, verdict |-> bachs.verdict, payouts |-> bachs.payouts]
<1>4. /\ bachs' \in {bachs, taken}
      /\ \/ /\ c.attempts < MaxRefusals /\ stored' = stored \cap Referenced(Reps \ {h}) /\ RepGoto(h, failed)
         \/ /\ UNCHANGED stored /\ RepGoto(h, discard)
         \/ /\ UNCHANGED stored /\ RepGoto(h, write)
  BY <1>1 DEF SendPerson
<1>5. ~c.found => bachs.persons \in {0, 1}
  BY <1>1, <1>2, OnboardingTypes, BachsFields DEF OnboardingInv, PersonsInv, Adds
<1>6. /\ bachs' \in Bachs /\ bachs'.verdict = bachs.verdict /\ bachs'.payouts = bachs.payouts
      /\ bachs'.persons = bachs.persons \/ (~c.found /\ bachs'.persons = bachs.persons + 1)
  <2>1. CASE c.found \/ bachs' = bachs
    BY <1>3, <1>4, <2>1, OnboardingTypes DEF Bachs
  <2>2. CASE ~c.found /\ bachs' = taken
    <3>1. bachs.persons + 1 \in 0..2
      BY <1>5, <2>2
    <3>2. bachs' = [bachs EXCEPT !.persons = bachs.persons + 1]
      BY <2>2, OnboardingTypes DEF Bachs
    <3> QED BY <2>2, <3>1, <3>2, OnboardingTypes DEF Bachs
  <2> QED BY <1>4, <2>1, <2>2
<1>7. PICK next \in RepCall :
        /\ RepGoto(h, next) /\ next.at \in {"failed", "discard", "write"}
        /\ next.at = "failed" => c.attempts < MaxRefusals /\ next.attempts = c.attempts
                                 /\ stored' = stored \cap Referenced(Reps \ {h})
        /\ next.at # "failed" => next.f = c.f /\ UNCHANGED stored
        /\ next.at = "write" => next.old = c.old /\ next.verdict = bachs.verdict /\ next.payouts = bachs.payouts
  <2>1. failed \in RepCall /\ discard \in RepCall /\ write \in RepCall
    BY <1>3, RepPlaces, OnboardingTypes, BachsFields
  <2>2. CASE c.attempts < MaxRefusals /\ stored' = stored \cap Referenced(Reps \ {h}) /\ RepGoto(h, failed)
    BY <2>1, <2>2
  <2>3. CASE UNCHANGED stored /\ RepGoto(h, discard)
    BY <2>1, <2>3
  <2>4. CASE UNCHANGED stored /\ RepGoto(h, write)
    BY <2>1, <2>4
  <2> HIDE DEF failed, discard, write
  <2> QED BY <1>4, <2>2, <2>3, <2>4
<1> HIDE DEF taken, failed, discard, write
<1>8. New(c) = {c.f} /\ Old(c) = {c.old} /\ Doomed(c) = {}
  BY <1>2 DEF New, Old, Doomed
<1>9. /\ New(next) \subseteq New(c) /\ Old(next) \subseteq Old(c) /\ Doomed(next) \subseteq New(c)
      /\ next.at = "failed" => New(next) = {}
      /\ RepFits(next)'
  BY <1>7, <1>8 DEF New, Old, Doomed, RepFits
<1>10. /\ c.f \in stored /\ c.f # row.studentIdFile /\ (row.studentIdFile # NoFile => row.studentIdFile \in stored)
       /\ \A g \in Reps : New(rcall[g]) \subseteq stored
  BY <1>1, <1>8 DEF OnboardingInv, CardsInv
<1>11. /\ row.studentIdFile # NoFile => row.studentIdFile \in stored'
       /\ \A g \in Reps \ {h} : New(rcall[g]) \subseteq stored'
       /\ New(next) \subseteq stored' /\ stored' \subseteq Files
  <2>1. CASE UNCHANGED stored
    BY <1>8, <1>9, <1>10, <2>1, OnboardingTypes
  <2>2. CASE next.at = "failed"
    BY <1>7, <1>9, <1>10, <2>2, ReferencedFiles, OnboardingTypes
  <2> QED BY <1>7, <2>1, <2>2
<1>12. CardsInv'
  <2>1. row.studentIdFile \notin New(next) \cup Doomed(next)
    BY <1>8, <1>9, <1>10
  <2> QED BY <1>1, <1>2, <1>7, <1>9, <1>11, <2>1, CardsStep
<1>13. PersonsInv'
  <2>1. CASE bachs'.persons = bachs.persons
    BY <1>7, <2>1, PersonsStep
  <2>2. CASE ~c.found /\ bachs'.persons = bachs.persons + 1
    <3>1. rcall' \in [Reps -> RepCall] /\ rcall'[h] = next /\ \A g \in Reps \ {h} : rcall'[g] = rcall[g]
      BY <1>7, RepMoves
    <3>2. ASSUME NEW g \in Reps, Adds(g)' PROVE g # h /\ Adds(g) /\ rcall[g] # RepIdle
      BY <1>7, <3>1, <3>2, IdleHasNothing DEF Adds
    <3>3. Adds(h) /\ h \in Busy
      BY <1>1, <1>2, <2>2 DEF Adds, Busy
    <3>4. CASE bachs.persons = 0
      <4>1. ASSUME NEW f \in Reps, NEW g \in Reps, Adds(f)', Adds(g)' PROVE f = g
        <5>1. f \in Busy /\ g \in Busy /\ f # h /\ g # h
          BY <3>2, <4>1 DEF Busy
        <5> QED BY <3>3, <5>1 DEF OnboardingInv, TwoAtMost
      <4> QED BY <2>2, <3>4, <4>1 DEF PersonsInv
    <3>5. CASE bachs.persons = 1
      <4>1. \A g \in Reps : ~Adds(g)'
        BY <3>2, <3>3, <3>5 DEF OnboardingInv, PersonsInv
      <4> QED BY <4>1 DEF PersonsInv
    <3> QED BY <1>5, <2>2, <3>4, <3>5
  <2> QED BY <1>6, <2>1, <2>2
<1>14. ASSUME ~hist.overlap
       PROVE  /\ Current(next)'
              /\ ~event' /\ row'.person /\ hist'.last = "bachs" => Match'
              /\ bachs'.persons <= 1 /\ row'.spaces <= 1 /\ hist'.refusals <= row'.kycAttempts
              /\ row'.studentId = "approved" => row'.studentIdFile = hist'.seen
  <2>1. hist.refusals <= c.attempts /\ (~c.found => bachs.persons = 0)
    BY <1>1, <1>2, <1>14, CurrentHere DEF Current
  <2>2. Current(next)'
    BY <1>2, <1>6, <1>7, <2>1 DEF Current
  <2>3. bachs'.persons <= 1
    BY <1>6, <1>14, <2>1, AloneFacts
  <2>4. ~event /\ row.person /\ hist.last = "bachs" => Match
    BY <1>1, <1>2, <1>14, MatchElsewhere
  <2>5. ~event' /\ row'.person /\ hist'.last = "bachs" => Match'
    BY <1>2, <1>6, <2>4 DEF Match
  <2> QED BY <1>2, <1>14, <2>2, <2>3, <2>5, AloneFacts
<1>15. row.application = "pending" => row.spaces = 0
  BY DEF OnboardingInv
<1> QED BY <1>1, <1>2, <1>6, <1>7, <1>9, <1>11, <1>12, <1>13, <1>14, <1>15, OnboardingTypes, StepKeeps

(* A handler with no card leaves the cards alone.                           *)
LEMMA NoCards ==
  ASSUME OnboardingInv, NEW h \in Reps, NEW c \in RepCall, c = rcall[h], RepGoto(h, RepIdle),
         row'.studentIdFile = row.studentIdFile, UNCHANGED stored
  PROVE  CardsInv'
<1>1. /\ row.studentIdFile # NoFile => row.studentIdFile \in stored
      /\ \A g \in Reps : New(rcall[g]) \subseteq stored
  BY DEF OnboardingInv, CardsInv
<1> QED BY <1>1, IdleHasNothing, CardsStep

(* A refusal is counted from what the request read, which nobody has        *)
(* changed meanwhile unless handlers overlap.                               *)
LEMMA RefusalKeeps ==
  ASSUME OnboardingInv, NEW h \in Reps, RecordFailedAttempt(h)
  PROVE  /\ OnboardingInv'
         /\ ~hist.overlap /\ hist'.refusals >= MAX_KYC_ATTEMPTS => row'.locked
<1>1. PICK c \in RepCall : c = rcall[h]
  BY OnboardingTypes
<1>2. c.at = "failed" /\ RepGoto(h, RepIdle) /\ UNCHANGED <<bachs, event, stored>> /\ c # RepIdle
  BY <1>1, IdleHasNothing DEF RecordFailedAttempt
<1>3. c.attempts \in Nat /\ c.attempts + 1 \in Attempts
  <2>1. c.attempts \in Attempts /\ c.attempts < MaxRefusals
    BY <1>1, <1>2, RepFields, CurrentHere DEF RepFits
  <2> QED BY <2>1, OnboardingAssumption DEF Attempts
<1> DEFINE n == c.attempts + 1
           lock == Locks(n)
           r == [row EXCEPT !.kycAttempts = n, !.kycStatus = "rejected", !.locked = lock]
           hs == [hist EXCEPT !.last = "refusal", !.refusals = hist.refusals + 1]
<1>4. lock \in BOOLEAN /\ (n >= MAX_KYC_ATTEMPTS => lock)
  BY <1>3 DEF Locks, MAX_KYC_ATTEMPTS
<1>5. row' = r
  BY <1>1 DEF RecordFailedAttempt
<1>6. Record(hs)
  BY OnboardingTypes DEF RecordFailedAttempt, Hist
<1>n. n \in Attempts
  BY <1>3
<1> HIDE DEF n, lock
<1>7. /\ r \in Row /\ r.kycAttempts = n /\ r.locked = lock
      /\ r.application = row.application /\ r.spaces = row.spaces /\ r.person = row.person
      /\ r.studentId = row.studentId /\ r.studentIdFile = row.studentIdFile
  BY <1>n, <1>4, OnboardingTypes DEF Row, Verdicts, Attempts
<1> HIDE DEF r
<1>8. /\ row' \in Row /\ row'.kycAttempts = n /\ row'.locked = lock
      /\ row'.application = row.application /\ row'.spaces = row.spaces /\ row'.person = row.person
      /\ row'.studentId = row.studentId /\ row'.studentIdFile = row.studentIdFile
  BY <1>5, <1>7
<1>9. ~hist.overlap => hist.refusals + 1 \in Attempts /\ hist.refusals + 1 <= n
  <2> SUFFICES ASSUME ~hist.overlap PROVE hist.refusals + 1 \in Attempts /\ hist.refusals + 1 <= n
    OBVIOUS
  <2>1. hist.refusals <= c.attempts
    BY <1>1, <1>2, CurrentHere DEF Current
  <2>2. hist.refusals \in Attempts
    BY OnboardingTypes, HistFields
  <2> QED BY <1>3, <2>1, <2>2, OnboardingAssumption DEF Attempts, n
<1>10. ~hist.overlap => /\ hs \in Hist /\ hs.overlap = hist.overlap /\ hs.seen = hist.seen /\ hs.last = "refusal"
                        /\ hs.refusals = hist.refusals + 1
  <2> DEFINE m == hist.refusals + 1
  <2>1. ~hist.overlap => m \in Attempts
    BY <1>9
  <2> HIDE DEF m
  <2>2. hs = [hist EXCEPT !.last = "refusal", !.refusals = m]
    BY DEF hs, m
  <2>3. ~hist.overlap => /\ hs \in Hist /\ hs.overlap = hist.overlap /\ hs.seen = hist.seen /\ hs.last = "refusal"
                         /\ hs.refusals = m
    BY <2>1, <2>2, OnboardingTypes DEF Hist, Attempts
  <2> QED BY <2>3 DEF m
<1> HIDE DEF hs
<1>11. hist' \in Hist /\ hist'.overlap = hist.overlap /\ (~hist.overlap => hist' = hs)
  BY <1>6, <1>10, Recorded
<1>12. CardsInv'
  BY <1>1, <1>2, <1>8, NoCards
<1>13. PersonsInv'
  BY <1>2, IdleHasNothing, PersonsStep
<1>14. ASSUME ~hist.overlap
       PROVE  /\ hist'.last # "bachs" /\ hist'.refusals <= row'.kycAttempts
              /\ row'.studentId = "approved" => row'.studentIdFile = hist'.seen
  BY <1>8, <1>9, <1>10, <1>11, <1>14, AloneFacts
<1>15. row'.application = "pending" => row'.spaces = 0
  BY <1>8 DEF OnboardingInv
<1>16. OnboardingInv'
  BY <1>1, <1>2, <1>8, <1>11, <1>12, <1>13, <1>14, <1>15, AloneFacts, IdleHasNothing, OnboardingTypes, StepKeeps
<1>17. ASSUME ~hist.overlap, hist'.refusals >= MAX_KYC_ATTEMPTS PROVE row'.locked
  <2>1. hist'.refusals \in Nat /\ hist'.refusals <= n
    BY <1>9, <1>10, <1>11, <1>17 DEF Attempts
  <2>2. n >= MAX_KYC_ATTEMPTS
    BY <1>3, <1>17, <2>1 DEF n, MAX_KYC_ATTEMPTS
  <2> QED BY <1>4, <1>8, <2>2
<1> QED BY <1>16, <1>17

(* The card of a request is written, and the one it replaces is to go.      *)
LEMMA Discards ==
  ASSUME OnboardingInv, NEW h \in Reps, NEW c \in RepCall, c = rcall[h], c.at \in {"write", "card"},
         RepGoto(h, Discarding(c.old)), row'.studentIdFile = c.f, UNCHANGED stored
  PROVE  /\ c.f \in Files /\ c.f # NoFile
         /\ CardsInv'
         /\ Discarding(c.old) \in RepCall /\ Discarding(c.old).at \in {"idle", "discard"}
<1>1. c.f \in Files /\ c.old \in MaybeFile /\ c.f # NoFile
  BY RepFields, OnboardingAssumption
<1>2. New(c) = {c.f} /\ Old(c) = {c.old}
  BY DEF New, Old
<1> DEFINE next == Discarding(c.old)
<1>3. /\ next \in RepCall /\ next.at \in {"idle", "discard"}
      /\ New(next) = {} /\ Old(next) = {} /\ Doomed(next) \subseteq {c.old}
  <2>1. CASE c.old = NoFile
    BY <2>1, IdleHasNothing DEF Discarding
  <2>2. CASE c.old # NoFile
    <3>1. next = [at |-> "discard", f |-> c.old] /\ c.old \in Files
      BY <1>1, <2>2 DEF Discarding, MaybeFile
    <3>2. next \in RepCall /\ next.at = "discard" /\ next.f = c.old
      BY <3>1, RepPlaces
    <3> QED BY <3>2 DEF New, Old, Doomed
  <2> QED BY <2>1, <2>2
<1>4. c.f \in stored /\ c.f # c.old /\ \A g \in Reps : New(rcall[g]) \subseteq stored
  BY <1>2 DEF OnboardingInv, CardsInv
<1>5. RepGoto(h, next)
  OBVIOUS
<1> HIDE DEF next
<1>6. CardsInv'
  BY <1>1, <1>2, <1>3, <1>4, <1>5, CardsStep
<1> QED BY <1>1, <1>3, <1>6 DEF next

(* The row says what Bachs said when the details were taken.                *)
LEMMA WriteKeeps ==
  ASSUME OnboardingInv, NEW h \in Reps, WriteSubmission(h)
  PROVE  OnboardingInv'
<1>1. PICK c \in RepCall : c = rcall[h]
  BY OnboardingTypes
<1>2. c.at = "write" /\ RepGoto(h, Discarding(c.old)) /\ UNCHANGED <<bachs, event, stored>> /\ c # RepIdle
  BY <1>1, IdleHasNothing DEF WriteSubmission
<1>3. c.f \in Files /\ c.verdict \in Verdicts /\ c.payouts \in BOOLEAN
  BY <1>2, RepFields
<1> DEFINE r == [row EXCEPT !.person = TRUE, !.kycStatus = c.verdict, !.payoutsActive = c.payouts,
                            !.studentId = "pending", !.studentIdFile = c.f]
           hs == [hist EXCEPT !.last = "bachs"]
           next == Discarding(c.old)
<1>4. row' = r /\ Record(hs)
  BY <1>1 DEF WriteSubmission
<1>5. /\ r \in Row /\ r.kycStatus = c.verdict /\ r.payoutsActive = c.payouts
      /\ r.studentId = "pending" /\ r.studentIdFile = c.f
      /\ r.application = row.application /\ r.spaces = row.spaces /\ r.kycAttempts = row.kycAttempts
  BY <1>3, OnboardingTypes DEF Row
<1>6. hs \in Hist /\ hs.overlap = hist.overlap /\ hs.seen = hist.seen /\ hs.last = "bachs" /\ hs.refusals = hist.refusals
  BY OnboardingTypes, LastStep
<1> HIDE DEF r, hs
<1>7. hist' \in Hist /\ hist'.overlap = hist.overlap /\ (~hist.overlap => hist' = hs)
  BY <1>4, <1>6, Recorded
<1>8. /\ row' \in Row /\ row'.kycStatus = c.verdict /\ row'.payoutsActive = c.payouts
      /\ row'.studentId = "pending" /\ row'.studentIdFile = c.f
      /\ row'.application = row.application /\ row'.spaces = row.spaces /\ row'.kycAttempts = row.kycAttempts
  BY <1>4, <1>5
<1>9. c.f \in Files /\ c.f # NoFile /\ CardsInv' /\ next \in RepCall /\ next.at \in {"idle", "discard"}
  BY <1>1, <1>2, <1>8, Discards
<1>g. RepGoto(h, next)
  BY <1>2
<1> HIDE DEF next
<1>10. PersonsInv'
  BY <1>2, <1>9, <1>g, PersonsStep
<1>11. RepFits(next)' /\ Current(next)'
  BY <1>9 DEF RepFits, Current
<1>12. ASSUME ~hist.overlap, ~event' PROVE Match'
  <2>1. c.verdict = bachs.verdict /\ c.payouts = bachs.payouts
    BY <1>1, <1>2, <1>12, CurrentHere DEF Current
  <2> QED BY <1>2, <1>8, <2>1 DEF Match
<1>13. ASSUME ~hist.overlap
       PROVE bachs'.persons <= 1 /\ row'.spaces <= 1 /\ hist'.refusals <= row'.kycAttempts
  BY <1>2, <1>6, <1>7, <1>8, <1>13, AloneFacts
<1>14. row'.application = "pending" => row'.spaces = 0
  BY <1>8 DEF OnboardingInv
<1> QED BY <1>1, <1>2, <1>7, <1>8, <1>9, <1>g, <1>10, <1>11, <1>12, <1>13, <1>14, OnboardingTypes, StepKeeps

LEMMA CardKeeps ==
  ASSUME OnboardingInv, NEW h \in Reps, WriteCard(h)
  PROVE  OnboardingInv'
<1>1. PICK c \in RepCall : c = rcall[h]
  BY OnboardingTypes
<1>2. c.at = "card" /\ RepGoto(h, Discarding(c.old)) /\ UNCHANGED <<bachs, event, stored, hist>> /\ c # RepIdle
  BY <1>1, IdleHasNothing DEF WriteCard
<1>3. c.f \in Files
  BY <1>2, RepFields
<1> DEFINE r == [row EXCEPT !.studentId = "pending", !.studentIdFile = c.f]
           next == Discarding(c.old)
<1>4. row' = r
  BY <1>1 DEF WriteCard
<1>5. /\ r \in Row /\ r.studentId = "pending" /\ r.studentIdFile = c.f
      /\ r.kycStatus = row.kycStatus /\ r.payoutsActive = row.payoutsActive /\ r.person = row.person
      /\ r.application = row.application /\ r.spaces = row.spaces /\ r.kycAttempts = row.kycAttempts
  BY <1>3, OnboardingTypes DEF Row
<1> HIDE DEF r
<1>8. /\ row' \in Row /\ row'.studentId = "pending" /\ row'.studentIdFile = c.f
      /\ row'.kycStatus = row.kycStatus /\ row'.payoutsActive = row.payoutsActive /\ row'.person = row.person
      /\ row'.application = row.application /\ row'.spaces = row.spaces /\ row'.kycAttempts = row.kycAttempts
  BY <1>4, <1>5
<1>9. c.f \in Files /\ c.f # NoFile /\ CardsInv' /\ next \in RepCall /\ next.at \in {"idle", "discard"}
  BY <1>1, <1>2, <1>8, Discards
<1>g. RepGoto(h, next)
  BY <1>2
<1> HIDE DEF next
<1>10. PersonsInv'
  BY <1>2, <1>9, <1>g, PersonsStep
<1>11. RepFits(next)' /\ Current(next)'
  BY <1>9 DEF RepFits, Current
<1>12. ASSUME ~hist.overlap, ~event', row'.person, hist'.last = "bachs" PROVE Match'
  <2>1. Match
    BY <1>1, <1>2, <1>8, <1>12, MatchElsewhere
  <2> QED BY <1>2, <1>8, <2>1 DEF Match
<1>13. ASSUME ~hist.overlap
       PROVE bachs'.persons <= 1 /\ row'.spaces <= 1 /\ hist'.refusals <= row'.kycAttempts
  BY <1>2, <1>8, <1>13, AloneFacts
<1>14. row'.application = "pending" => row'.spaces = 0
  BY <1>8 DEF OnboardingInv
<1>15. hist' \in Hist /\ hist'.overlap = hist.overlap
  BY <1>2, OnboardingTypes
<1> QED BY <1>1, <1>2, <1>8, <1>9, <1>g, <1>10, <1>11, <1>12, <1>13, <1>14, <1>15, OnboardingTypes, StepKeeps

(* A handler that ends, where the cards of the row and of the others stay.  *)
LEMMA CardsAtEnd ==
  ASSUME OnboardingInv, NEW h \in Reps, NEW c \in RepCall, c = rcall[h], RepGoto(h, RepIdle),
         row'.studentIdFile = row.studentIdFile,
         \A f \in stored : f \in Referenced(Reps \ {h}) /\ f \notin Doomed(c) => f \in stored'
  PROVE  CardsInv'
<1>1. /\ row.studentIdFile # NoFile => row.studentIdFile \in stored
      /\ row.studentIdFile \notin Doomed(c)
      /\ \A g \in Reps \ {h} : New(rcall[g]) \subseteq stored /\ New(rcall[g]) \cap Doomed(c) = {}
  BY DEF OnboardingInv, CardsInv
<1>2. /\ row.studentIdFile \in Referenced(Reps \ {h})
      /\ \A g \in Reps \ {h} : New(rcall[g]) \subseteq Referenced(Reps \ {h})
  BY ReferencedFiles
<1> QED BY <1>1, <1>2, IdleHasNothing, CardsStep

LEMMA DiscardKeeps ==
  ASSUME OnboardingInv, NEW h \in Reps, DiscardFile(h)
  PROVE  OnboardingInv'
<1>1. PICK c \in RepCall : c = rcall[h]
  BY OnboardingTypes
<1>2. c.at = "discard" /\ RepGoto(h, RepIdle) /\ UNCHANGED <<row, bachs, event, hist>> /\ c # RepIdle
  BY <1>1, IdleHasNothing DEF DiscardFile
<1>3. PICK left \in {stored, stored \ {c.f}} : stored' = left \cap Referenced(Reps \ {h})
  BY <1>1 DEF DiscardFile
<1>4. CardsInv'
  BY <1>1, <1>2, <1>3, CardsAtEnd DEF Doomed
<1>5. PersonsInv'
  BY <1>2, IdleHasNothing, PersonsStep
<1>6. ~hist.overlap /\ ~event' /\ row'.person /\ hist'.last = "bachs" => Match'
  BY <1>1, <1>2, MatchElsewhere DEF Match
<1>7. (row.application = "pending" => row.spaces = 0) /\ stored' \subseteq Files
  BY <1>3, OnboardingTypes DEF OnboardingInv
<1> QED BY <1>1, <1>2, <1>4, <1>5, <1>6, <1>7, AloneFacts, IdleHasNothing, OnboardingTypes, StepKeeps

(* The event of a handler that died is delivered again.                     *)
LEMMA InterruptKeeps ==
  ASSUME OnboardingInv, NEW h \in Reps, RepInterrupt(h)
  PROVE  OnboardingInv'
<1>1. PICK c \in RepCall : c = rcall[h]
  BY OnboardingTypes
<1>2. /\ RepGoto(h, RepIdle) /\ UNCHANGED <<row, bachs, hist>> /\ c # RepIdle
      /\ stored' = stored \cap Referenced(Reps \ {h})
      /\ event' = (event \/ c.at \in {"refresh", "ask", "apply"})
  BY <1>1 DEF RepInterrupt
<1>3. CardsInv'
  BY <1>1, <1>2, CardsAtEnd
<1>4. PersonsInv'
  BY <1>2, IdleHasNothing, PersonsStep
<1>5. ~hist.overlap /\ ~event' /\ row'.person /\ hist'.last = "bachs" => Match'
  BY <1>1, <1>2, MatchElsewhere DEF Match
<1>6. (row.application = "pending" => row.spaces = 0) /\ stored' \subseteq Files
  BY <1>2, OnboardingTypes DEF OnboardingInv
<1>7. event' \in BOOLEAN
  BY <1>2
<1> QED BY <1>1, <1>2, <1>3, <1>4, <1>5, <1>6, <1>7, AloneFacts, IdleHasNothing, OnboardingTypes, StepKeeps

(* A handler that ends with a write to the row, of neither card nor person. *)
LEMMA RowEnds ==
  ASSUME OnboardingInv, NEW h \in Reps, rcall[h] # RepIdle, RepGoto(h, RepIdle), UNCHANGED <<bachs, event, stored>>,
         row' \in Row, row'.studentIdFile = row.studentIdFile, row.studentId = "none" <=> row'.studentId = "none",
         hist' \in Hist, hist'.overlap = hist.overlap, row'.application = "pending" => row'.spaces = 0,
         ~hist.overlap =>
            /\ ~event /\ row'.person /\ hist'.last = "bachs" => Match'
            /\ row'.spaces <= 1 /\ hist'.refusals <= row'.kycAttempts
            /\ row'.studentId = "approved" => row'.studentIdFile = hist'.seen
  PROVE  OnboardingInv'
<1>1. PICK c \in RepCall : c = rcall[h]
  BY OnboardingTypes
<1>2. CardsInv' /\ PersonsInv'
  BY <1>1, IdleHasNothing, NoCards, PersonsStep
<1>3. ~hist.overlap => bachs.persons <= 1
  BY AloneFacts
<1> QED BY <1>1, <1>2, <1>3, IdleHasNothing, OnboardingTypes, StepKeeps

LEMMA ReviewKeeps ==
  ASSUME OnboardingInv, NEW h \in Reps, WriteReview(h)
  PROVE  OnboardingInv'
<1>1. PICK c \in RepCall : c = rcall[h]
  BY OnboardingTypes
<1>2. c.at = "review" /\ RepGoto(h, RepIdle) /\ UNCHANGED <<bachs, event, stored, hist>> /\ c # RepIdle
  BY <1>1, IdleHasNothing DEF WriteReview
<1>3. c.decision \in {"approved", "rejected"} /\ row.studentId # "none"
  BY <1>1, <1>2, RepFields, CurrentHere DEF RepFits
<1>4. row' = [row EXCEPT !.studentId = c.decision]
  BY <1>1 DEF WriteReview
<1>5. /\ row' \in Row /\ row'.studentId = c.decision /\ row'.studentIdFile = row.studentIdFile
      /\ row'.kycStatus = row.kycStatus /\ row'.payoutsActive = row.payoutsActive /\ row'.person = row.person
      /\ row'.application = row.application /\ row'.spaces = row.spaces /\ row'.kycAttempts = row.kycAttempts
  BY <1>3, <1>4, OnboardingTypes DEF Row
<1>6. ~hist.overlap => hist.seen = row.studentIdFile
  BY <1>1, <1>2, CurrentHere DEF Current
<1>7. ~hist.overlap /\ ~event /\ row'.person /\ hist'.last = "bachs" => Match'
  BY <1>1, <1>2, <1>5, MatchElsewhere DEF Match
<1>8. row'.application = "pending" => row'.spaces = 0
  BY <1>5 DEF OnboardingInv
<1> QED BY <1>1, <1>2, <1>3, <1>5, <1>6, <1>7, <1>8, AloneFacts, OnboardingTypes, RowEnds

(* The application that was checked is the one that is approved, with the   *)
(* card that was shown: one space, unless handlers overlap.                 *)
LEMMA ApproveKeeps ==
  ASSUME OnboardingInv, NEW h \in Reps, ApproveApplication(h)
  PROVE  OnboardingInv'
<1>1. PICK c \in RepCall : c = rcall[h]
  BY OnboardingTypes
<1>2. c.at = "approve" /\ RepGoto(h, RepIdle) /\ UNCHANGED <<bachs, event, stored, hist>> /\ c # RepIdle /\ row.spaces < 2
  BY <1>1, IdleHasNothing DEF ApproveApplication
<1> DEFINE card == IF c.pendingCard THEN "approved" ELSE row.studentId
           n == row.spaces + 1
<1>3. card \in {"none", "pending", "approved", "rejected"} /\ (row.studentId = "none" <=> card = "none")
  BY <1>1, <1>2, OnboardingTypes, RowFields, CurrentHere DEF RepFits
<1>4. n \in 0..2 /\ n # 0
  BY <1>2, OnboardingTypes, RowFields
<1>5. row' = [row EXCEPT !.application = "approved", !.isRep = TRUE, !.spaces = n, !.studentId = card]
  BY <1>1, OnboardingTypes DEF ApproveApplication, Row
<1>6. ~hist.overlap => hist.seen = row.studentIdFile /\ n <= 1
  <2> SUFFICES ASSUME ~hist.overlap PROVE hist.seen = row.studentIdFile /\ n <= 1
    OBVIOUS
  <2>1. hist.seen = row.studentIdFile /\ row.application = "pending"
    BY <1>1, <1>2, CurrentHere DEF Current
  <2>2. row.spaces = 0
    BY <2>1 DEF OnboardingInv
  <2> QED BY <2>1, <2>2
<1> HIDE DEF card, n
<1>7. /\ row' \in Row /\ row'.studentId = card /\ row'.studentIdFile = row.studentIdFile
      /\ row'.kycStatus = row.kycStatus /\ row'.payoutsActive = row.payoutsActive /\ row'.person = row.person
      /\ row'.application = "approved" /\ row'.spaces = n /\ row'.kycAttempts = row.kycAttempts
  BY <1>3, <1>4, <1>5, OnboardingTypes DEF Row
<1>8. ~hist.overlap /\ ~event /\ row'.person /\ hist'.last = "bachs" => Match'
  BY <1>1, <1>2, <1>7, MatchElsewhere DEF Match
<1> QED BY <1>1, <1>2, <1>3, <1>6, <1>7, <1>8, AloneFacts, OnboardingTypes, RowEnds

LEMMA RejectKeeps ==
  ASSUME OnboardingInv, NEW h \in Reps, RejectApplication(h)
  PROVE  OnboardingInv'
<1>1. PICK c \in RepCall : c = rcall[h]
  BY OnboardingTypes
<1>2. c.at = "reject" /\ RepGoto(h, RepIdle) /\ UNCHANGED <<bachs, event, stored, hist>> /\ c # RepIdle
  BY <1>1, IdleHasNothing DEF RejectApplication
<1>3. row' = [row EXCEPT !.application = "rejected"]
  BY DEF RejectApplication
<1>4. /\ row' \in Row /\ row'.studentId = row.studentId /\ row'.studentIdFile = row.studentIdFile
      /\ row'.kycStatus = row.kycStatus /\ row'.payoutsActive = row.payoutsActive /\ row'.person = row.person
      /\ row'.application = "rejected" /\ row'.spaces = row.spaces /\ row'.kycAttempts = row.kycAttempts
  BY <1>3, OnboardingTypes DEF Row
<1>5. ~hist.overlap /\ ~event /\ row'.person /\ hist'.last = "bachs" => Match'
  BY <1>1, <1>2, <1>4, MatchElsewhere DEF Match
<1> QED BY <1>1, <1>2, <1>4, <1>5, AloneFacts, OnboardingTypes, RowEnds

(* The answer of Bachs is written over the row that was read.               *)
LEMMA ApplyKeeps ==
  ASSUME OnboardingInv, NEW h \in Reps, ApplyVerdict(h)
  PROVE  OnboardingInv' /\ (~hist.overlap => hist'.refusals <= hist.refusals)
<1>1. PICK c \in RepCall : c = rcall[h]
  BY OnboardingTypes
<1>2. c.at = "apply" /\ RepGoto(h, RepIdle) /\ UNCHANGED <<bachs, event, stored>> /\ c # RepIdle
  BY <1>1, IdleHasNothing DEF ApplyVerdict
<1>3. c.read \in Read /\ c.verdict \in Verdicts /\ c.payouts \in BOOLEAN
  BY <1>2, RepFields
<1> DEFINE became == c.verdict = "rejected" /\ c.read.kycStatus # "rejected"
           attempts == IF became THEN c.read.kycAttempts + 1 ELSE c.read.kycAttempts
           n == IF c.verdict = "verified" THEN 0 ELSE attempts
           lock == IF became /\ Locks(attempts) THEN TRUE ELSE c.read.locked
           r == [row EXCEPT !.kycStatus = c.verdict, !.payoutsActive = c.payouts, !.kycAttempts = n, !.locked = lock]
           m == IF c.verdict = "verified" THEN 0 ELSE hist.refusals
           hs == [hist EXCEPT !.last = "bachs", !.refusals = m]
<1>4. attempts <= MaxRefusals
  BY <1>1 DEF ApplyVerdict
<1>5. c.read.kycAttempts \in Attempts /\ c.read.locked \in BOOLEAN
  BY <1>3 DEF Read, Attempts
<1>6. row' = r /\ Record(hs)
  BY <1>1, OnboardingTypes DEF ApplyVerdict, Hist
<1>7. attempts \in Attempts /\ c.read.kycAttempts <= attempts
  BY <1>4, <1>5, OnboardingAssumption DEF Attempts
<1>8. n \in Attempts /\ 0 \in Attempts
  BY <1>7, OnboardingAssumption DEF Attempts
<1>9. lock \in BOOLEAN
  <2>1. CASE became /\ Locks(attempts)
    BY <2>1
  <2>2. CASE ~(became /\ Locks(attempts))
    <3>1. lock = c.read.locked
      BY <2>2
    <3> QED BY <1>5, <3>1
  <2> QED BY <2>1, <2>2
<1>10. ~hist.overlap => m <= n
  <2> SUFFICES ASSUME ~hist.overlap PROVE m <= n
    OBVIOUS
  <2>1. hist.refusals <= c.read.kycAttempts /\ hist.refusals \in Attempts
    BY <1>1, <1>2, CurrentHere, OnboardingTypes, HistFields DEF Current
  <2> QED BY <1>5, <1>7, <2>1 DEF Attempts
<1>11. m \in Attempts /\ m <= hist.refusals
  BY <1>8, OnboardingTypes, HistFields DEF Attempts
<1> HIDE DEF became, attempts, n, lock, m
<1>12. /\ r \in Row /\ r.kycStatus = c.verdict /\ r.payoutsActive = c.payouts /\ r.kycAttempts = n
       /\ r.application = row.application /\ r.spaces = row.spaces
       /\ r.studentId = row.studentId /\ r.studentIdFile = row.studentIdFile
  BY <1>3, <1>8, <1>9, OnboardingTypes DEF Row, Attempts
<1>13. /\ hs \in Hist /\ hs.overlap = hist.overlap /\ hs.seen = hist.seen /\ hs.refusals = m
  BY <1>11, OnboardingTypes DEF Hist, Attempts
<1> HIDE DEF r, hs
<1>14. hist' \in Hist /\ hist'.overlap = hist.overlap /\ (~hist.overlap => hist' = hs)
  BY <1>6, <1>13, Recorded
<1>15. ASSUME ~hist.overlap, ~event PROVE Match'
  <2>1. c.verdict = bachs.verdict /\ c.payouts = bachs.payouts
    BY <1>1, <1>2, <1>15, CurrentHere DEF Current
  <2> QED BY <1>2, <1>6, <1>12, <2>1 DEF Match
<1>16. ASSUME ~hist.overlap
       PROVE  /\ row'.spaces <= 1 /\ hist'.refusals <= row'.kycAttempts
              /\ row'.studentId = "approved" => row'.studentIdFile = hist'.seen
  BY <1>6, <1>10, <1>12, <1>13, <1>14, <1>16, AloneFacts
<1>17. row'.application = "pending" => row'.spaces = 0
  BY <1>6, <1>12 DEF OnboardingInv
<1>18. OnboardingInv'
  BY <1>1, <1>2, <1>6, <1>12, <1>14, <1>15, <1>16, <1>17, RowEnds
<1> QED BY <1>11, <1>13, <1>14, <1>18

(* A handler begins, and is alone or overlaps.                              *)
LEMMA BeganAlone ==
  ASSUME OnboardingInv, NEW h \in Reps, NEW hs \in Hist, ~hist.overlap, ~hs.overlap, hs.refusals = hist.refusals, Began(h, hs)
  PROVE  /\ hist' \in Hist /\ hist'.refusals <= hist.refusals
         /\ ~hist'.overlap => hist' = hs /\ \A g \in Reps \ {h} : rcall[g] = RepIdle
<1>1. hist.refusals \in Attempts /\ 0 <= hist.refusals /\ hist.refusals <= hist.refusals
  BY OnboardingTypes, HistFields DEF Attempts
<1>2. CASE \E g \in Reps \ {h} : rcall[g] # RepIdle
  <2>1. hist' = [NoHist EXCEPT !.overlap = TRUE]
    BY <1>2 DEF Began
  <2>2. hist' = [overlap |-> TRUE, seen |-> NoFile, last |-> "bachs", refusals |-> 0]
    BY <2>1 DEF NoHist
  <2>3. 0 \in 0..MaxRefusals
    BY OnboardingAssumption
  <2>4. hist' \in Hist
    BY <2>2, <2>3 DEF Hist
  <2>5. hist'.overlap /\ hist'.refusals = 0
    BY <2>2
  <2> QED BY <1>1, <2>4, <2>5
<1>3. CASE ~\E g \in Reps \ {h} : rcall[g] # RepIdle
  <2>1. hist' = hs
    BY <1>3 DEF Began
  <2> QED BY <1>1, <1>3, <2>1
<1> QED BY <1>2, <1>3

(* Of two that run at once there is no third.                               *)
LEMMA BeganTwo ==
  ASSUME OnboardingInv, ~hist.overlap, NEW h \in Reps, rcall' \in [Reps -> RepCall],
         \A g \in Reps \ {h} : rcall'[g] = rcall[g],
         ~hist'.overlap => \A g \in Reps \ {h} : rcall[g] = RepIdle
  PROVE  TwoAtMost'
<1>1. Busy' \subseteq Busy \cup {h} /\ \A g, k \in Busy : g = k
  BY DEF OnboardingInv, TwoAtMost, Busy
<1>2. ~hist'.overlap => Busy' \subseteq {h}
  BY DEF Busy
<1> QED BY <1>1, <1>2 DEF TwoAtMost

(* What a beginning has to keep, where only the handler changes.            *)
LEMMA BeginsKeeps ==
  ASSUME OnboardingInv, NEW h \in Reps, rcall[h] = RepIdle, NEW next \in RepCall, RepGoto(h, next),
         next.at \in {"store", "refresh", "review", "approve", "reject"},
         NEW hs \in Hist, Began(h, hs), hs.overlap = hist.overlap, hs.refusals = hist.refusals, hs.last = hist.last,
         UNCHANGED <<row, bachs, stored>>, event' \in BOOLEAN, event' = event \/ next.at = "refresh",
         RepFits(next), next.at = "store" => next.attempts = row.kycAttempts /\ next.old = row.studentIdFile,
         next.at \in {"review", "approve"} => hs.seen = row.studentIdFile,
         next.at = "approve" => row.application = "pending",
         row.studentId = "approved" => hs.seen = hist.seen \/ hs.seen = row.studentIdFile
  PROVE  OnboardingInv' /\ hist'.refusals <= hist.refusals
<1>1. rcall' \in [Reps -> RepCall] /\ rcall'[h] = next /\ \A g \in Reps \ {h} : rcall'[g] = rcall[g]
  BY RepMoves
<1>2. ~hist.overlap
  BY DEF Began
<1>3. /\ hist' \in Hist /\ hist'.refusals <= hist.refusals
      /\ ~hist'.overlap => hist' = hs /\ \A g \in Reps \ {h} : rcall[g] = RepIdle
  BY <1>2, BeganAlone
<1>4. OnboardingTypeOK'
  BY <1>1, <1>3, OnboardingTypes DEF OnboardingTypeOK
<1>5. TwoAtMost'
  BY <1>1, <1>2, <1>3, BeganTwo
<1>6. CardsInv'
  <2>1. New(next) = {} /\ Doomed(next) = {} /\ Old(next) \subseteq {row.studentIdFile}
    BY DEF New, Old, Doomed
  <2>2. /\ row.studentIdFile # NoFile => row.studentIdFile \in stored
        /\ \A g \in Reps : /\ New(rcall[g]) \subseteq stored \ ({row.studentIdFile} \cup Old(rcall[g]))
                           /\ row.studentIdFile \notin Doomed(rcall[g])
    BY DEF OnboardingInv, CardsInv
  <2>3. ASSUME NEW g \in Reps
        PROVE  /\ New(rcall'[g]) \subseteq stored' \ ({row'.studentIdFile} \cup Old(rcall'[g]))
               /\ row'.studentIdFile \notin Doomed(rcall'[g])
    <3>1. CASE g = h
      BY <1>1, <2>1, <3>1
    <3>2. CASE g # h
      BY <1>1, <2>2, <3>2
    <3> QED BY <3>1, <3>2
  <2>4. ASSUME NEW e \in Reps, NEW g \in Reps \ {e}
        PROVE  New(rcall'[e]) \cap (New(rcall'[g]) \cup Old(rcall'[g]) \cup Doomed(rcall'[g])) = {}
    <3>1. CASE e = h
      BY <1>1, <2>1, <3>1
    <3>2. CASE g = h
      BY <1>1, <2>1, <2>2, <3>2
    <3>3. CASE e # h /\ g # h
      BY <1>1, <3>3 DEF OnboardingInv, CardsInv
    <3> QED BY <3>1, <3>2, <3>3
  <2> QED BY <2>2, <2>3, <2>4 DEF CardsInv, New, Old, Doomed
<1>7. PersonsInv'
  BY PersonsStep
<1>8. (\A g \in Reps : RepFits(rcall[g]))'
  <2>1. ASSUME NEW g \in Reps, g # h PROVE RepFits(rcall[g])'
    <3>1. RepFits(rcall[g]) /\ rcall'[g] = rcall[g]
      BY <1>1, <2>1 DEF OnboardingInv
    <3> QED BY <3>1 DEF RepFits
  <2>2. RepFits(rcall[h])'
    BY <1>1 DEF RepFits
  <2> QED BY <2>1, <2>2
<1>9. AloneInv'
  <2> SUFFICES ASSUME ~hist'.overlap PROVE AloneInv'
    BY DEF AloneInv
  <2>1. hist' = hs /\ \A g \in Reps \ {h} : rcall[g] = RepIdle /\ rcall'[g] = RepIdle
    BY <1>1, <1>3
  <2>2. hs.refusals <= row.kycAttempts /\ bachs.persons <= 1 /\ row.spaces <= 1
        /\ (row.studentId = "approved" => row.studentIdFile = hs.seen)
    BY <1>2, AloneFacts
  <2>3. Current(rcall[h])'
    BY <1>1, <2>1, <2>2 DEF Current
  <2>4. (\A g \in Reps : Current(rcall[g]))'
    BY <2>1, <2>3, IdleHasNothing DEF Current
  <2>5. \A g \in Reps : rcall[g].at \notin {"refresh", "ask", "apply"}
    BY <2>1, IdleHasNothing
  <2>6. ~event /\ row.person /\ hist.last = "bachs" => row.kycStatus = bachs.verdict /\ row.payoutsActive = bachs.payouts
    BY <1>2, <2>5 DEF OnboardingInv, AloneInv, FollowsInv
  <2>7. FollowsInv'
    BY <1>1, <2>1, <2>6 DEF FollowsInv
  <2> QED BY <2>1, <2>2, <2>4, <2>7 DEF AloneInv
<1>10. row'.application = "pending" => row'.spaces = 0
  BY DEF OnboardingInv
<1> QED BY <1>3, <1>4, <1>5, <1>6, <1>7, <1>8, <1>9, <1>10 DEF OnboardingInv

(* And where an admin writes to the row at once.                            *)
LEMMA WritesKeeps ==
  ASSUME OnboardingInv, NEW h \in Reps, rcall[h] = RepIdle, NEW hs \in Hist, Began(h, hs), hs.overlap = hist.overlap,
         hs.refusals = hist.refusals, hs.seen = hist.seen, UNCHANGED <<bachs, event, stored, rcall>>, row' \in Row,
         row'.studentId = row.studentId, row'.studentIdFile = row.studentIdFile, row'.spaces = row.spaces,
         row'.kycAttempts = row.kycAttempts, row'.application # "pending" \/ row'.application = row.application,
         row'.person = row.person, hs.last = "admin" \/ (hs.last = hist.last /\ row'.kycStatus = row.kycStatus /\ row'.payoutsActive = row.payoutsActive)
  PROVE  OnboardingInv' /\ hist'.refusals <= hist.refusals
<1>1. ~hist.overlap
  BY DEF Began
<1>2. /\ hist' \in Hist /\ hist'.refusals <= hist.refusals
      /\ ~hist'.overlap => hist' = hs /\ \A g \in Reps \ {h} : rcall[g] = RepIdle
  BY <1>1, BeganAlone
<1>3. OnboardingTypeOK'
  BY <1>2, OnboardingTypes DEF OnboardingTypeOK
<1>4. TwoAtMost'
  BY <1>1, <1>2, OnboardingTypes, BeganTwo
<1>5. CardsInv' /\ PersonsInv'
  BY DEF OnboardingInv, CardsInv, PersonsInv, New, Old, Doomed, Adds
<1>6. (\A g \in Reps : RepFits(rcall[g]))'
  BY DEF OnboardingInv, RepFits
<1>7. AloneInv'
  <2> SUFFICES ASSUME ~hist'.overlap PROVE AloneInv'
    BY DEF AloneInv
  <2>1. hist' = hs /\ \A g \in Reps : rcall[g] = RepIdle /\ rcall'[g] = RepIdle
    BY <1>2
  <2>2. hs.refusals <= row.kycAttempts /\ bachs.persons <= 1 /\ row.spaces <= 1
        /\ (row.studentId = "approved" => row.studentIdFile = hs.seen)
    BY <1>1, AloneFacts
  <2>3. (\A g \in Reps : Current(rcall[g]))'
    BY <2>1, IdleHasNothing DEF Current
  <2>4. \A g \in Reps : rcall[g].at \notin {"refresh", "ask", "apply"}
    BY <2>1, IdleHasNothing
  <2>5. ~event /\ row.person /\ hist.last = "bachs" => row.kycStatus = bachs.verdict /\ row.payoutsActive = bachs.payouts
    BY <1>1, <2>4 DEF OnboardingInv, AloneInv, FollowsInv
  <2>6. FollowsInv'
    BY <2>1, <2>4, <2>5 DEF FollowsInv
  <2> QED BY <2>1, <2>2, <2>3, <2>6 DEF AloneInv
<1>8. row'.application = "pending" => row'.spaces = 0
  BY DEF OnboardingInv
<1> QED BY <1>2, <1>3, <1>4, <1>5, <1>6, <1>7, <1>8 DEF OnboardingInv

LEMMA SubmissionKeeps ==
  ASSUME OnboardingInv, NEW h \in Reps, NEW what \in {"kyc", "card"}, RepStart(h, Submission(what)), Began(h, hist),
         UNCHANGED <<row, bachs, event, stored>>
  PROVE  OnboardingInv' /\ hist'.refusals <= hist.refusals
<1> DEFINE next == Submission(what)
<1>1. row.studentIdFile \in MaybeFile /\ row.kycAttempts \in Attempts /\ row.person \in BOOLEAN
  BY OnboardingTypes, RowFields
<1>2. next \in RepCall /\ next.at = "store" /\ next.attempts = row.kycAttempts /\ next.old = row.studentIdFile
  BY <1>1, RepPlaces DEF Submission
<1>3. rcall[h] = RepIdle /\ RepGoto(h, next)
  BY DEF RepStart
<1> HIDE DEF next
<1>4. RepFits(next)
  BY <1>2 DEF RepFits
<1> QED BY <1>2, <1>3, <1>4, OnboardingTypes, BeginsKeeps

LEMMA RefreshBegins ==
  ASSUME OnboardingInv, NEW h \in Reps, RepStart(h, [at |-> "refresh"]), Began(h, hist),
         event' \in BOOLEAN, UNCHANGED <<row, bachs, stored>>
  PROVE  OnboardingInv' /\ hist'.refusals <= hist.refusals
<1> DEFINE next == [at |-> "refresh"]
<1>2. next \in RepCall /\ next.at = "refresh"
  BY RepPlaces
<1>3. rcall[h] = RepIdle /\ RepGoto(h, next)
  BY DEF RepStart
<1> HIDE DEF next
<1>4. RepFits(next)
  BY <1>2 DEF RepFits
<1> QED BY <1>2, <1>3, <1>4, OnboardingTypes, BeginsKeeps

(* An admin is shown the card that is on the row.                           *)
LEMMA ShownIsTheCard ==
  ASSUME OnboardingInv
  PROVE  /\ Shown \in Hist /\ Shown.overlap = hist.overlap /\ Shown.seen = row.studentIdFile
         /\ Shown.last = hist.last /\ Shown.refusals = hist.refusals
  BY OnboardingTypes, RowFields, SeenStep DEF Shown

LEMMA ReviewBegins ==
  ASSUME OnboardingInv, NEW h \in Reps, NEW decision \in {"approved", "rejected"}, ReviewStudentId(h, decision)
  PROVE  OnboardingInv' /\ hist'.refusals <= hist.refusals
<1> DEFINE next == [at |-> "review", decision |-> decision]
           hs == Shown
<1>1. hs \in Hist /\ hs.overlap = hist.overlap /\ hs.seen = row.studentIdFile /\ hs.last = hist.last /\ hs.refusals = hist.refusals
  BY ShownIsTheCard
<1>2. next \in RepCall /\ next.at = "review"
  BY RepPlaces
<1>3. rcall[h] = RepIdle /\ RepGoto(h, next) /\ Began(h, hs) /\ row.studentId = "pending" /\ UNCHANGED <<row, bachs, event, stored>>
  BY DEF ReviewStudentId, RepStart
<1> HIDE DEF next, hs
<1>4. RepFits(next)
  BY <1>2, <1>3 DEF RepFits
<1> QED BY <1>1, <1>2, <1>3, <1>4, OnboardingTypes, BeginsKeeps

LEMMA VerifyBegins ==
  ASSUME OnboardingInv, NEW h \in Reps, VerifyRep(h)
  PROVE  OnboardingInv' /\ hist'.refusals <= hist.refusals
<1> DEFINE pend == row.studentId = "pending"
           next == [at |-> "approve", pendingCard |-> pend]
           hs == Shown
<1>1. hs \in Hist /\ hs.overlap = hist.overlap /\ hs.seen = row.studentIdFile /\ hs.last = hist.last /\ hs.refusals = hist.refusals
  BY ShownIsTheCard
<1>2. next \in RepCall /\ next.at = "approve"
  BY RepPlaces
<1>3. /\ rcall[h] = RepIdle /\ RepGoto(h, next) /\ Began(h, hs) /\ UNCHANGED <<row, bachs, event, stored>>
      /\ row.studentId \in {"pending", "approved"} /\ row.application = "pending"
  BY DEF VerifyRep, RepStart
<1> HIDE DEF next, hs
<1>4. RepFits(next)
  BY <1>2, <1>3 DEF RepFits
<1> QED BY <1>1, <1>2, <1>3, <1>4, OnboardingTypes, BeginsKeeps

LEMMA RejectBegins ==
  ASSUME OnboardingInv, NEW h \in Reps, RejectRep(h)
  PROVE  OnboardingInv' /\ hist'.refusals <= hist.refusals
<1> DEFINE next == [at |-> "reject"]
<1>2. next \in RepCall /\ next.at = "reject"
  BY RepPlaces
<1>3. rcall[h] = RepIdle /\ RepGoto(h, next) /\ Began(h, hist) /\ UNCHANGED <<row, bachs, event, stored>>
  BY DEF RejectRep, RepStart
<1> HIDE DEF next
<1>4. RepFits(next)
  BY <1>2 DEF RepFits
<1> QED BY <1>2, <1>3, <1>4, OnboardingTypes, BeginsKeeps

LEMMA RevokeKeeps ==
  ASSUME OnboardingInv, NEW h \in Reps, RevokeKyc(h)
  PROVE  OnboardingInv' /\ hist'.refusals <= hist.refusals
<1> DEFINE hs == [hist EXCEPT !.last = "admin"]
<1>1. hs \in Hist /\ hs.overlap = hist.overlap /\ hs.seen = hist.seen /\ hs.last = "admin" /\ hs.refusals = hist.refusals
  BY OnboardingTypes, LastStep
<1>2. rcall[h] = RepIdle /\ Began(h, hs) /\ UNCHANGED <<bachs, event, stored, rcall>> /\ row' = [row EXCEPT !.kycStatus = "rejected"]
  BY DEF RevokeKyc
<1> HIDE DEF hs
<1>3. /\ row' \in Row /\ row'.studentId = row.studentId /\ row'.studentIdFile = row.studentIdFile
      /\ row'.application = row.application /\ row'.spaces = row.spaces /\ row'.kycAttempts = row.kycAttempts
      /\ row'.person = row.person
  BY <1>2, OnboardingTypes DEF Row, Verdicts
<1> QED BY <1>1, <1>2, <1>3, WritesKeeps

LEMMA AttachKeeps ==
  ASSUME OnboardingInv, NEW h \in Reps, AttachRep(h)
  PROVE  OnboardingInv' /\ hist'.refusals <= hist.refusals
<1>1. /\ rcall[h] = RepIdle /\ Began(h, hist) /\ UNCHANGED <<bachs, event, stored, rcall>>
      /\ row' = [row EXCEPT !.application = "approved", !.isRep = TRUE]
  BY DEF AttachRep
<1>2. /\ row' \in Row /\ row'.studentId = row.studentId /\ row'.studentIdFile = row.studentIdFile
      /\ row'.application = "approved" /\ row'.spaces = row.spaces /\ row'.kycAttempts = row.kycAttempts
      /\ row'.person = row.person /\ row'.kycStatus = row.kycStatus /\ row'.payoutsActive = row.payoutsActive
  BY <1>1, OnboardingTypes DEF Row
<1> QED BY <1>1, <1>2, OnboardingTypes, WritesKeeps

LEMMA BachsKeeps ==
  ASSUME OnboardingInv, BachsDecides
  PROVE  OnboardingInv'
<1>1. /\ event' = TRUE /\ UNCHANGED <<row, stored, rcall, hist>> /\ bachs.persons > 0
      /\ \E v \in Verdicts, p \in BOOLEAN : bachs' = [bachs EXCEPT !.verdict = v, !.payouts = p]
  BY DEF BachsDecides
<1>2. bachs' \in Bachs /\ bachs'.persons = bachs.persons
  BY <1>1, OnboardingTypes DEF Bachs
<1>3. OnboardingTypeOK'
  BY <1>1, <1>2, OnboardingTypes DEF OnboardingTypeOK
<1>4. TwoAtMost' /\ CardsInv' /\ PersonsInv'
  BY <1>1, <1>2 DEF OnboardingInv, TwoAtMost, Busy, CardsInv, New, Old, Doomed, PersonsInv, Adds
<1>5. (\A g \in Reps : RepFits(rcall[g]))'
  BY <1>1 DEF OnboardingInv, RepFits
<1>6. AloneInv'
  BY <1>1, <1>2 DEF OnboardingInv, AloneInv, Current, FollowsInv
<1>7. row'.application = "pending" => row'.spaces = 0
  BY <1>1 DEF OnboardingInv
<1> QED BY <1>3, <1>4, <1>5, <1>6, <1>7 DEF OnboardingInv

LEMMA LockEnds ==
  ASSUME OnboardingInv, LockPasses
  PROVE  OnboardingInv'
<1>1. row' = [row EXCEPT !.locked = FALSE] /\ UNCHANGED <<bachs, event, stored, rcall, hist>>
  BY DEF LockPasses
<1>2. /\ row' \in Row /\ row'.studentId = row.studentId /\ row'.studentIdFile = row.studentIdFile
      /\ row'.application = row.application /\ row'.spaces = row.spaces /\ row'.kycAttempts = row.kycAttempts
      /\ row'.person = row.person /\ row'.kycStatus = row.kycStatus /\ row'.payoutsActive = row.payoutsActive
  BY <1>1, OnboardingTypes DEF Row
<1>3. OnboardingTypeOK'
  BY <1>1, <1>2, OnboardingTypes DEF OnboardingTypeOK
<1>4. TwoAtMost' /\ CardsInv' /\ PersonsInv'
  BY <1>1, <1>2 DEF OnboardingInv, TwoAtMost, Busy, CardsInv, New, Old, Doomed, PersonsInv, Adds
<1>5. (\A g \in Reps : RepFits(rcall[g]))'
  BY <1>1, <1>2 DEF OnboardingInv, RepFits
<1>6. AloneInv'
  BY <1>1, <1>2 DEF OnboardingInv, AloneInv, Current, FollowsInv
<1>7. row'.application = "pending" => row'.spaces = 0
  BY <1>2 DEF OnboardingInv
<1> QED BY <1>3, <1>4, <1>5, <1>6, <1>7 DEF OnboardingInv

LEMMA OnboardingStart ==
  ASSUME OnboardingInit
  PROVE  OnboardingInv
<1>1. /\ row = [application |-> "pending", isRep |-> FALSE, spaces |-> 0, kycStatus |-> "unverified",
                person |-> FALSE, payoutsActive |-> FALSE, kycAttempts |-> 0, locked |-> FALSE,
                studentId |-> "none", studentIdFile |-> NoFile]
      /\ bachs = [persons |-> 0, verdict |-> "pending", payouts |-> FALSE]
      /\ event = FALSE /\ stored = {} /\ rcall = [h \in Reps |-> RepIdle]
      /\ hist = [overlap |-> FALSE, seen |-> NoFile, last |-> "bachs", refusals |-> 0]
  BY DEF OnboardingInit, NoHist
<1>2. 0 \in 0..MaxRefusals
  BY OnboardingAssumption
<1>3. row \in Row
  BY <1>1, <1>2 DEF Row
<1>4. bachs \in Bachs
  BY <1>1 DEF Bachs, Verdicts
<1>5. hist \in Hist
  BY <1>1, <1>2 DEF Hist
<1>6. \A h \in Reps : rcall[h] = RepIdle
  BY <1>1
<1>7. OnboardingTypeOK
  BY <1>1, <1>3, <1>4, <1>5, IdleHasNothing DEF OnboardingTypeOK
<1>8. TwoAtMost /\ CardsInv /\ PersonsInv
  <2>1. \A h \in Reps : /\ New(rcall[h]) = {} /\ Doomed(rcall[h]) = {} /\ ~Adds(h)
    BY <1>6, IdleHasNothing DEF Adds
  <2>2. TwoAtMost
    BY <1>6 DEF TwoAtMost, Busy
  <2>3. CardsInv
    BY <1>1, <2>1 DEF CardsInv
  <2>4. PersonsInv
    BY <2>1 DEF PersonsInv
  <2> QED BY <2>2, <2>3, <2>4
<1>9. (\A h \in Reps : RepFits(rcall[h]) /\ Current(rcall[h])) /\ FollowsInv
  BY <1>1, <1>6, IdleHasNothing DEF FollowsInv
<1>10. bachs.persons = 0 /\ row.spaces = 0 /\ hist.refusals = 0 /\ row.kycAttempts = 0 /\ row.studentId = "none"
  BY <1>1
<1> QED BY <1>7, <1>8, <1>9, <1>10 DEF OnboardingInv, AloneInv

(* A refusal is counted by recordFailedAttempt alone, and the third locks.  *)
Third == ~hist.overlap /\ hist'.refusals > hist.refusals /\ hist'.refusals >= MAX_KYC_ATTEMPTS => row'.locked

LEMMA NotThird ==
  ASSUME OnboardingInv, OnboardingInv', ~hist.overlap => hist'.refusals <= hist.refusals
  PROVE  Third
<1>1. hist.refusals \in Nat /\ hist'.refusals \in Nat
  BY OnboardingTypes, HistFields DEF OnboardingInv, OnboardingTypeOK, Hist
<1> QED BY <1>1 DEF Third

(* The handlers that begin count no refusal;                                *)
LEMMA BeginningStep ==
  ASSUME OnboardingInv, NEW h \in Reps,
         \/ SubmitKyc(h) \/ ResubmitStudentId(h) \/ IdentityEvent(h) \/ SubmitPayoutDestination(h)
         \/ VerifyRep(h) \/ RejectRep(h) \/ RevokeKyc(h) \/ AttachRep(h)
         \/ \E decision \in {"approved", "rejected"} : ReviewStudentId(h, decision)
  PROVE  OnboardingInv' /\ Third
<1>1. CASE SubmitKyc(h) \/ ResubmitStudentId(h)
  <2>1. PICK what \in {"kyc", "card"} : RepStart(h, Submission(what))
    BY <1>1 DEF SubmitKyc, ResubmitStudentId
  <2>2. Began(h, hist) /\ UNCHANGED <<row, bachs, event, stored>>
    BY <1>1 DEF SubmitKyc, ResubmitStudentId
  <2> QED BY <2>1, <2>2, SubmissionKeeps, NotThird
<1>2. CASE IdentityEvent(h) \/ SubmitPayoutDestination(h)
  <2>1. /\ RepStart(h, [at |-> "refresh"]) /\ Began(h, hist) /\ event' \in BOOLEAN /\ UNCHANGED <<row, bachs, stored>>
    BY <1>2, OnboardingTypes DEF IdentityEvent, SubmitPayoutDestination
  <2> QED BY <2>1, RefreshBegins, NotThird
<1>3. CASE VerifyRep(h)
  BY <1>3, VerifyBegins, NotThird
<1>4. CASE RejectRep(h)
  BY <1>4, RejectBegins, NotThird
<1>5. CASE RevokeKyc(h)
  BY <1>5, RevokeKeeps, NotThird
<1>6. CASE AttachRep(h)
  BY <1>6, AttachKeeps, NotThird
<1>7. CASE \E decision \in {"approved", "rejected"} : ReviewStudentId(h, decision)
  BY <1>7, ReviewBegins, NotThird
<1> QED BY <1>1, <1>2, <1>3, <1>4, <1>5, <1>6, <1>7

(* nor do the steps of a submission, of a review and of the file store.     *)
LEMMA StoreCountsNone ==
  ASSUME OnboardingInv, NEW h \in Reps, StoreStudentId(h)
  PROVE  ~hist.overlap => hist'.refusals <= hist.refusals
<1>1. hist.refusals <= hist.refusals
  BY OnboardingTypes, HistFields DEF Attempts
<1>2. PICK s : hist' = hist \/ (Record([hist EXCEPT !.seen = s]))
  BY DEF StoreStudentId
<1>3. hist'.refusals = hist.refusals
  BY <1>2, OnboardingTypes DEF Record, Hist
<1> QED BY <1>1, <1>3

LEMMA WriteCountsNone ==
  ASSUME OnboardingInv, NEW h \in Reps, WriteSubmission(h)
  PROVE  ~hist.overlap => hist'.refusals <= hist.refusals
<1>1. hist.refusals <= hist.refusals
  BY OnboardingTypes, HistFields DEF Attempts
<1>2. Record([hist EXCEPT !.last = "bachs"])
  BY DEF WriteSubmission
<1>3. hist'.refusals = hist.refusals
  BY <1>2, OnboardingTypes DEF Record, Hist
<1> QED BY <1>1, <1>3

LEMMA HandlerStep ==
  ASSUME OnboardingInv, NEW h \in Reps,
         \/ StoreStudentId(h) \/ FindRepresentative(h) \/ SendPerson(h) \/ RecordFailedAttempt(h)
         \/ WriteSubmission(h) \/ WriteCard(h) \/ DiscardFile(h) \/ RefreshIdentity(h) \/ GetIdentityStatus(h)
         \/ ApplyVerdict(h) \/ WriteReview(h) \/ ApproveApplication(h) \/ RejectApplication(h) \/ RepInterrupt(h)
  PROVE  OnboardingInv' /\ Third
<1>q. hist.refusals <= hist.refusals
  BY OnboardingTypes, HistFields DEF Attempts
<1>1. CASE StoreStudentId(h)
  BY <1>1, StoreKeeps, StoreCountsNone, NotThird
<1>2. CASE FindRepresentative(h)
  <2>1. hist' = hist
    BY <1>2 DEF FindRepresentative
  <2> QED BY <1>q, <1>2, <2>1, FindKeeps, NotThird
<1>3. CASE SendPerson(h)
  <2>1. hist' = hist
    BY <1>3 DEF SendPerson
  <2> QED BY <1>q, <1>3, <2>1, SendKeeps, NotThird
<1>4. CASE RecordFailedAttempt(h)
  BY <1>4, RefusalKeeps DEF Third
<1>5. CASE WriteSubmission(h)
  BY <1>5, WriteKeeps, WriteCountsNone, NotThird
<1>6. CASE WriteCard(h)
  <2>1. hist' = hist
    BY <1>6 DEF WriteCard
  <2> QED BY <1>q, <1>6, <2>1, CardKeeps, NotThird
<1>7. CASE DiscardFile(h)
  <2>1. hist' = hist
    BY <1>7 DEF DiscardFile
  <2> QED BY <1>q, <1>7, <2>1, DiscardKeeps, NotThird
<1>8. CASE RefreshIdentity(h)
  <2>1. hist' = hist
    BY <1>8 DEF RefreshIdentity
  <2> QED BY <1>q, <1>8, <2>1, RefreshKeeps, NotThird
<1>9. CASE GetIdentityStatus(h)
  <2>1. hist' = hist
    BY <1>9 DEF GetIdentityStatus
  <2> QED BY <1>q, <1>9, <2>1, AskKeeps, NotThird
<1>10. CASE ApplyVerdict(h)
  BY <1>10, ApplyKeeps, NotThird
<1>11. CASE WriteReview(h)
  <2>1. hist' = hist
    BY <1>11 DEF WriteReview
  <2> QED BY <1>q, <1>11, <2>1, ReviewKeeps, NotThird
<1>12. CASE ApproveApplication(h)
  <2>1. hist' = hist
    BY <1>12 DEF ApproveApplication
  <2> QED BY <1>q, <1>12, <2>1, ApproveKeeps, NotThird
<1>13. CASE RejectApplication(h)
  <2>1. hist' = hist
    BY <1>13 DEF RejectApplication
  <2> QED BY <1>q, <1>13, <2>1, RejectKeeps, NotThird
<1>14. CASE RepInterrupt(h)
  <2>1. hist' = hist
    BY <1>14 DEF RepInterrupt
  <2> QED BY <1>q, <1>14, <2>1, InterruptKeeps, NotThird
<1> QED BY <1>1, <1>2, <1>3, <1>4, <1>5, <1>6, <1>7, <1>8, <1>9, <1>10, <1>11, <1>12, <1>13, <1>14

LEMMA OnboardingStep ==
  ASSUME OnboardingInv, [OnboardingNext]_onboardingVars
  PROVE  OnboardingInv' /\ Third
<1>q. hist.refusals <= hist.refusals
  BY OnboardingTypes, HistFields DEF Attempts
<1>1. CASE UNCHANGED onboardingVars
  <2>1. OnboardingInv'
    BY <1>1 DEF onboardingVars, OnboardingInv, OnboardingTypeOK, TwoAtMost, Busy, CardsInv, New, Old, Doomed,
                PersonsInv, Adds, RepFits, AloneInv, Current, FollowsInv
  <2>2. hist' = hist
    BY <1>1 DEF onboardingVars
  <2> QED BY <1>q, <2>1, <2>2, NotThird
<1>2. CASE BachsDecides
  <2>1. hist' = hist
    BY <1>2 DEF BachsDecides
  <2> QED BY <1>q, <1>2, <2>1, BachsKeeps, NotThird
<1>3. CASE LockPasses
  <2>1. hist' = hist
    BY <1>3 DEF LockPasses
  <2> QED BY <1>q, <1>3, <2>1, LockEnds, NotThird
<1> QED BY <1>1, <1>2, <1>3, BeginningStep, HandlerStep DEF OnboardingNext

(* The card on file is the one that was reviewed, the verdict is the        *)
(* provider's, about one person there, and an application makes one space:  *)
(* with any number of handlers, files and refusals (kyc.service.ts,         *)
(* admin.ts).                                                               *)
THEOREM ApplicantStaysVetted == OnboardingSpec => []ApplicantIsVetted
<1>1. ASSUME OnboardingInv PROVE ApplicantIsVetted
  <2>1. CardIsOnFile
    BY <1>1 DEF OnboardingInv, CardsInv, CardIsOnFile
  <2>2. ApprovedCardWasSeen /\ OneRepresentative /\ OneSpacePerApplication
    BY <1>1 DEF OnboardingInv, AloneInv, ApprovedCardWasSeen, OneRepresentative, OneSpacePerApplication
  <2>3. RowFollowsBachs
    <3> SUFFICES ASSUME ~hist.overlap, ~event, row.person, hist.last = "bachs", \A h \in Reps : rcall[h] = RepIdle
                 PROVE  row.kycStatus = bachs.verdict /\ row.payoutsActive = bachs.payouts
      BY DEF RowFollowsBachs
    <3>1. \A h \in Reps : rcall[h].at \notin {"refresh", "ask", "apply"}
      BY IdleHasNothing
    <3> QED BY <1>1, <3>1 DEF OnboardingInv, AloneInv, FollowsInv
  <2> QED BY <2>1, <2>2, <2>3 DEF ApplicantIsVetted
<1>2. OnboardingInit => OnboardingInv
  BY OnboardingStart
<1>3. OnboardingInv /\ [OnboardingNext]_onboardingVars => OnboardingInv'
  BY OnboardingStep
<1>4. OnboardingInv => ApplicantIsVetted
  BY <1>1
<1> QED BY <1>2, <1>3, <1>4, PTL DEF OnboardingSpec

(* The third refusal since Bachs last verified, and each one after it,      *)
(* locks the applicant out (recordFailedAttempt), as long as no two         *)
(* requests of the applicant overlap.                                       *)
THEOREM ThirdRefusalStands == OnboardingSpec => ThirdRefusalLocks
<1>1. OnboardingInit => OnboardingInv
  BY OnboardingStart
<1>2. OnboardingInv /\ [OnboardingNext]_onboardingVars => OnboardingInv'
  BY OnboardingStep
<1>3. OnboardingInv /\ [OnboardingNext]_onboardingVars
        => [hist'.refusals > hist.refusals /\ hist'.refusals >= MAX_KYC_ATTEMPTS /\ ~hist.overlap => row'.locked]_onboardingVars
  BY OnboardingStep DEF Third
<1> QED BY <1>1, <1>2, <1>3, PTL DEF OnboardingSpec, ThirdRefusalLocks

-----------------------------------------------------------------------------
(* MCReps: a behaviour of all the parts is one of each                      *)

LEMMA RepsParts ==
  /\ RepsInit => /\ OnboardingInit /\ DisputesInit /\ VotingInit /\ PartnersInit /\ BeneficiariesInit
                  /\ IdempotencyInit /\ MoneyInit
  /\ [RepsNext]_repsVars => /\ [OnboardingNext]_onboardingVars /\ [DisputesNext]_disputeVars /\ [VotingNext]_pollVars
                            /\ [PartnersNext]_partnerVars /\ [BeneficiariesNext]_beneficiaryVars
                            /\ [IdempotencyNext]_idempotencyVars /\ [MoneyNext]_moneyVars
  BY DEF RepsInit, RepsNext, repsVars

LEMMA RepsArePartsAtOnce ==
  RepsSpec => /\ OnboardingSpec /\ DisputesSpec /\ VotingSpec /\ PartnersSpec /\ BeneficiariesSpec
              /\ IdempotencySpec /\ MoneySpec
  BY RepsParts, PTL DEF RepsSpec, OnboardingSpec, DisputesSpec, VotingSpec, PartnersSpec, BeneficiariesSpec,
                        IdempotencySpec, MoneySpec

(* Every row and call of the parts stays what the code can write.           *)
THEOREM RepsTypeCorrect == RepsSpec => []RepsTypeOK
<1>1. OnboardingSpec => []OnboardingTypeOK
  <2>1. OnboardingInv => OnboardingTypeOK
    BY DEF OnboardingInv
  <2>2. OnboardingInv /\ [OnboardingNext]_onboardingVars => OnboardingInv'
    BY OnboardingStep
  <2>3. OnboardingInit => OnboardingInv
    BY OnboardingStart
  <2> QED BY <2>1, <2>2, <2>3, PTL DEF OnboardingSpec
<1>2. DisputesSpec => []DisputesTypeOK
  <2>1. DisputesInv => DisputesTypeOK
    BY DEF DisputesInv
  <2> QED BY <2>1, DisputesStart, DisputesStep, PTL DEF DisputesSpec
<1>3. VotingSpec => []VotingTypeOK
  <2>1. VotingInv => VotingTypeOK
    BY DEF VotingInv
  <2> QED BY <2>1, VotingStart, VotingStep, PTL DEF VotingSpec
<1>4. PartnersSpec => []PartnersTypeOK
  <2>1. PartnersInv => PartnersTypeOK
    BY DEF PartnersInv
  <2> QED BY <2>1, PartnersStart, PartnersStep, PTL DEF PartnersSpec
<1>5. BeneficiariesSpec => []BeneficiariesTypeOK
  <2>1. BeneficiariesInv => BeneficiariesTypeOK
    BY DEF BeneficiariesInv
  <2> QED BY <2>1, BeneficiariesStart, BeneficiariesStep, PTL DEF BeneficiariesSpec
<1>6. OnboardingTypeOK /\ DisputesTypeOK /\ VotingTypeOK /\ PartnersTypeOK /\ BeneficiariesTypeOK /\ IdempotencyTypeOK
      => RepsTypeOK
  BY DEF RepsTypeOK
<1> QED BY <1>1, <1>2, <1>3, <1>4, <1>5, <1>6, RepsArePartsAtOnce, IdempotencyTypeCorrect, PTL

(* What was decided stays decided: the third refusal of requests that do    *)
(* not overlap locks (kyc.service.ts), a dispute is decided once unless an  *)
(* overtaken claim reopened it (admin.ts), and a withdrawal in flight keeps *)
(* its target (beneficiary.service.ts).                                     *)
THEOREM RepsDecisions == RepsSpec => DecisionsHold
  BY RepsArePartsAtOnce, ThirdRefusalStands, DecisionIsKept, TargetIsKept DEF DecisionsHold

=============================================================================
