----------------------------- MODULE Idempotency -----------------------------
(***************************************************************************)
(* The requests of one user that carry the same Idempotency-Key, through   *)
(* middleware/idempotency.ts, to a handler that takes effect or is refused *)
(* (a payment, a withdrawal, a vote).                                      *)
(*                                                                         *)
(* Every await of the middleware is a step.  The response is stored, and   *)
(* the claim released, by updates nobody waits for: late[r] is the one     *)
(* that is still on its way.                                               *)
(***************************************************************************)
EXTENDS Naturals, FiniteSets

CONSTANTS Requests,
          Bodies     \* what a request asks for: its fingerprint

VARIABLES key,       \* the row of idempotency_keys
          body,      \* the body of each request
          request,   \* where each request stands
          late,      \* the update or deletion each request has under way
          closed,    \* requests whose client went away while they ran
          effects,   \* the requests whose handler took effect
          errored,   \* history: those of them that then answered with an error
          answer,    \* the request whose response was replayed to each
          expired    \* history: the key has expired, at some time

idempotencyVars == <<key, body, request, late, closed, effects, errored, answer, expired>>

-----------------------------------------------------------------------------
(* status 0 is IN_PROGRESS; by is the request whose response is stored.     *)
Key == [exists : {FALSE}]
       \cup [exists : {TRUE}, hash : Bodies, status : {0}, expired : BOOLEAN]
       \cup [exists : {TRUE}, hash : Bodies, status : {200}, expired : BOOLEAN, by : Requests]

NoKey == [exists |-> FALSE]

(* Where a request stands:                                                  *)
(* new      not sent          look     lost the claim, about to read the key *)
(* clear    read an expired key, about to delete it                         *)
(* again    about to claim a second time                                    *)
(* run      the handler runs                                                *)
(* done     answered, or dead                                               *)
RequestAt == {"new", "look", "clear", "again", "run", "done"}

IdempotencyTypeOK ==
    /\ key \in Key
    /\ body \in [Requests -> Bodies]
    /\ request \in [Requests -> RequestAt]
    /\ late \in [Requests -> {"none", "store", "release"}]
    /\ closed \subseteq Requests /\ effects \subseteq Requests /\ errored \subseteq effects
    /\ \A r \in Requests : answer[r] \in SUBSET (effects \ errored) /\ Cardinality(answer[r]) <= 1
    /\ expired \in BOOLEAN

IdempotencyInit ==
    /\ key = NoKey
    /\ body \in [Requests -> Bodies]
    /\ request = [r \in Requests |-> "new"]
    /\ late = [r \in Requests |-> "none"]
    /\ closed = {} /\ effects = {} /\ errored = {}
    /\ answer = [r \in Requests |-> {}]
    /\ expired = FALSE

To(r, place) == request' = [request EXCEPT ![r] = place]

Running == {r \in Requests : request[r] = "run"}

\* Mutant: the key is taken over, whoever has it.
Claim_Upsert(r, otherwise) ==
    /\ key' = [exists |-> TRUE, hash |-> body[r], status |-> 0, expired |-> FALSE]
    /\ To(r, "run")

(* claim: insert if absent.                                                 *)
Claim(r, otherwise) ==
    IF key.exists
    THEN To(r, otherwise) /\ UNCHANGED key
    ELSE /\ key' = [exists |-> TRUE, hash |-> body[r], status |-> 0, expired |-> FALSE]
         /\ To(r, "run")

Arrive(r) ==
    /\ request[r] = "new"
    /\ Claim(r, "look")
    /\ UNCHANGED <<body, late, closed, effects, errored, answer, expired>>

\* Mutant: the fingerprint is not compared.
Replays_AnyBody(r) == key.status # 0

(* The stored response is for the same request.                             *)
Replays(r) == key.hash = body[r] /\ key.status # 0

(* What the middleware makes of the key it reads: gone by now, expired, or  *)
(* a replay; else 422 for another request and 409 for one in progress.      *)
Look(r) ==
    /\ request[r] = "look"
    /\ IF ~key.exists THEN To(r, "again") /\ UNCHANGED answer
       ELSE IF key.expired THEN To(r, "clear") /\ UNCHANGED answer
       ELSE /\ To(r, "done")
            /\ answer' = IF Replays(r) THEN [answer EXCEPT ![r] = {key.by}] ELSE answer
    /\ UNCHANGED <<key, body, late, closed, effects, errored, expired>>

(* The key that was expired when it was read is deleted, whichever it is.   *)
Clear(r) ==
    /\ request[r] = "clear"
    /\ key' = NoKey
    /\ To(r, "again")
    /\ UNCHANGED <<body, late, closed, effects, errored, answer, expired>>

(* 409 if another was faster.                                               *)
ClaimAgain(r) ==
    /\ request[r] = "again"
    /\ Claim(r, "done")
    /\ UNCHANGED <<body, late, closed, effects, errored, answer, expired>>

(* The handler takes effect and answers with a 2xx, which is stored, unless *)
(* the close of the connection has settled the request.                     *)
Succeed(r) ==
    /\ request[r] = "run"
    /\ effects' = effects \cup {r}
    /\ late' = IF r \in closed THEN late ELSE [late EXCEPT ![r] = "store"]
    /\ To(r, "done")
    /\ UNCHANGED <<key, body, closed, errored, answer, expired>>

(* A handler that answers with an error took no effect, or took effect and  *)
(* then failed: the withdrawal or the checkout is committed, and the call   *)
(* to the provider after it, or the read for the answer, throws.            *)
ErrorAfter(r) ==
    \/ UNCHANGED <<effects, errored>>
    \/ effects' = effects \cup {r} /\ errored' = errored \cup {r}

\* Mutant: whatever the handler answers is stored.
Refuse_Stores(r) ==
    /\ request[r] = "run"
    /\ ErrorAfter(r)
    /\ late' = IF r \in closed THEN late ELSE [late EXCEPT ![r] = "store"]
    /\ To(r, "done")
    /\ UNCHANGED <<key, body, closed, answer, expired>>

(* Anything but a 2xx releases the claim, whatever was done before it.      *)
Refuse(r) ==
    /\ request[r] = "run"
    /\ ErrorAfter(r)
    /\ late' = IF r \in closed THEN late ELSE [late EXCEPT ![r] = "release"]
    /\ To(r, "done")
    /\ UNCHANGED <<key, body, closed, answer, expired>>

(* The client goes away, or its proxy gives up, while the handler runs on:  *)
(* res.on('close') releases the claim.                                      *)
Disconnect(r) ==
    /\ request[r] = "run" /\ r \notin closed
    /\ closed' = closed \cup {r}
    /\ late' = [late EXCEPT ![r] = "release"]
    /\ UNCHANGED <<key, body, request, effects, errored, answer, expired>>

(* The process dies, before or after the effect; what it had under way is   *)
(* lost and the key stays in progress.                                      *)
Die(r) ==
    /\ request[r] = "run"
    /\ effects' \in {effects, effects \cup {r}}
    /\ late' = [late EXCEPT ![r] = "none"]
    /\ To(r, "done")
    /\ UNCHANGED <<key, body, closed, errored, answer, expired>>

(* The update reaches the database, by key alone, or fails for good.        *)
StoreResponse(r) ==
    /\ late[r] = "store"
    /\ key' \in {key, IF key.exists THEN [exists |-> TRUE, hash |-> key.hash, status |-> 200, expired |-> key.expired, by |-> r]
                      ELSE key}
    /\ late' = [late EXCEPT ![r] = "none"]
    /\ UNCHANGED <<body, request, closed, effects, errored, answer, expired>>

(* The deletion of a key in progress, whose ever it is by then.             *)
Release(r) ==
    /\ late[r] = "release"
    /\ key' \in {key, IF key.exists /\ key.status = 0 THEN NoKey ELSE key}
    /\ late' = [late EXCEPT ![r] = "none"]
    /\ UNCHANGED <<body, request, closed, effects, errored, answer, expired>>

(* TTL_MS passes.                                                           *)
Expire ==
    /\ key.exists /\ ~key.expired
    /\ key' = [key EXCEPT !.expired = TRUE]
    /\ expired' = TRUE
    /\ UNCHANGED <<body, request, late, closed, effects, errored, answer>>

IdempotencyNext ==
    \/ \E r \in Requests :
          \/ Arrive(r) \/ Look(r) \/ Clear(r) \/ ClaimAgain(r)
          \/ Succeed(r) \/ Refuse(r) \/ Disconnect(r) \/ Die(r)
          \/ StoreResponse(r) \/ Release(r)
    \/ Expire

IdempotencySpec == IdempotencyInit /\ [][IdempotencyNext]_idempotencyVars
-----------------------------------------------------------------------------
(* Properties                                                              *)

(* "the handler never runs twice at once" (idempotency.ts).                 *)
NeverTwiceAtOnce == Cardinality(Running) <= 1

(* For 24 hours and as long as no client goes away, no two requests run or  *)
(* have taken effect, except for those that took effect and then answered   *)
(* with an error: the claim is released after one of these (line 97), and   *)
(* it is left to the handler (the slot of a withdrawal, the lock on a       *)
(* member's checkouts) what the retry does.  A response of success is the   *)
(* end, and so is a crash: no request follows it under this key, through    *)
(* refusals, retries and lost updates.                                      *)
OneEffectPerKey ==
    ~expired /\ closed = {} => Cardinality(Running \cup (effects \ errored)) <= 1

(* "Reusing it for a different request is a 422, never a silent replay":    *)
(* within the 24 hours a replayed response is that of the same request,     *)
(* whichever of them ran and whoever went away.                             *)
ReplayIsOfSameRequest ==
    ~expired => \A r \in Requests : \A s \in answer[r] : body[s] = body[r]
=============================================================================
