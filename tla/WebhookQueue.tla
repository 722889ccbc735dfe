---------------------------- MODULE WebhookQueue ----------------------------
(***************************************************************************)
(* The durable queue between the provider's webhooks and their handlers:   *)
(* routes/webhooks.ts and enqueueEvent store an event, jobs/webhookWorker.ts *)
(* claims and runs it in any number of processes.                          *)
(*                                                                         *)
(* A worker is one process: kickWebhookWorker lets it run one drain at a   *)
(* time.  A claim is one UPDATE; running a handler and writing down how it *)
(* went are two steps, so a worker can die between them.  What a handler   *)
(* does is Checkout's and Withdrawal's business; here it takes effect or   *)
(* not, and returns or throws.                                             *)
(***************************************************************************)
EXTENDS Integers, Sequences, SequencesExt, FiniteSets

CONSTANTS Events,         \* the provider's event ids
          Malformed,      \* those normaliseBachsEvent cannot read
          Ignored,        \* those it reads as of no interest
          Poison,         \* those whose handler throws every time
          Workers,
          NoRun,          \* a worker between two rows
          MAX_ATTEMPTS, BATCH,
          SlowWorkers,    \* may a batch take longer than STALE_LOCK_MS
          MaxCrashes, MaxThrows, MaxStoreErrors

ASSUME QueueAssumption ==
    /\ Malformed \subseteq Events /\ Ignored \subseteq Events /\ Poison \subseteq Events
    /\ Malformed \cap (Ignored \cup Poison) = {} /\ Ignored \cap Poison = {}
    /\ MAX_ATTEMPTS \in Nat \ {0} /\ BATCH \in Nat \ {0}
    /\ SlowWorkers \in BOOLEAN
    /\ MaxCrashes \in Nat /\ MaxThrows \in Nat /\ MaxStoreErrors \in Nat

VARIABLES row,         \* the webhook_events table
          queue,       \* its rows by receivedAt
          worker,      \* what each worker has claimed, and the row it is at
          sent,        \* events the provider has sent and goes on sending
          acked,       \* events it got a 200 for
          applied,     \* events whose handler has taken effect
          takeovers,   \* claims of each event from a worker that had it
          crashes, throws, storeErrors

vars == <<row, queue, worker, sent, acked, applied, takeovers, crashes, throws, storeErrors>>

-----------------------------------------------------------------------------
Row == [status   : {"none", "received", "processing", "processed", "failed", "dead"},
        attempts : Nat,
        due      : BOOLEAN,     \* nextAttemptAt has passed
        stale    : BOOLEAN]     \* lockedAt is older than STALE_LOCK_MS

NoRow == [status |-> "none", attempts |-> 0, due |-> FALSE, stale |-> FALSE]

Stored(status) == [status |-> status, attempts |-> 0, due |-> TRUE, stale |-> FALSE]

(* A claimed row as the worker read it: attempts is the claim's own number. *)
Claim == [e : Events, attempts : Nat \ {0}]

TypeOK ==
    /\ row \in [Events -> Row]
    /\ queue \in Seq(Events) /\ IsInjective(queue)
    /\ Range(queue) = {e \in Events : row[e].status # "none"}
    /\ \A w \in Workers :
          /\ worker[w].batch \subseteq Claim
          /\ worker[w].run \in {NoRun} \cup (worker[w].batch \X BOOLEAN)
    /\ acked \subseteq sent /\ sent \subseteq Events /\ applied \subseteq Events
    /\ takeovers \in [Events -> Nat]
    /\ crashes \in 0..MaxCrashes /\ throws \in 0..MaxThrows /\ storeErrors \in 0..MaxStoreErrors

NoBatch == [batch |-> {}, run |-> NoRun]

Init ==
    /\ row = [e \in Events |-> NoRow]
    /\ queue = <<>>
    /\ worker = [w \in Workers |-> NoBatch]
    /\ sent = {} /\ acked = {} /\ applied = {}
    /\ takeovers = [e \in Events |-> 0]
    /\ crashes = 0 /\ throws = 0 /\ storeErrors = 0

-----------------------------------------------------------------------------
(* POST /webhooks/bachs                                                    *)

(* The provider (external) has something to tell.                           *)
Send(e) ==
    /\ e \notin sent
    /\ sent' = sent \cup {e}
    /\ UNCHANGED <<row, queue, worker, acked, applied, takeovers, crashes, throws, storeErrors>>

(* The status an event is stored with.                                      *)
FirstStatus(e) ==
    IF e \in Malformed THEN "dead" ELSE IF e \in Ignored THEN "processed" ELSE "received"

\* Mutant: no unique key on the provider's event id.
EnqueueEvent_NoKey(e) ==
    /\ row' = [row EXCEPT ![e] = Stored(FirstStatus(e))]
    /\ queue' = Append(queue, e)

\* Mutant: a conflict overwrites the row.
EnqueueEvent_Upsert(e) ==
    /\ row' = [row EXCEPT ![e] = Stored(FirstStatus(e))]
    /\ queue' = IF row[e].status = "none" THEN Append(queue, e) ELSE queue

(* INSERT ... ON CONFLICT DO NOTHING.                                       *)
EnqueueEvent(e) ==
    IF row[e].status # "none"
    THEN UNCHANGED <<row, queue>>
    ELSE /\ row' = [row EXCEPT ![e] = Stored(FirstStatus(e))]
         /\ queue' = Append(queue, e)

(* One delivery, first or repeated: stored, then answered with a 200 that   *)
(* may get lost.                                                            *)
Receive(e) ==
    /\ e \in sent
    /\ EnqueueEvent(e)
    /\ acked' \in {acked, acked \cup {e}}
    /\ UNCHANGED <<worker, sent, applied, takeovers, crashes, throws, storeErrors>>

\* Mutant: the event is acknowledged although it could not be stored.
ReceiveUnstored_Acknowledged(e) ==
    /\ e \in sent
    /\ storeErrors < MaxStoreErrors
    /\ storeErrors' = storeErrors + 1
    /\ acked' = acked \cup {e}
    /\ UNCHANGED <<row, queue, worker, sent, applied, takeovers, crashes, throws>>

(* The database cannot take it: a 503, so that the provider sends it again; *)
(* but recordMalformedEvent hides the error, and its event gets a 200.      *)
ReceiveUnstored(e) ==
    /\ e \in sent
    /\ storeErrors < MaxStoreErrors
    /\ storeErrors' = storeErrors + 1
    /\ acked' = IF e \in Malformed THEN acked \cup {e} ELSE acked
    /\ UNCHANGED <<row, queue, worker, sent, applied, takeovers, crashes, throws>>

-----------------------------------------------------------------------------
(* The worker                                                              *)

\* Mutant: any row in processing may be claimed, however fresh its lock.
Claimable_AnyLock(e) ==
    \/ row[e].status \in {"received", "failed"} /\ row[e].due
    \/ row[e].status = "processing"

\* Mutant: a row in processing is left to its worker for ever.
Claimable_NeverReclaimed(e) == row[e].status \in {"received", "failed"} /\ row[e].due

(* The WHERE clause: due, or locked by a worker that must have died.        *)
Claimable(e) ==
    \/ row[e].status \in {"received", "failed"} /\ row[e].due
    \/ row[e].status = "processing" /\ row[e].stale

(* The BATCH oldest of them.                                                *)
Taken ==
    {queue[i] : i \in {i \in DOMAIN queue :
        Claimable(queue[i]) /\ Cardinality({j \in 1..i : Claimable(queue[j])}) <= BATCH}}

(* claimBatch.                                                              *)
ClaimBatch(w) ==
    LET taken == Taken
    IN  /\ worker[w] = NoBatch
        /\ taken # {}
        /\ row' = [e \in Events |->
                IF e \in taken
                THEN [status |-> "processing", attempts |-> row[e].attempts + 1,
                      due |-> row[e].due, stale |-> FALSE]
                ELSE row[e]]
        /\ worker' = [worker EXCEPT ![w].batch = {[e |-> e, attempts |-> row[e].attempts + 1] : e \in taken}]
        /\ takeovers' = [e \in Events |->
                IF e \in taken /\ row[e].status = "processing" THEN takeovers[e] + 1 ELSE takeovers[e]]
        /\ UNCHANGED <<queue, sent, acked, applied, crashes, throws, storeErrors>>

(* processEvent returns...                                                  *)
Handle(w, r) ==
    /\ r \in worker[w].batch /\ worker[w].run = NoRun
    /\ r.e \notin Poison
    /\ applied' = applied \cup {r.e}
    /\ worker' = [worker EXCEPT ![w].run = <<r, TRUE>>]
    /\ UNCHANGED <<row, queue, sent, acked, takeovers, crashes, throws, storeErrors>>

(* ... or throws, before or after it took effect: an unknown checkout, the  *)
(* database, the update to processed itself.                                *)
HandleThrows(w, r) ==
    /\ r \in worker[w].batch /\ worker[w].run = NoRun
    /\ IF r.e \in Poison
       THEN UNCHANGED <<applied, throws>>
       ELSE /\ throws < MaxThrows
            /\ throws' = throws + 1
            /\ applied' \in {applied, applied \cup {r.e}}
    /\ worker' = [worker EXCEPT ![w].run = <<r, FALSE>>]
    /\ UNCHANGED <<row, queue, sent, acked, takeovers, crashes, storeErrors>>

\* Mutant: a claim number is compared with > instead of >=.
Outcome_OffByOne(attempts, ok) ==
    IF ok THEN "processed" ELSE IF attempts > MAX_ATTEMPTS THEN "dead" ELSE "failed"

\* Mutant: the last failed attempt is written down as handled.
Outcome_GiveUpQuietly(attempts, ok) ==
    IF ok \/ attempts >= MAX_ATTEMPTS THEN "processed" ELSE "failed"

Outcome(attempts, ok) ==
    IF ok THEN "processed" ELSE IF attempts >= MAX_ATTEMPTS THEN "dead" ELSE "failed"

(* runOne's update, by row id alone: whoever holds the row now.             *)
Record(w) ==
    LET r == worker[w].run[1]
        ok == worker[w].run[2]
    IN  /\ worker[w].run # NoRun
        /\ row' = [row EXCEPT ![r.e] =
                [status |-> Outcome(r.attempts, ok), attempts |-> @.attempts,
                 due |-> ok /\ @.due, stale |-> FALSE]]
        /\ worker' = [worker EXCEPT ![w] = [batch |-> @.batch \ {r}, run |-> NoRun]]
        /\ UNCHANGED <<queue, sent, acked, applied, takeovers, crashes, throws, storeErrors>>

(* The process dies, or its database connection does: the drain is over and *)
(* the rest of the batch stays in processing.                               *)
Crash(w) ==
    /\ worker[w] # NoBatch
    /\ crashes < MaxCrashes
    /\ crashes' = crashes + 1
    /\ worker' = [worker EXCEPT ![w] = NoBatch]
    /\ UNCHANGED <<row, queue, sent, acked, applied, takeovers, throws, storeErrors>>

(* backoffMs passes.                                                        *)
ComesDue(e) ==
    /\ row[e].status = "failed" /\ ~row[e].due
    /\ row' = [row EXCEPT ![e].due = TRUE]
    /\ UNCHANGED <<queue, worker, sent, acked, applied, takeovers, crashes, throws, storeErrors>>

Holders(e) == {w \in Workers : \E r \in worker[w].batch : r.e = e}

(* STALE_LOCK_MS passes: by when a live worker is through with its batch,   *)
(* unless it is slow.                                                       *)
GoesStale(e) ==
    /\ row[e].status = "processing" /\ ~row[e].stale
    /\ SlowWorkers \/ Holders(e) = {}
    /\ row' = [row EXCEPT ![e].stale = TRUE]
    /\ UNCHANGED <<queue, worker, sent, acked, applied, takeovers, crashes, throws, storeErrors>>

RunOne(w) == Record(w) \/ \E r \in worker[w].batch : Handle(w, r) \/ HandleThrows(w, r)

Next ==
    \/ \E e \in Events : \/ Send(e) \/ Receive(e) \/ ReceiveUnstored(e)
                         \/ ComesDue(e) \/ GoesStale(e)
    \/ \E w \in Workers : ClaimBatch(w) \/ RunOne(w) \/ Crash(w)

Spec == Init /\ [][Next]_vars

(* The worker polls every two seconds, runs on unless it dies, and time     *)
(* passes; the provider repeats a delivery until it is acknowledged.        *)
Fairness ==
    /\ \A w \in Workers : WF_vars(ClaimBatch(w)) /\ WF_vars(RunOne(w))
    /\ \A e \in Events : WF_vars(ComesDue(e)) /\ WF_vars(GoesStale(e))
    /\ \A e \in Events : WF_vars(e \notin acked /\ Receive(e))

FairSpec == Spec /\ Fairness
-----------------------------------------------------------------------------
(* Properties                                                              *)

(* "A 5xx is returned only if we could not durably store the event, so      *)
(* Bachs retries it": an event the provider will not send again is in the   *)
(* table, whatever failed on the way.                                       *)
AckedIsStored == \A e \in acked \ Malformed : row[e].status # "none"

(* An event marked processed has had its effect, and one given up on has    *)
(* had all its attempts, even when two workers wrote about it in turn.      *)
StatusIsEarned ==
    \A e \in Events \ (Malformed \cup Ignored) :
        /\ row[e].status = "processed" => e \in applied
        /\ row[e].status = "dead" => row[e].attempts >= MAX_ATTEMPTS

(* An event is claimed at most MAX_ATTEMPTS times, and once more for each   *)
(* time it was taken over from a worker that died or was too slow.          *)
AttemptsBounded == \A e \in Events : row[e].attempts <= MAX_ATTEMPTS + takeovers[e]

(* An event that was acknowledged is kept, told the truth about, and not    *)
(* tried for ever, though locks expire under running workers.               *)
EventsAreKept ==
    /\ AckedIsStored
    /\ StatusIsEarned
    /\ AttemptsBounded

(* "any number of API/worker processes can run this loop against the same   *)
(* table without double-processing" (webhookWorker.ts).                     *)
ExclusiveClaim == \A e \in Events : Cardinality(Holders(e)) <= 1

(* An event that is done, or given up on, is never taken up again.          *)
FinalStatus ==
    [][\A e \in Events : row[e].status \in {"processed", "dead"} => row'[e].status = row[e].status]_vars

(* Every event the provider sends is in the end processed or put in front   *)
(* of an admin, with workers dying and handlers throwing on the way.        *)
EventuallySettled ==
    \A e \in Events \ Malformed : e \in sent ~> row[e].status \in {"processed", "dead"}

(* Every event gets a final status in the end and keeps it.                 *)
EventsSettle ==
    /\ FinalStatus
    /\ EventuallySettled
=============================================================================
