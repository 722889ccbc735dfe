------------------------- MODULE WebhookQueueProofs -------------------------
(***************************************************************************)
(* Proofs about WebhookQueue, for any number of events and workers, of     *)
(* attempts and of crashes.                                                *)
(*                                                                         *)
(* Two arguments.  For what holds even when locks expire under running     *)
(* workers, claims are numbered: no two workers hold the same number of    *)
(* an event, so that each failure that puts an event back in the queue     *)
(* uses up a number below MAX_ATTEMPTS of its own (Spent, Counted).  For   *)
(* what holds as long as a live worker is through before its lock is       *)
(* stale: who has claimed an event is the only one, and the row says so    *)
(* (Alone).                                                                *)
(***************************************************************************)
EXTENDS WebhookQueue, FiniteSetTheorems, TLAPS

(* TypeOK, with the workers' records spelt out.                             *)
Typed ==
    /\ TypeOK
    /\ worker \in [Workers -> [batch : SUBSET Claim, run : {NoRun} \cup (Claim \X BOOLEAN)]]

(* Claims are of stored events and numbered: a claim's number is no more    *)
(* than the row's, no two workers hold the same one, and a handler that     *)
(* returned took effect.                                                    *)
Numbered ==
    /\ \A w \in Workers : \A r \in worker[w].batch :
          row[r.e].status # "none" /\ r.attempts <= row[r.e].attempts
    /\ \A w, v \in Workers : worker[w].batch \cap worker[v].batch # {} => w = v
    /\ \A w \in Workers : worker[w].run # NoRun /\ worker[w].run[2] => worker[w].run[1].e \in applied

IsHeld(e, n) == \E w \in Workers : [e |-> e, attempts |-> n] \in worker[w].batch

(* The early claims of an event that nobody holds any more: each may have   *)
(* put it back in the queue, once.                                          *)
Spent(e) == {n \in 1..(MAX_ATTEMPTS - 1) : n <= row[e].attempts /\ ~IsHeld(e, n)}

Waiting(e) == IF row[e].status \in {"received", "failed"} THEN 1 ELSE 0

(* Every claim was the first one, a takeover, or came after a failure.      *)
Counted == \A e \in Events : row[e].attempts + Waiting(e) <= takeovers[e] + 1 + Cardinality(Spent(e))

QueueInv == Typed /\ Numbered /\ AckedIsStored /\ StatusIsEarned /\ Counted

(* Unless a worker is slow: a claimed event is in processing, its lock is   *)
(* fresh, and it is claimed once.                                           *)
Alone ==
    /\ \A w \in Workers : \A r \in worker[w].batch :
          row[r.e].status = "processing" /\ ~row[r.e].stale
    /\ \A w, v \in Workers : \A r \in worker[w].batch, s \in worker[v].batch :
          r.e = s.e => w = v /\ r = s

-----------------------------------------------------------------------------
(* A claim takes events of the queue that may be claimed.                   *)
LEMMA TakenAreClaimable ==
  ASSUME queue \in Seq(Events)
  PROVE  \A e \in Taken : e \in Events /\ Claimable(e)
<1>1. \A i \in DOMAIN queue : queue[i] \in Events
  OBVIOUS
<1> QED BY <1>1 DEF Taken

(* Appending an event that is not in the queue keeps its elements distinct, *)
(* and adds that event.                                                     *)
LEMMA AppendNew ==
  ASSUME NEW q \in Seq(Events), NEW e \in Events, IsInjective(q), e \notin Range(q)
  PROVE  /\ Append(q, e) \in Seq(Events)
         /\ IsInjective(Append(q, e))
         /\ Range(Append(q, e)) = Range(q) \cup {e}
<1> DEFINE p == Append(q, e)
<1>1. p \in Seq(Events) /\ Len(p) = Len(q) + 1 /\ Len(q) \in Nat
  OBVIOUS
<1>2. DOMAIN q = 1..Len(q) /\ DOMAIN p = 1..(Len(q) + 1)
  BY <1>1
<1>3. p[Len(q) + 1] = e /\ \A i \in 1..Len(q) : p[i] = q[i]
  OBVIOUS
<1>4. \A i \in 1..Len(q) : q[i] # e
  BY <1>2 DEF Range
<1>5. \A i, j \in 1..(Len(q) + 1) : p[i] = p[j] => i = j
  <2> SUFFICES ASSUME NEW i \in 1..(Len(q) + 1), NEW j \in 1..(Len(q) + 1), p[i] = p[j] PROVE i = j
    OBVIOUS
  <2> HIDE DEF p
  <2>1. (i \in 1..Len(q) \/ i = Len(q) + 1) /\ (j \in 1..Len(q) \/ j = Len(q) + 1)
    BY <1>1
  <2>2. CASE i \in 1..Len(q) /\ j \in 1..Len(q)
    BY <1>2, <1>3, <2>2 DEF IsInjective
  <2>3. CASE i = Len(q) + 1 \/ j = Len(q) + 1
    BY <1>3, <1>4, <2>1, <2>3
  <2> QED BY <2>1, <2>2, <2>3
<1>6. Range(p) = Range(q) \cup {e}
  <2>1. 1..(Len(q) + 1) = 1..Len(q) \cup {Len(q) + 1}
    BY <1>1
  <2> HIDE DEF p
  <2> QED BY <1>2, <1>3, <2>1 DEF Range
<1> QED BY <1>1, <1>2, <1>5, <1>6 DEF IsInjective

(* What storing a delivery leaves in the table and in the queue.            *)
LEMMA EnqueueStores ==
  ASSUME Typed, NEW e \in Events, EnqueueEvent(e)
  PROVE  /\ row' \in [Events -> Row] /\ row'[e].status # "none"
         /\ \A d \in Events : d # e \/ row[d].status # "none" => row'[d] = row[d]
         /\ row[e].status = "none" => row'[e] = Stored(FirstStatus(e))
         /\ queue' \in Seq(Events) /\ IsInjective(queue')
         /\ Range(queue') = {d \in Events : row'[d].status # "none"}
<1> USE DEF Typed, TypeOK
<1>0. FirstStatus(e) \in {"dead", "processed", "received"}
  BY DEF FirstStatus
<1>1. CASE row[e].status # "none"
  BY <1>1 DEF EnqueueEvent
<1>2. CASE row[e].status = "none"
  <2>1. row' = [row EXCEPT ![e] = Stored(FirstStatus(e))] /\ queue' = Append(queue, e)
    BY <1>2 DEF EnqueueEvent
  <2>2. Stored(FirstStatus(e)) \in Row /\ Stored(FirstStatus(e)).status # "none"
    BY <1>0 DEF Stored, Row
  <2>3. row' \in [Events -> Row] /\ row'[e] = Stored(FirstStatus(e)) /\ \A d \in Events \ {e} : row'[d] = row[d]
    BY <2>1, <2>2
  <2>4. e \notin Range(queue)
    BY <1>2
  <2>5. queue' \in Seq(Events) /\ IsInjective(queue') /\ Range(queue') = Range(queue) \cup {e}
    BY <2>1, <2>4, AppendNew
  <2>6. {d \in Events : row'[d].status # "none"} = {d \in Events : row[d].status # "none"} \cup {e}
    BY <2>2, <2>3
  <2> QED BY <1>2, <2>2, <2>3, <2>5, <2>6
<1> QED BY <1>1, <1>2

(* What a claim leaves in the table, in the claimer's hands and in the      *)
(* count of takeovers.                                                      *)
LEMMA ClaimTakes ==
  ASSUME Typed, NEW w \in Workers, ClaimBatch(w)
  PROVE  /\ worker[w] = NoBatch
         /\ row' \in [Events -> Row] /\ takeovers' \in [Events -> Nat]
         /\ \A e \in Events \ Taken : row'[e] = row[e] /\ takeovers'[e] = takeovers[e]
         /\ \A e \in Taken :
               /\ e \in Events /\ Claimable(e)
               /\ row'[e].status = "processing" /\ ~row'[e].stale
               /\ row'[e].attempts = row[e].attempts + 1
               /\ takeovers'[e] = takeovers[e] + (IF row[e].status = "processing" THEN 1 ELSE 0)
         /\ worker' \in [Workers -> [batch : SUBSET Claim, run : {NoRun} \cup (Claim \X BOOLEAN)]]
         /\ worker'[w].run = NoRun
         /\ worker'[w].batch = {[e |-> e, attempts |-> row[e].attempts + 1] : e \in Taken}
         /\ \A v \in Workers \ {w} : worker'[v] = worker[v]
<1> USE DEF Typed, TypeOK
<1>1. worker[w] = NoBatch
  BY DEF ClaimBatch
<1>2. \A e \in Taken : e \in Events /\ Claimable(e)
  BY TakenAreClaimable
<1> DEFINE claimed == {[e |-> e, attempts |-> row[e].attempts + 1] : e \in Taken}
<1>3. \A e \in Events : row[e] \in Row /\ row[e].attempts \in Nat /\ row[e].due \in BOOLEAN
  BY DEF Row
<1>4. claimed \in SUBSET Claim
  BY <1>2, <1>3 DEF Claim
<1>5. worker' = [worker EXCEPT ![w].batch = claimed]
  BY DEF ClaimBatch
<1>6. worker[w].run = NoRun
  BY <1>1 DEF NoBatch
<1>7. /\ worker' \in [Workers -> [batch : SUBSET Claim, run : {NoRun} \cup (Claim \X BOOLEAN)]]
      /\ worker'[w].run = NoRun /\ worker'[w].batch = claimed
      /\ \A v \in Workers \ {w} : worker'[v] = worker[v]
  BY <1>4, <1>5, <1>6
<1>8. row' = [e \in Events |->
                IF e \in Taken
                THEN [status |-> "processing", attempts |-> row[e].attempts + 1,
                      due |-> row[e].due, stale |-> FALSE]
                ELSE row[e]]
  BY DEF ClaimBatch
<1>9. takeovers' = [e \in Events |->
                IF e \in Taken /\ row[e].status = "processing" THEN takeovers[e] + 1 ELSE takeovers[e]]
  BY DEF ClaimBatch
<1>10. row' \in [Events -> Row]
  BY <1>3, <1>8 DEF Row
<1>11. takeovers' \in [Events -> Nat]
  BY <1>9
<1>12. \A e \in Taken : takeovers'[e] = takeovers[e] + (IF row[e].status = "processing" THEN 1 ELSE 0)
  BY <1>2, <1>9
<1> QED BY <1>1, <1>2, <1>7, <1>8, <1>9, <1>10, <1>11, <1>12

(* What recording the outcome ok of claim r leaves behind.                  *)
Wrote(w, r, ok) ==
    /\ worker[w].run # NoRun /\ r = worker[w].run[1] /\ ok = worker[w].run[2]
    /\ r \in Claim /\ r.e \in Events
    /\ row' \in [Events -> Row]
    /\ row'[r.e].status = Outcome(r.attempts, ok)
    /\ Outcome(r.attempts, ok) \in {"processed", "dead", "failed"}
    /\ row'[r.e].attempts = row[r.e].attempts
    /\ \A e \in Events \ {r.e} : row'[e] = row[e]
    /\ worker' \in [Workers -> [batch : SUBSET Claim, run : {NoRun} \cup (Claim \X BOOLEAN)]]
    /\ worker'[w].batch = worker[w].batch \ {r} /\ worker'[w].run = NoRun
    /\ \A v \in Workers \ {w} : worker'[v] = worker[v]

(* A worker records what the handler of one of its claims did.              *)
LEMMA RecordWrites ==
  ASSUME Typed, NEW w \in Workers, Record(w)
  PROVE  \E r \in worker[w].batch, ok \in BOOLEAN : Wrote(w, r, ok)
<1> USE DEF Typed, TypeOK
<1> DEFINE r == worker[w].run[1]
           ok == worker[w].run[2]
<1>1. worker[w].run \in worker[w].batch \X BOOLEAN /\ worker[w].run # NoRun
  BY DEF Record
<1>2. r \in worker[w].batch /\ r \in Claim /\ r.e \in Events /\ ok \in BOOLEAN
  BY <1>1 DEF Claim
<1>3. Outcome(r.attempts, ok) \in {"processed", "dead", "failed"}
  BY DEF Outcome
<1> DEFINE new == [status |-> Outcome(r.attempts, ok), attempts |-> row[r.e].attempts,
                   due |-> ok /\ row[r.e].due, stale |-> FALSE]
<1>4. row' = [row EXCEPT ![r.e] = new]
  BY <1>2 DEF Record
<1>5. row[r.e].attempts \in Nat /\ row[r.e].due \in BOOLEAN
  BY <1>2 DEF Row
<1>6. new \in Row
  BY <1>2, <1>3, <1>5 DEF Row
<1>7. worker' = [worker EXCEPT ![w] = [batch |-> worker[w].batch \ {r}, run |-> NoRun]]
  BY DEF Record
<1>8. Wrote(w, r, ok)
  BY <1>1, <1>2, <1>3, <1>4, <1>6, <1>7 DEF Wrote
<1> QED BY <1>2, <1>8

-----------------------------------------------------------------------------
(* It all holds before the first delivery.                                  *)
LEMMA InitHolds == Init => QueueInv /\ Alone
<1> SUFFICES ASSUME Init PROVE QueueInv /\ Alone
  OBVIOUS
<1> USE DEF Init
<1>1. NoRow \in Row /\ NoRow.status = "none" /\ NoRow.attempts = 0
  BY DEF NoRow, Row
<1>2. row \in [Events -> Row] /\ \A e \in Events : row[e].status = "none" /\ row[e].attempts = 0
  BY <1>1
<1>3. \A w \in Workers : worker[w].batch = {} /\ worker[w].run = NoRun
  BY DEF NoBatch
<1>4. worker \in [Workers -> [batch : SUBSET Claim, run : {NoRun} \cup (Claim \X BOOLEAN)]]
  BY DEF NoBatch
<1>5. IsInjective(queue) /\ Range(queue) = {} /\ queue \in Seq(Events)
  BY DEF IsInjective, Range
<1>6. Typed
  BY <1>2, <1>3, <1>4, <1>5, QueueAssumption DEF Typed, TypeOK
<1>7. Numbered
  BY <1>3 DEF Numbered
<1>8. AckedIsStored /\ StatusIsEarned
  BY <1>2 DEF AckedIsStored, StatusIsEarned
<1>9. Counted
  <2> SUFFICES ASSUME NEW e \in Events
               PROVE  row[e].attempts + Waiting(e) <= takeovers[e] + 1 + Cardinality(Spent(e))
    BY DEF Counted
  <2>1. Spent(e) = {}
    BY <1>2, QueueAssumption DEF Spent
  <2>2. Cardinality(Spent(e)) = 0
    BY <2>1, FS_EmptySet
  <2> QED BY <1>2, <2>2 DEF Waiting
<1>10. Alone
  BY <1>3 DEF Alone
<1> QED BY <1>6, <1>7, <1>8, <1>9, <1>10 DEF QueueInv

(* Typed: every step keeps the types; an event is queued once, when it is   *)
(* stored.                                                                  *)
LEMMA TypedStep == Typed /\ Numbered /\ [Next]_vars => Typed'
<1> SUFFICES ASSUME Typed, Numbered, [Next]_vars PROVE Typed'
  OBVIOUS
<1> USE DEF Typed, TypeOK
<1>1. CASE UNCHANGED vars
  BY <1>1 DEF vars
<1>2. ASSUME NEW e \in Events, Send(e) PROVE Typed'
  BY <1>2 DEF Send
<1>3. ASSUME NEW e \in Events, Receive(e) PROVE Typed'
  <2>1. EnqueueEvent(e) /\ UNCHANGED <<worker, sent, applied, takeovers, crashes, throws, storeErrors>>
    BY <1>3 DEF Receive
  <2>2. acked' \subseteq sent
    BY <1>3 DEF Receive
  <2> QED BY <2>1, <2>2, EnqueueStores
<1>4. ASSUME NEW e \in Events, ReceiveUnstored(e) PROVE Typed'
  BY <1>4, QueueAssumption DEF ReceiveUnstored
<1>5. ASSUME NEW e \in Events, ComesDue(e) PROVE Typed'
  BY <1>5 DEF ComesDue, Row
<1>6. ASSUME NEW e \in Events, GoesStale(e) PROVE Typed'
  BY <1>6 DEF GoesStale, Row
<1>7. ASSUME NEW w \in Workers, ClaimBatch(w) PROVE Typed'
  <2>1. UNCHANGED <<queue, sent, acked, applied, crashes, throws, storeErrors>>
    BY <1>7 DEF ClaimBatch
  <2>2. {e \in Events : row'[e].status # "none"} = {e \in Events : row[e].status # "none"}
    BY <1>7, ClaimTakes DEF Claimable
  <2> QED BY <1>7, <2>1, <2>2, ClaimTakes
<1>8. ASSUME NEW w \in Workers, Record(w) PROVE Typed'
  <2>1. UNCHANGED <<queue, sent, acked, applied, takeovers, crashes, throws, storeErrors>>
    BY <1>8 DEF Record
  <2>p. PICK r \in worker[w].batch, ok \in BOOLEAN : Wrote(w, r, ok)
    BY <1>8, RecordWrites
  <2> USE DEF Wrote
  <2>2. row[r.e].status # "none" /\ row'[r.e].status # "none"
    BY <2>p, SMTT(60) DEF Numbered
  <2>3. row' \in [Events -> Row] /\ \A e \in Events \ {r.e} : row'[e] = row[e]
    BY <2>p
  <2>4. {e \in Events : row'[e].status # "none"} = {e \in Events : row[e].status # "none"}
    BY <2>2, <2>3
  <2>5. worker'[w].batch = worker[w].batch \ {r} /\ worker'[w].run = NoRun
        /\ \A v \in Workers \ {w} : worker'[v] = worker[v]
    BY <2>p
  <2>6. worker' \in [Workers -> [batch : SUBSET Claim, run : {NoRun} \cup (Claim \X BOOLEAN)]]
    BY <2>p
  <2>7. \A v \in Workers : /\ worker'[v].batch \subseteq Claim
                           /\ worker'[v].run \in {NoRun} \cup (worker'[v].batch \X BOOLEAN)
    <3>1. \A v \in Workers \ {w} : worker'[v].batch \subseteq Claim /\ worker'[v].run \in {NoRun} \cup (worker'[v].batch \X BOOLEAN)
      BY <2>5
    <3>2. worker'[w].batch \subseteq Claim
      BY <2>5
    <3> QED BY <2>5, <3>1, <3>2
  <2> QED BY <2>1, <2>3, <2>4, <2>6, <2>7
<1>r. ASSUME NEW w \in Workers, NEW r \in worker[w].batch, NEW ok \in BOOLEAN,
             worker' = [worker EXCEPT ![w].run = <<r, ok>>]
      PROVE  /\ worker' \in [Workers -> [batch : SUBSET Claim, run : {NoRun} \cup (Claim \X BOOLEAN)]]
             /\ \A v \in Workers : /\ worker'[v].batch \subseteq Claim
                                   /\ worker'[v].run \in {NoRun} \cup (worker'[v].batch \X BOOLEAN)
  <2>1. r \in Claim /\ <<r, ok>> \in Claim \X BOOLEAN
    BY <1>r
  <2>2. worker'[w].batch = worker[w].batch /\ worker'[w].run = <<r, ok>>
    BY <1>r
  <2>3. \A v \in Workers \ {w} : worker'[v] = worker[v]
    BY <1>r
  <2>4. worker'[w] \in [batch : SUBSET Claim, run : {NoRun} \cup (Claim \X BOOLEAN)]
    BY <1>r, <2>1
  <2>5. worker' \in [Workers -> [batch : SUBSET Claim, run : {NoRun} \cup (Claim \X BOOLEAN)]]
    BY <1>r, <2>3, <2>4
  <2>6. worker'[w].batch \subseteq Claim /\ worker'[w].run \in {NoRun} \cup (worker'[w].batch \X BOOLEAN)
    BY <2>1, <2>2
  <2>7. \A v \in Workers \ {w} : worker'[v].batch \subseteq Claim /\ worker'[v].run \in {NoRun} \cup (worker'[v].batch \X BOOLEAN)
    BY <2>3
  <2> QED BY <2>5, <2>6, <2>7
<1>9. ASSUME NEW w \in Workers, NEW r \in worker[w].batch, Handle(w, r) PROVE Typed'
  <2>1. r.e \in Events
    BY DEF Claim
  <2>2. worker' = [worker EXCEPT ![w].run = <<r, TRUE>>]
    BY <1>9 DEF Handle
  <2> QED BY <1>9, <1>r, <2>1, <2>2 DEF Handle
<1>10. ASSUME NEW w \in Workers, NEW r \in worker[w].batch, HandleThrows(w, r) PROVE Typed'
  <2>1. r.e \in Events
    BY DEF Claim
  <2>2. worker' = [worker EXCEPT ![w].run = <<r, FALSE>>]
    BY <1>10 DEF HandleThrows
  <2>3. applied' \subseteq Events /\ throws' \in 0..MaxThrows
    BY <1>10, <2>1, QueueAssumption DEF HandleThrows
  <2> QED BY <1>10, <1>r, <2>2, <2>3 DEF HandleThrows
<1>11. ASSUME NEW w \in Workers, Crash(w) PROVE Typed'
  BY <1>11, QueueAssumption DEF Crash, NoBatch
<1> QED BY <1>1, <1>2, <1>3, <1>4, <1>5, <1>6, <1>7, <1>8, <1>9, <1>10, <1>11 DEF Next, RunOne

(* Numbered: a claim takes the next number of its event, the others keep    *)
(* theirs.                                                                  *)
LEMMA NumberedStep == Typed /\ Numbered /\ [Next]_vars => Numbered'
<1> SUFFICES ASSUME Typed, Numbered, [Next]_vars PROVE Numbered'
  OBVIOUS
<1> USE DEF Typed, TypeOK, Numbered
<1>0. \A w \in Workers : \A r \in worker[w].batch :
        r \in Claim /\ r.e \in Events /\ r.attempts \in Nat /\ row[r.e].attempts \in Nat
  BY DEF Claim, Row
<1>1. CASE UNCHANGED vars
  BY <1>1 DEF vars
<1>2. ASSUME NEW e \in Events, Send(e) PROVE Numbered'
  BY <1>2 DEF Send
<1>3. ASSUME NEW e \in Events, Receive(e) PROVE Numbered'
  <2>1. EnqueueEvent(e) /\ UNCHANGED <<worker, applied>>
    BY <1>3 DEF Receive
  <2>2. \A d \in Events : row[d].status # "none" => row'[d] = row[d]
    BY <2>1, EnqueueStores
  <2> QED BY <1>0, <2>1, <2>2
<1>4. ASSUME NEW e \in Events, ReceiveUnstored(e) PROVE Numbered'
  BY <1>4 DEF ReceiveUnstored
<1>5. ASSUME NEW e \in Events, ComesDue(e) PROVE Numbered'
  BY <1>0, <1>5 DEF ComesDue
<1>6. ASSUME NEW e \in Events, GoesStale(e) PROVE Numbered'
  BY <1>0, <1>6 DEF GoesStale
<1>7. ASSUME NEW w \in Workers, ClaimBatch(w) PROVE Numbered'
  <2>1. UNCHANGED applied
    BY <1>7 DEF ClaimBatch
  <2>2. /\ \A e \in Events : row'[e].attempts >= row[e].attempts
        /\ \A e \in Events : row[e].status # "none" => row'[e].status # "none"
    <3> SUFFICES ASSUME NEW e \in Events
                 PROVE  row'[e].attempts >= row[e].attempts /\ (row[e].status # "none" => row'[e].status # "none")
      OBVIOUS
    <3>1. row[e].attempts \in Nat
      BY DEF Row
    <3>2. CASE e \in Taken
      <4>1. row'[e].status = "processing" /\ row'[e].attempts = row[e].attempts + 1
        BY <1>7, <3>2, ClaimTakes
      <4> QED BY <3>1, <4>1
    <3>3. CASE e \notin Taken
      <4>1. row'[e] = row[e]
        BY <1>7, <3>3, ClaimTakes
      <4> QED BY <3>1, <4>1
    <3> QED BY <3>2, <3>3
  <2>3. \A r \in worker'[w].batch : r.e \in Taken /\ r.attempts = row[r.e].attempts + 1
    BY <1>7, ClaimTakes
  <2>4. \A r \in worker'[w].batch : row'[r.e].status # "none" /\ r.attempts <= row'[r.e].attempts
    <3> TAKE r \in worker'[w].batch
    <3>1. r.e \in Taken /\ r.e \in Events /\ r.attempts = row[r.e].attempts + 1
      BY <1>7, <2>3, ClaimTakes
    <3>2. row'[r.e].status = "processing" /\ row'[r.e].attempts = row[r.e].attempts + 1
      BY <1>7, <3>1, ClaimTakes
    <3> QED BY <3>1, <3>2 DEF Row
  <2>5. \A v \in Workers \ {w} : worker'[v] = worker[v]
    BY <1>7, ClaimTakes
  <2>6. \A v \in Workers \ {w} : \A r \in worker[v].batch : r \notin worker'[w].batch
    <3> SUFFICES ASSUME NEW v \in Workers \ {w}, NEW r \in worker[v].batch, r \in worker'[w].batch
                 PROVE  FALSE
      OBVIOUS
    <3>1. r.attempts <= row[r.e].attempts /\ r.attempts = row[r.e].attempts + 1
      BY <2>3
    <3> QED BY <1>0, <3>1
  <2>7. \A v \in Workers : \A r \in worker'[v].batch : row'[r.e].status # "none" /\ r.attempts <= row'[r.e].attempts
    <3> SUFFICES ASSUME NEW v \in Workers \ {w}, NEW r \in worker[v].batch
                 PROVE  row'[r.e].status # "none" /\ r.attempts <= row'[r.e].attempts
      BY <2>4, <2>5
    <3>1. r.e \in Events /\ r.attempts <= row[r.e].attempts /\ row[r.e].status # "none"
      BY <1>0
    <3>2. row'[r.e].attempts >= row[r.e].attempts /\ row'[r.e].status # "none"
      BY <2>2, <3>1
    <3>3. row'[r.e].attempts \in Nat
      BY <1>7, <3>1, ClaimTakes DEF Row
    <3> QED BY <1>0, <3>1, <3>2, <3>3
  <2>8. \A u, v \in Workers : worker'[u].batch \cap worker'[v].batch # {} => u = v
    BY <2>5, <2>6
  <2>9. worker'[w].run = NoRun
    BY <1>7, ClaimTakes
  <2> QED BY <2>1, <2>5, <2>7, <2>8, <2>9
<1>8. ASSUME NEW w \in Workers, Record(w) PROVE Numbered'
  <2>1. UNCHANGED applied
    BY <1>8 DEF Record
  <2>2. PICK r \in worker[w].batch, ok \in BOOLEAN : Wrote(w, r, ok)
    BY <1>8, RecordWrites
  <2> USE DEF Wrote
  <2>3. \A v \in Workers : worker'[v].batch \subseteq worker[v].batch /\ (v # w => worker'[v] = worker[v])
    BY <2>2
  <2>4. \A e \in Events : row'[e].attempts = row[e].attempts /\ (row[e].status # "none" => row'[e].status # "none")
    BY <2>2
  <2>5. worker'[w].run = NoRun
    BY <2>2
  <2> QED BY <1>0, <2>1, <2>3, <2>4, <2>5, ZenonT(60)
<1>r. ASSUME NEW w \in Workers, NEW r, NEW ok, worker' = [worker EXCEPT ![w].run = <<r, ok>>]
      PROVE  /\ \A v \in Workers : worker'[v].batch = worker[v].batch
             /\ worker'[w].run = <<r, ok>>
             /\ \A v \in Workers \ {w} : worker'[v].run = worker[v].run
  BY <1>r
<1>9. ASSUME NEW w \in Workers, NEW r \in worker[w].batch, Handle(w, r) PROVE Numbered'
  <2>1. worker' = [worker EXCEPT ![w].run = <<r, TRUE>>] /\ applied' = applied \cup {r.e} /\ UNCHANGED row
    BY <1>9 DEF Handle
  <2>2. \A v \in Workers : worker'[v].run # NoRun /\ worker'[v].run[2] => worker'[v].run[1].e \in applied'
    <3>1. \A v \in Workers \ {w} : worker'[v].run # NoRun /\ worker'[v].run[2] => worker'[v].run[1].e \in applied'
      BY <1>r, <2>1
    <3>2. worker'[w].run[2] => worker'[w].run[1].e \in applied'
      BY <1>r, <2>1
    <3> QED BY <3>1, <3>2
  <2> QED BY <1>r, <2>1, <2>2, ZenonT(60)
<1>10. ASSUME NEW w \in Workers, NEW r \in worker[w].batch, HandleThrows(w, r) PROVE Numbered'
  <2>1. worker' = [worker EXCEPT ![w].run = <<r, FALSE>>] /\ applied \subseteq applied' /\ UNCHANGED row
    BY <1>10 DEF HandleThrows
  <2>2. \A v \in Workers : worker'[v].run # NoRun /\ worker'[v].run[2] => worker'[v].run[1].e \in applied'
    <3>1. \A v \in Workers \ {w} : worker'[v].run # NoRun /\ worker'[v].run[2] => worker'[v].run[1].e \in applied'
      BY <1>r, <2>1
    <3>2. worker'[w].run[2] => worker'[w].run[1].e \in applied'
      BY <1>r, <2>1
    <3> QED BY <3>1, <3>2
  <2> QED BY <1>r, <2>1, <2>2, ZenonT(60)
<1>11. ASSUME NEW w \in Workers, Crash(w) PROVE Numbered'
  BY <1>11 DEF Crash, NoBatch
<1> QED BY <1>1, <1>2, <1>3, <1>4, <1>5, <1>6, <1>7, <1>8, <1>9, <1>10, <1>11 DEF Next, RunOne

(* Time changes nothing but that a row is due or its lock stale.            *)
LEMMA TimeKeeps ==
  ASSUME Typed, NEW e \in Events, ComesDue(e) \/ GoesStale(e), NEW d \in Events
  PROVE  row'[d].status = row[d].status /\ row'[d].attempts = row[d].attempts
<1> USE DEF Typed, TypeOK
<1>1. CASE ComesDue(e)
  <2>1. row' = [row EXCEPT ![e].due = TRUE]
    BY <1>1 DEF ComesDue
  <2> QED BY <2>1 DEF Row
<1>2. CASE GoesStale(e)
  <2>1. row' = [row EXCEPT ![e].stale = TRUE]
    BY <1>2 DEF GoesStale
  <2> QED BY <2>1 DEF Row
<1> QED BY <1>1, <1>2

(* A stored event stays in the table.                                       *)
LEMMA StoredStays ==
  ASSUME Typed, [Next]_vars, NEW d \in Events, row[d].status # "none"
  PROVE  row'[d].status # "none"
<1> USE DEF Typed, TypeOK
<1>1. CASE UNCHANGED vars
  BY <1>1 DEF vars
<1>2. ASSUME NEW e \in Events, Send(e) \/ ReceiveUnstored(e) PROVE row'[d].status # "none"
  BY <1>2 DEF Send, ReceiveUnstored
<1>3. ASSUME NEW e \in Events, Receive(e) PROVE row'[d].status # "none"
  BY <1>3, EnqueueStores DEF Receive
<1>4. ASSUME NEW e \in Events, ComesDue(e) \/ GoesStale(e) PROVE row'[d].status # "none"
  BY <1>4, TimeKeeps
<1>5. ASSUME NEW w \in Workers, ClaimBatch(w) PROVE row'[d].status # "none"
  BY <1>5, ClaimTakes
<1>6. ASSUME NEW w \in Workers, Record(w) PROVE row'[d].status # "none"
  <2>1. PICK r \in worker[w].batch, ok \in BOOLEAN : Wrote(w, r, ok)
    BY <1>6, RecordWrites
  <2> QED BY <2>1 DEF Wrote
<1>7. ASSUME NEW w \in Workers, NEW r \in worker[w].batch, Handle(w, r) \/ HandleThrows(w, r)
      PROVE  row'[d].status # "none"
  BY <1>7 DEF Handle, HandleThrows
<1>8. ASSUME NEW w \in Workers, Crash(w) PROVE row'[d].status # "none"
  BY <1>8 DEF Crash
<1> QED BY <1>1, <1>2, <1>3, <1>4, <1>5, <1>6, <1>7, <1>8 DEF Next, RunOne

(* AckedIsStored: a readable event is acknowledged in the step that finds   *)
(* it in the table.                                                         *)
LEMMA AckedStep == Typed /\ AckedIsStored /\ [Next]_vars => AckedIsStored'
<1> SUFFICES ASSUME Typed, AckedIsStored, [Next]_vars, NEW d \in acked' \ Malformed
             PROVE  row'[d].status # "none"
  BY DEF AckedIsStored
<1>1. CASE d \in acked
  BY <1>1, StoredStays DEF AckedIsStored, Typed, TypeOK
<1>2. CASE d \notin acked
  <2>1. PICK e \in Events : Receive(e) \/ ReceiveUnstored(e)
    BY <1>2 DEF Next, vars, Send, ComesDue, GoesStale, ClaimBatch, RunOne, Record, Handle, HandleThrows, Crash
  <2>2. CASE Receive(e)
    <3>1. d = e
      BY <1>2, <2>2 DEF Receive
    <3> QED BY <2>2, <3>1, EnqueueStores DEF Receive
  <2>3. CASE ReceiveUnstored(e)
    BY <1>2, <2>3 DEF ReceiveUnstored
  <2> QED BY <2>1, <2>2, <2>3
<1> QED BY <1>1, <1>2

(* StatusIsEarned: "processed" is written for a handler that returned, and  *)
(* "dead" for a claim with the last number or a later one.                  *)
LEMMA EarnedStep == Typed /\ Numbered /\ StatusIsEarned /\ [Next]_vars => StatusIsEarned'
<1> SUFFICES ASSUME Typed, Numbered, StatusIsEarned, [Next]_vars, NEW d \in Events \ (Malformed \cup Ignored)
             PROVE  /\ row'[d].status = "processed" => d \in applied'
                    /\ row'[d].status = "dead" => row'[d].attempts >= MAX_ATTEMPTS
  BY DEF StatusIsEarned
<1> USE DEF Typed, TypeOK, StatusIsEarned
<1>1. CASE UNCHANGED vars
  BY <1>1 DEF vars
<1>2. ASSUME NEW e \in Events, Send(e) \/ ReceiveUnstored(e) PROVE UNCHANGED <<row, applied>>
  BY <1>2 DEF Send, ReceiveUnstored
<1>3. ASSUME NEW e \in Events, Receive(e) PROVE row'[d] = row[d] \/ row'[d].status = "received"
  <2>1. CASE d = e /\ row[e].status = "none"
    <3>1. row'[d] = Stored("received")
      BY <1>3, <2>1, EnqueueStores DEF Receive, FirstStatus
    <3> QED BY <3>1 DEF Stored
  <2>2. CASE ~(d = e /\ row[e].status = "none")
    BY <1>3, <2>2, EnqueueStores DEF Receive
  <2> QED BY <2>1, <2>2
<1>4. ASSUME NEW e \in Events, ComesDue(e) \/ GoesStale(e)
      PROVE  row'[d].status = row[d].status /\ row'[d].attempts = row[d].attempts
  BY <1>4, TimeKeeps
<1>5. ASSUME NEW w \in Workers, ClaimBatch(w) PROVE row'[d] = row[d] \/ row'[d].status = "processing"
  BY <1>5, ClaimTakes
<1>6. ASSUME NEW w \in Workers, Record(w)
      PROVE  \/ row'[d] = row[d]
             \/ row'[d].status = "processed" /\ d \in applied
             \/ row'[d].status = "dead" /\ row'[d].attempts >= MAX_ATTEMPTS
             \/ row'[d].status = "failed"
  <2>1. PICK r \in worker[w].batch, ok \in BOOLEAN : Wrote(w, r, ok)
    BY <1>6, RecordWrites
  <2>2. CASE d # r.e
    BY <2>1, <2>2 DEF Wrote
  <2>3. CASE d = r.e
    <3>1. ok => d \in applied
      BY <2>1, <2>3 DEF Wrote, Numbered
    <3>2. r.attempts <= row[d].attempts /\ r.attempts \in Nat /\ row[d].attempts \in Nat
      BY <2>1, <2>3 DEF Wrote, Numbered, Claim, Row
    <3>3. row'[d].status = Outcome(r.attempts, ok) /\ row'[d].attempts = row[d].attempts
      BY <2>1, <2>3 DEF Wrote
    <3> QED BY <3>1, <3>2, <3>3, QueueAssumption DEF Outcome
  <2> QED BY <2>2, <2>3
<1>7. ASSUME NEW w \in Workers, NEW r \in worker[w].batch, Handle(w, r) \/ HandleThrows(w, r)
      PROVE  UNCHANGED row
  BY <1>7 DEF Handle, HandleThrows
<1>8. ASSUME NEW w \in Workers, Crash(w) PROVE UNCHANGED row
  BY <1>8 DEF Crash
<1>9. applied \subseteq applied'
  BY DEF Next, vars, Send, Receive, ReceiveUnstored, ComesDue, GoesStale, ClaimBatch, RunOne, Record,
         Handle, HandleThrows, Crash
<1> QED BY <1>1, <1>2, <1>3, <1>4, <1>5, <1>6, <1>7, <1>8, <1>9 DEF Next, RunOne

(* There are at most MAX_ATTEMPTS - 1 early claims.                         *)
LEMMA EarlyAreFew ==
  ASSUME NEW S \in SUBSET (1..(MAX_ATTEMPTS - 1))
  PROVE  IsFiniteSet(S) /\ Cardinality(S) \in 0..(MAX_ATTEMPTS - 1)
<1>1. MAX_ATTEMPTS - 1 \in Nat
  BY QueueAssumption
<1>2. IsFiniteSet(1..(MAX_ATTEMPTS - 1)) /\ Cardinality(1..(MAX_ATTEMPTS - 1)) = MAX_ATTEMPTS - 1
  BY <1>1, FS_Interval
<1>3. IsFiniteSet(S) /\ Cardinality(S) <= MAX_ATTEMPTS - 1
  BY <1>2, FS_Subset
<1> QED BY <1>1, <1>3, FS_CardinalityType

(* The count survives a step that does not forget an early claim and adds   *)
(* no claim but a takeover or the end of the wait.                          *)
LEMMA CountedKept ==
  ASSUME NEW e \in Events, Typed, Typed',
         row[e].attempts + Waiting(e) <= takeovers[e] + 1 + Cardinality(Spent(e)),
         row'[e].attempts + Waiting(e)' + takeovers[e] <= row[e].attempts + Waiting(e) + takeovers'[e],
         Spent(e) \subseteq Spent(e)'
  PROVE  row'[e].attempts + Waiting(e)' <= takeovers'[e] + 1 + Cardinality(Spent(e)')
<1>1. IsFiniteSet(Spent(e)') /\ Cardinality(Spent(e)') \in Nat
  BY EarlyAreFew DEF Spent
<1>2. Cardinality(Spent(e)) <= Cardinality(Spent(e)') /\ Cardinality(Spent(e)) \in Nat
  BY <1>1, FS_Subset, FS_CardinalityType
<1>3. row[e].attempts \in Nat /\ row'[e].attempts \in Nat /\ takeovers[e] \in Nat /\ takeovers'[e] \in Nat
  BY DEF Typed, TypeOK, Row
<1>4. Waiting(e) \in {0, 1} /\ Waiting(e)' \in {0, 1}
  BY DEF Waiting
<1> QED BY <1>1, <1>2, <1>3, <1>4

(* Spent changes by who holds what, and by the row's number.                *)
LEMMA SpentKept ==
  ASSUME NEW e \in Events, row[e].attempts \in Nat, row'[e].attempts \in Nat,
         row[e].attempts <= row'[e].attempts,
         \A v \in Workers : \A r \in worker'[v].batch :
            r \in worker[v].batch \/ r.e # e \/ ~(r.attempts <= row[e].attempts)
  PROVE  Spent(e) \subseteq Spent(e)'
<1> SUFFICES ASSUME NEW n \in Spent(e) PROVE n \in Spent(e)'
  OBVIOUS
<1>1. n \in 1..(MAX_ATTEMPTS - 1) /\ n <= row[e].attempts /\ ~IsHeld(e, n)
  BY DEF Spent
<1>2. n \in Nat /\ n <= row'[e].attempts
  BY <1>1, QueueAssumption
<1>3. ~IsHeld(e, n)'
  BY <1>1 DEF IsHeld
<1> QED BY <1>1, <1>2, <1>3 DEF Spent

(* Counted: a claim of a waiting event ends its wait, and what puts it back *)
(* is the failure of an early claim, which is spent then.                   *)
LEMMA CountedStep == Typed /\ Numbered /\ Counted /\ Typed' /\ [Next]_vars => Counted'
<1> SUFFICES ASSUME Typed, Numbered, Counted, Typed', [Next]_vars, NEW d \in Events
             PROVE  row'[d].attempts + Waiting(d)' <= takeovers'[d] + 1 + Cardinality(Spent(d)')
  BY DEF Counted
<1> DEFINE Goal == row'[d].attempts + Waiting(d)' <= takeovers'[d] + 1 + Cardinality(Spent(d)')
<1>0. /\ row[d].attempts + Waiting(d) <= takeovers[d] + 1 + Cardinality(Spent(d))
      /\ row[d].attempts \in Nat /\ row'[d].attempts \in Nat
      /\ takeovers[d] \in Nat /\ takeovers'[d] \in Nat
      /\ Waiting(d) \in {0, 1} /\ Waiting(d)' \in {0, 1}
  BY DEF Counted, Typed, TypeOK, Row, Waiting
<1>k. ASSUME row'[d].status = row[d].status, row'[d].attempts = row[d].attempts, takeovers'[d] = takeovers[d],
             \A v \in Workers : worker'[v].batch \subseteq worker[v].batch
      PROVE  Goal
  <2>1. Spent(d) \subseteq Spent(d)'
    BY <1>0, <1>k, SpentKept
  <2>2. Waiting(d)' = Waiting(d)
    BY <1>k DEF Waiting
  <2> QED BY <1>0, <1>k, <2>1, <2>2, CountedKept
<1>1. CASE UNCHANGED vars
  BY <1>1, <1>k DEF vars
<1>2. ASSUME NEW e \in Events, Send(e) \/ ReceiveUnstored(e) PROVE Goal
  BY <1>2, <1>k DEF Send, ReceiveUnstored
<1>3. ASSUME NEW e \in Events, Receive(e) PROVE Goal
  <2>1. UNCHANGED <<worker, takeovers>> /\ EnqueueEvent(e)
    BY <1>3 DEF Receive
  <2>2. CASE d = e /\ row[e].status = "none"
    <3>1. row'[d] = Stored(FirstStatus(e))
      BY <2>1, <2>2, EnqueueStores
    <3>2. row'[d].attempts = 0
      BY <3>1 DEF Stored
    <3>3. Cardinality(Spent(d)') \in Nat
      BY EarlyAreFew DEF Spent
    <3> QED BY <1>0, <3>2, <3>3
  <2>3. CASE ~(d = e /\ row[e].status = "none")
    <3>1. row'[d] = row[d]
      BY <2>1, <2>3, EnqueueStores
    <3> QED BY <1>k, <2>1, <3>1
  <2> QED BY <2>2, <2>3
<1>4. ASSUME NEW e \in Events, ComesDue(e) \/ GoesStale(e) PROVE Goal
  <2>1. UNCHANGED <<worker, takeovers>>
    BY <1>4 DEF ComesDue, GoesStale
  <2> QED BY <1>4, <1>k, <2>1, TimeKeeps
<1>5. ASSUME NEW w \in Workers, ClaimBatch(w) PROVE Goal
  <2>1. \A v \in Workers \ {w} : worker'[v] = worker[v]
    BY <1>5, ClaimTakes
  <2>2. \A r \in worker'[w].batch : r.e \in Taken /\ r.attempts = row[r.e].attempts + 1
    BY <1>5, ClaimTakes
  <2>3. row'[d].attempts >= row[d].attempts
    BY <1>0, <1>5, ClaimTakes
  <2>4. \A v \in Workers : \A r \in worker'[v].batch :
           r \in worker[v].batch \/ r.e # d \/ ~(r.attempts <= row[d].attempts)
    BY <1>0, <2>1, <2>2
  <2>5. Spent(d) \subseteq Spent(d)'
    BY <1>0, <2>3, <2>4, SpentKept
  <2>6. row'[d].attempts + Waiting(d)' + takeovers[d] <= row[d].attempts + Waiting(d) + takeovers'[d]
    <3>1. CASE d \in Taken
      <4>1. Claimable(d) /\ row'[d].status = "processing" /\ row'[d].attempts = row[d].attempts + 1
            /\ takeovers'[d] = takeovers[d] + (IF row[d].status = "processing" THEN 1 ELSE 0)
        BY <1>5, <3>1, ClaimTakes
      <4> QED BY <1>0, <4>1 DEF Claimable, Waiting
    <3>2. CASE d \notin Taken
      <4>1. row'[d] = row[d] /\ takeovers'[d] = takeovers[d]
        BY <1>5, <3>2, ClaimTakes
      <4> QED BY <1>0, <4>1 DEF Waiting
    <3> QED BY <3>1, <3>2
  <2> QED BY <1>0, <2>5, <2>6, CountedKept
<1>6. ASSUME NEW w \in Workers, Record(w) PROVE Goal
  <2>1. PICK r \in worker[w].batch, ok \in BOOLEAN : Wrote(w, r, ok)
    BY <1>6, RecordWrites
  <2>2. UNCHANGED takeovers
    BY <1>6 DEF Record
  <2>3. \A v \in Workers : worker'[v].batch \subseteq worker[v].batch
    BY <2>1 DEF Wrote
  <2>4. CASE d # r.e
    BY <1>k, <2>1, <2>2, <2>3, <2>4 DEF Wrote
  <2>5. CASE d = r.e
    <3>1. row'[d].attempts = row[d].attempts /\ row'[d].status = Outcome(r.attempts, ok)
      BY <2>1, <2>5 DEF Wrote
    <3>2. Spent(d) \subseteq Spent(d)'
      BY <1>0, <2>3, <3>1, SpentKept
    <3>3. CASE Outcome(r.attempts, ok) = "failed"
      <4>1. r.attempts \in 1..(MAX_ATTEMPTS - 1) /\ r.attempts <= row[d].attempts
        <5>1. r \in Claim /\ r.attempts <= row[d].attempts
          BY <2>1, <2>5 DEF Numbered, Wrote
        <5>2. r.attempts \in Nat \ {0}
          BY <5>1 DEF Claim
        <5>3. ~(r.attempts >= MAX_ATTEMPTS)
          BY <3>3 DEF Outcome
        <5> QED BY <5>1, <5>2, <5>3, QueueAssumption
      <4>2. r = [e |-> d, attempts |-> r.attempts]
        BY <2>1, <2>5 DEF Wrote, Claim
      <4>3. IsHeld(d, r.attempts)
        BY <4>2 DEF IsHeld
      <4>4. ~IsHeld(d, r.attempts)'
        <5>1. r \notin worker'[w].batch
          BY <2>1 DEF Wrote
        <5>2. \A v \in Workers \ {w} : r \notin worker'[v].batch
          BY <2>1 DEF Wrote, Numbered
        <5> QED BY <4>2, <5>1, <5>2 DEF IsHeld
      <4>5. r.attempts \in Spent(d)' /\ r.attempts \notin Spent(d)
        BY <3>1, <4>1, <4>3, <4>4 DEF Spent
      <4>6. IsFiniteSet(Spent(d)) /\ IsFiniteSet(Spent(d)')
            /\ Cardinality(Spent(d)) \in Nat /\ Cardinality(Spent(d)') \in Nat
        BY EarlyAreFew DEF Spent
      <4>7. Cardinality(Spent(d) \cup {r.attempts}) = Cardinality(Spent(d)) + 1
        BY <4>5, <4>6, FS_AddElement
      <4>8. Cardinality(Spent(d) \cup {r.attempts}) <= Cardinality(Spent(d)')
        BY <3>2, <4>5, <4>6, FS_Subset
      <4> QED BY <1>0, <2>2, <3>1, <4>6, <4>7, <4>8
    <3>4. CASE Outcome(r.attempts, ok) # "failed"
      <4>1. Waiting(d)' = 0
        BY <2>1, <3>1, <3>4 DEF Wrote, Waiting
      <4> QED BY <1>0, <2>2, <3>1, <3>2, <4>1, CountedKept
    <3> QED BY <3>3, <3>4
  <2> QED BY <2>4, <2>5
<1>7. ASSUME NEW w \in Workers, NEW r \in worker[w].batch, Handle(w, r) \/ HandleThrows(w, r) PROVE Goal
  <2>1. PICK ok \in BOOLEAN : worker' = [worker EXCEPT ![w].run = <<r, ok>>]
    BY <1>7 DEF Handle, HandleThrows
  <2>2. \A v \in Workers : worker'[v].batch = worker[v].batch
    BY <2>1 DEF Typed
  <2> QED BY <1>7, <1>k, <2>2 DEF Handle, HandleThrows
<1>8. ASSUME NEW w \in Workers, Crash(w) PROVE Goal
  <2>1. \A v \in Workers : worker'[v].batch \subseteq worker[v].batch
    BY <1>8 DEF Crash, NoBatch, Typed
  <2> QED BY <1>8, <1>k, <2>1 DEF Crash
<1> QED BY <1>1, <1>2, <1>3, <1>4, <1>5, <1>6, <1>7, <1>8 DEF Next, RunOne

(* Alone: what may be claimed is in nobody's hands, and a lock expires only *)
(* when that is so.                                                         *)
LEMMA AloneStep ==
  ASSUME ~SlowWorkers
  PROVE  Typed /\ Numbered /\ Alone /\ [Next]_vars => Alone'
<1> SUFFICES ASSUME Typed, Numbered, Alone, [Next]_vars PROVE Alone'
  OBVIOUS
<1> USE DEF Alone, Typed, TypeOK
<1>0. \A w \in Workers : \A r \in worker[w].batch : r \in Claim /\ r.e \in Events
  BY DEF Claim
<1>1. CASE UNCHANGED vars
  BY <1>1 DEF vars
<1>2. ASSUME NEW e \in Events, Send(e) \/ ReceiveUnstored(e) PROVE Alone'
  BY <1>2 DEF Send, ReceiveUnstored
<1>3. ASSUME NEW e \in Events, Receive(e) PROVE Alone'
  <2>1. EnqueueEvent(e) /\ UNCHANGED worker
    BY <1>3 DEF Receive
  <2>2. \A d \in Events : row[d].status = "processing" => row'[d] = row[d]
    BY <2>1, EnqueueStores
  <2> QED BY <1>0, <2>1, <2>2
<1>4. ASSUME NEW e \in Events, ComesDue(e) PROVE Alone'
  <2>1. UNCHANGED worker /\ row' = [row EXCEPT ![e].due = TRUE]
    BY <1>4 DEF ComesDue
  <2>2. \A d \in Events : row'[d].status = row[d].status /\ row'[d].stale = row[d].stale
    BY <2>1 DEF Row
  <2> QED BY <1>0, <2>1, <2>2
<1>5. ASSUME NEW e \in Events, GoesStale(e) PROVE Alone'
  <2>1. UNCHANGED worker /\ row' = [row EXCEPT ![e].stale = TRUE] /\ Holders(e) = {}
    BY <1>5 DEF GoesStale
  <2>2. \A w \in Workers : \A r \in worker[w].batch : r.e # e
    BY <2>1 DEF Holders
  <2>3. \A d \in Events \ {e} : row'[d] = row[d]
    BY <2>1
  <2> QED BY <1>0, <2>1, <2>2, <2>3
<1>6. ASSUME NEW w \in Workers, ClaimBatch(w) PROVE Alone'
  <2>1. \A v \in Workers \ {w} : worker'[v] = worker[v]
    BY <1>6, ClaimTakes
  <2>2. \A r \in worker'[w].batch : r.e \in Taken /\ r = [e |-> r.e, attempts |-> row[r.e].attempts + 1]
    BY <1>6, ClaimTakes
  <2>3. \A v \in Workers \ {w} : \A r \in worker[v].batch : r.e \notin Taken
    BY <1>0, <1>6, ClaimTakes DEF Claimable
  <2>4. \A e \in Taken : row'[e].status = "processing" /\ ~row'[e].stale
    BY <1>6, ClaimTakes
  <2>5. \A e \in Events \ Taken : row'[e] = row[e]
    BY <1>6, ClaimTakes
  <2>6. \A v \in Workers : \A r \in worker'[v].batch : row'[r.e].status = "processing" /\ ~row'[r.e].stale
    BY <1>0, <2>1, <2>2, <2>3, <2>4, <2>5
  <2>7. \A u, v \in Workers : \A r \in worker'[u].batch, s \in worker'[v].batch : r.e = s.e => u = v /\ r = s
    BY <2>1, <2>2, <2>3
  <2> QED BY <2>6, <2>7
<1>7. ASSUME NEW w \in Workers, Record(w) PROVE Alone'
  <2>1. PICK r \in worker[w].batch, ok \in BOOLEAN : Wrote(w, r, ok)
    BY <1>7, RecordWrites
  <2>2. \A v \in Workers : \A s \in worker'[v].batch : s \in worker[v].batch /\ s.e # r.e
    <3>1. \A v \in Workers : \A s \in worker'[v].batch : s \in worker[v].batch /\ ~(v = w /\ s = r)
      BY <2>1 DEF Wrote
    <3> QED BY <3>1
  <2>3. \A e \in Events \ {r.e} : row'[e] = row[e]
    BY <2>1 DEF Wrote
  <2> QED BY <1>0, <2>2, <2>3
<1>8. ASSUME NEW w \in Workers, NEW r \in worker[w].batch, Handle(w, r) \/ HandleThrows(w, r) PROVE Alone'
  <2>1. PICK ok \in BOOLEAN : worker' = [worker EXCEPT ![w].run = <<r, ok>>]
    BY <1>8 DEF Handle, HandleThrows
  <2>2. \A v \in Workers : worker'[v].batch = worker[v].batch
    BY <2>1
  <2>3. UNCHANGED row
    BY <1>8 DEF Handle, HandleThrows
  <2> QED BY <2>2, <2>3
<1>9. ASSUME NEW w \in Workers, Crash(w) PROVE Alone'
  BY <1>9 DEF Crash, NoBatch
<1> QED BY <1>1, <1>2, <1>3, <1>4, <1>5, <1>6, <1>7, <1>8, <1>9 DEF Next, RunOne

-----------------------------------------------------------------------------
(* The parts together, whether or not workers are slow.                     *)
LEMMA InvHolds == Spec => []QueueInv
<1>1. QueueInv /\ [Next]_vars => QueueInv'
  BY TypedStep, NumberedStep, AckedStep, EarnedStep, CountedStep DEF QueueInv
<1> QED BY InitHolds, <1>1, PTL DEF Spec

(* ... and unless they are.                                                 *)
LEMMA AloneHolds ==
  ASSUME ~SlowWorkers
  PROVE  Spec => [](QueueInv /\ Alone)
<1>1. QueueInv /\ Alone /\ [Next]_vars => Alone'
  BY AloneStep DEF QueueInv
<1> QED BY InitHolds, InvHolds, <1>1, PTL DEF Spec

(* The table, the queue and the workers' claims keep their types, with each *)
(* stored event in the queue exactly once.                                  *)
THEOREM QueueTypeCorrect == Spec => []TypeOK
<1>1. QueueInv => TypeOK
  BY DEF QueueInv, Typed
<1> QED BY InvHolds, <1>1, PTL

(* Whatever crashes, throws or overtakes: an acknowledged event is stored,  *)
(* "processed" means it took effect, "dead" that it had its attempts, and   *)
(* it is claimed MAX_ATTEMPTS times and once more for each takeover.        *)
THEOREM EventsKept == Spec => []EventsAreKept
<1>1. QueueInv => AttemptsBounded
  <2> SUFFICES ASSUME QueueInv, NEW e \in Events PROVE row[e].attempts <= MAX_ATTEMPTS + takeovers[e]
    BY DEF AttemptsBounded
  <2>1. row[e].attempts + Waiting(e) <= takeovers[e] + 1 + Cardinality(Spent(e))
    BY DEF QueueInv, Counted
  <2>2. Cardinality(Spent(e)) \in 0..(MAX_ATTEMPTS - 1)
    BY EarlyAreFew DEF Spent
  <2>3. row[e].attempts \in Nat /\ takeovers[e] \in Nat /\ Waiting(e) \in {0, 1}
    BY DEF QueueInv, Typed, TypeOK, Row, Waiting
  <2> QED BY <2>1, <2>2, <2>3, QueueAssumption
<1>2. QueueInv => EventsAreKept
  BY <1>1 DEF QueueInv, EventsAreKept
<1> QED BY InvHolds, <1>2, PTL

(* A set whose members are all the same has at most one.                    *)
LEMMA AtMostOne ==
  ASSUME NEW S, \A x, y \in S : x = y
  PROVE  Cardinality(S) <= 1
<1>1. CASE S = {}
  BY <1>1, FS_EmptySet
<1>2. CASE S # {}
  <2>1. PICK x : S = {x}
    BY <1>2
  <2>2. Cardinality(S) = 1
    BY <2>1, FS_Singleton
  <2> QED BY <2>2
<1> QED BY <1>1, <1>2

(* Any number of processes can run the loop without double-processing, as   *)
(* long as none takes longer over a batch than STALE_LOCK_MS.               *)
THEOREM Exclusive ==
  ASSUME ~SlowWorkers
  PROVE  Spec => []ExclusiveClaim
<1>1. Alone => ExclusiveClaim
  <2> SUFFICES ASSUME Alone, NEW e \in Events PROVE Cardinality(Holders(e)) <= 1
    BY DEF ExclusiveClaim
  <2>1. \A v, w \in Holders(e) : v = w
    BY DEF Alone, Holders
  <2> QED BY <2>1, AtMostOne
<1> QED BY AloneHolds, <1>1, PTL

(* Under the same condition an event that is processed, or given up on,     *)
(* keeps its status for ever: who writes a status still has the event in    *)
(* processing.                                                              *)
THEOREM Final ==
  ASSUME ~SlowWorkers
  PROVE  Spec => FinalStatus
<1> DEFINE Kept == \A e \in Events : row[e].status \in {"processed", "dead"} => row'[e].status = row[e].status
<1>1. QueueInv /\ Alone /\ [Next]_vars => Kept
  <2> SUFFICES ASSUME QueueInv, Alone, [Next]_vars, NEW d \in Events, row[d].status \in {"processed", "dead"}
               PROVE  row'[d].status = row[d].status
    OBVIOUS
  <2> USE DEF QueueInv, Typed, TypeOK
  <2>1. CASE UNCHANGED vars
    BY <2>1 DEF vars
  <2>2. ASSUME NEW e \in Events, Send(e) \/ ReceiveUnstored(e) PROVE UNCHANGED row
    BY <2>2 DEF Send, ReceiveUnstored
  <2>3. ASSUME NEW e \in Events, Receive(e) PROVE row'[d].status = row[d].status
    BY <2>3, EnqueueStores DEF Receive
  <2>4. ASSUME NEW e \in Events, ComesDue(e) \/ GoesStale(e) PROVE row'[d].status = row[d].status
    BY <2>4, TimeKeeps
  <2>5. ASSUME NEW w \in Workers, ClaimBatch(w) PROVE row'[d].status = row[d].status
    BY <2>5, ClaimTakes DEF Claimable
  <2>6. ASSUME NEW w \in Workers, Record(w) PROVE row'[d].status = row[d].status
    <3>1. PICK r \in worker[w].batch, ok \in BOOLEAN : Wrote(w, r, ok)
      BY <2>6, RecordWrites
    <3> QED BY <3>1, SMTT(60) DEF Wrote, Alone
  <2>7. ASSUME NEW w \in Workers, NEW r \in worker[w].batch, Handle(w, r) \/ HandleThrows(w, r) PROVE UNCHANGED row
    BY <2>7 DEF Handle, HandleThrows
  <2>8. ASSUME NEW w \in Workers, Crash(w) PROVE UNCHANGED row
    BY <2>8 DEF Crash
  <2> QED BY <2>1, <2>2, <2>3, <2>4, <2>5, <2>6, <2>7, <2>8 DEF Next, RunOne
<1>2. QueueInv /\ Alone /\ [Next]_vars => [Kept]_vars
  BY <1>1
<1> QED BY AloneHolds, <1>2, PTL DEF Spec, FinalStatus
=============================================================================
