--------------------------- MODULE ApprovalProofs ---------------------------
(***************************************************************************)
(* Proofs about Approval, for any number of users, payouts and handlers.   *)
(*                                                                         *)
(* Signatures are counted per payout: a recorded decision is never taken   *)
(* back, so that two of them stay two (Signed), in any interleaving.  The  *)
(* rest of what the comments promise rests on what a handler read before   *)
(* its transaction: it is still so when the handler writes, unless another *)
(* has overtaken it (Fresh).                                               *)
(***************************************************************************)
EXTENDS Approval, FiniteSetTheorems, TLAPS

Reps == {u \in Users : rep[u] # "none"}

(* Those who have recorded a decision on p.                                 *)
Decided(p) == {u \in Users : decision[<<p, u>>] # "none"}

Signed ==
    \A p \in Payouts :
        IsFiniteSet(Decided(p)) /\ (Released(p) => Cardinality(Decided(p)) >= REQUIRED_APPROVALS)

(* A space has finitely many reps.                                          *)
FewReps == IsFiniteSet(Reps)

ApprovalInv == TypeOK /\ Signed /\ FewReps

(* What a handler at c has read, as far as its write relies on it: the      *)
(* signatories a signature counts with, the roles and the seat of a         *)
(* handover, that the last lead stays, a hold that a change may not end,    *)
(* and the lead to pay from.                                                *)
Accurate(c) ==
    /\ c.at = "sign" => c.signatories = Signatories
    /\ c.at = "transfer" => rep[c.u] = "lead" /\ rep[c.v] = "co" /\ c.seat = (c.v \in seats)
    /\ c.at = "remove" /\ rep[c.v] = "lead" => Cardinality(Leads) > 1
    /\ c.at \in {"mode", "pin"} /\ hold => c.hold
    /\ c.at = "create" => c.account \in Leads

(* ... is still so, if no other handler has overtaken it.                   *)
Fresh == \A h \in Handlers \ overtaken : Accurate(call[h])

-----------------------------------------------------------------------------
(* What a handler holds at each place.                                      *)
LEMMA CallFields ==
  ASSUME NEW c \in Call
  PROVE  /\ c.at = "create" => c \in [at : {"create"}, u : Users, account : Users, needsApproval : BOOLEAN]
         /\ c.at \in {"announce", "otp", "reject"} => c.p \in Payouts /\ c.u \in Users
         /\ c.at = "sign" => c.p \in Payouts /\ c.u \in Users /\ c.signatories \in SUBSET Users
         /\ c.at = "cancel" => c.p \in Payouts
         /\ c.at = "transfer" => c.u \in Users /\ c.v \in Users /\ c.seat \in BOOLEAN
         /\ c.at = "remove" => c.v \in Users
         /\ c.at = "seats" => c.wanted \in SUBSET Users /\ c.hold \in BOOLEAN
         /\ c.at = "mode" => c.mode \in {"pin", "multisig"} /\ c.hold \in BOOLEAN
         /\ c.at = "pin" => c.hold \in BOOLEAN
<1>1. CASE c \in [at : {"idle", "sweep"}]
  BY <1>1
<1>2. CASE c \in [at : {"create"}, u : Users, account : Users, needsApproval : BOOLEAN]
  BY <1>2
<1>3. CASE c \in [at : {"announce", "otp", "reject"}, p : Payouts, u : Users]
  BY <1>3
<1>4. CASE c \in [at : {"sign"}, p : Payouts, u : Users, signatories : SUBSET Users]
  BY <1>4
<1>5. CASE c \in [at : {"cancel"}, p : Payouts]
  BY <1>5
<1>6. CASE c \in [at : {"transfer"}, u : Users, v : Users, seat : BOOLEAN]
  BY <1>6
<1>7. CASE c \in [at : {"remove"}, v : Users]
  BY <1>7
<1>8. CASE c \in [at : {"seats"}, wanted : SUBSET Users, hold : BOOLEAN]
  BY <1>8
<1>9. CASE c \in [at : {"mode"}, mode : {"pin", "multisig"}, hold : BOOLEAN]
  BY <1>9
<1>10. CASE c \in [at : {"pin"}, hold : BOOLEAN]
  BY <1>10
<1> QED BY <1>1, <1>2, <1>3, <1>4, <1>5, <1>6, <1>7, <1>8, <1>9, <1>10 DEF Call

LEMMA RejectFields ==
  ASSUME NEW c \in Call, c.at = "reject"
  PROVE  c = [at |-> "reject", p |-> c.p, u |-> c.u]
<1>1. c \in [at : {"announce", "otp", "reject"}, p : Payouts, u : Users]
  BY DEF Call
<1> QED BY <1>1

(* The places that handlers go to.                                          *)
LEMMA CallPlaces ==
  /\ Idle \in Call /\ [at |-> "sweep"] \in Call
  /\ \A u, v \in Users, b \in BOOLEAN :
        /\ [at |-> "create", u |-> u, account |-> v, needsApproval |-> b] \in Call
        /\ [at |-> "transfer", u |-> u, v |-> v, seat |-> b] \in Call
        /\ [at |-> "remove", v |-> v] \in Call
  /\ \A p \in Payouts, u \in Users :
        /\ [at |-> "announce", p |-> p, u |-> u] \in Call
        /\ [at |-> "otp", p |-> p, u |-> u] \in Call
        /\ [at |-> "reject", p |-> p, u |-> u] \in Call
        /\ [at |-> "cancel", p |-> p] \in Call
        /\ \A s \in SUBSET Users : [at |-> "sign", p |-> p, u |-> u, signatories |-> s] \in Call
  /\ \A s \in SUBSET Users, b \in BOOLEAN : [at |-> "seats", wanted |-> s, hold |-> b] \in Call
  /\ \A m \in {"pin", "multisig"}, b \in BOOLEAN : [at |-> "mode", mode |-> m, hold |-> b] \in Call
  /\ \A b \in BOOLEAN : [at |-> "pin", hold |-> b] \in Call
<1>1. Idle \in Call /\ [at |-> "sweep"] \in Call
  BY DEF Idle, Call
<1>2. ASSUME NEW u \in Users, NEW v \in Users, NEW b \in BOOLEAN
      PROVE  /\ [at |-> "create", u |-> u, account |-> v, needsApproval |-> b] \in Call
             /\ [at |-> "transfer", u |-> u, v |-> v, seat |-> b] \in Call
             /\ [at |-> "remove", v |-> v] \in Call
  BY DEF Call
<1>3. ASSUME NEW p \in Payouts, NEW u \in Users
      PROVE  /\ [at |-> "announce", p |-> p, u |-> u] \in Call
             /\ [at |-> "otp", p |-> p, u |-> u] \in Call
             /\ [at |-> "reject", p |-> p, u |-> u] \in Call
             /\ [at |-> "cancel", p |-> p] \in Call
             /\ \A s \in SUBSET Users : [at |-> "sign", p |-> p, u |-> u, signatories |-> s] \in Call
  BY DEF Call
<1>4. ASSUME NEW s \in SUBSET Users, NEW b \in BOOLEAN PROVE [at |-> "seats", wanted |-> s, hold |-> b] \in Call
  BY DEF Call
<1>5. ASSUME NEW m \in {"pin", "multisig"}, NEW b \in BOOLEAN PROVE [at |-> "mode", mode |-> m, hold |-> b] \in Call
  BY DEF Call
<1>6. ASSUME NEW b \in BOOLEAN PROVE [at |-> "pin", hold |-> b] \in Call
  BY DEF Call
<1> QED BY <1>1, <1>2, <1>3, <1>4, <1>5, <1>6

(* A handler that goes to a place keeps the handlers typed.                 *)
LEMMA GotoTyped ==
  ASSUME call \in [Handlers -> Call], NEW h \in Handlers, NEW c \in Call, Goto(h, c)
  PROVE  call' \in [Handlers -> Call] /\ call'[h] = c /\ \A g \in Handlers \ {h} : call'[g] = call[g]
  BY DEF Goto

-----------------------------------------------------------------------------
(* What a handler that only reads leaves behind: itself at c, with what it  *)
(* read.                                                                    *)
Reads(h, c) ==
    /\ c \in Call /\ Goto(h, c) /\ Accurate(c) /\ c.at # "sweep"
    /\ UNCHANGED <<rep, seats, inactive, mode, pin, hold, payout, decision, otp>>
    /\ changes' \in 0..MaxChanges /\ interrupts' \in 0..MaxInterrupts

(* The actions that only read; an interrupted handler has read nothing.     *)
Reading(h) ==
    \/ \E u \in Users :
          \/ RequestWithdrawal(h, u)
          \/ \E p \in Payouts : SendApprovalOtp(h, p, u) \/ ApprovePayout(h, p, u) \/ RejectPayout(h, p, u)
          \/ \E v \in Users : RemoveRep(h, u, v) \/ TransferLead(h, u, v)
          \/ \E wanted \in SUBSET Users : SetSignatories(h, u, wanted)
          \/ \E m \in {"pin", "multisig"} : SetWithdrawalAuthMode(h, u, m)
          \/ \E forgot \in BOOLEAN : SetWithdrawalPin(h, u, forgot)
    \/ AnnounceForApproval(h)
    \/ \E p \in Payouts : ExpireStaleApprovals(h, p)
    \/ Interrupt(h)

(* About to cancel, a handler relies on nothing that it has read.           *)
LEMMA CancelPlace ==
  ASSUME NEW p \in Payouts, NEW c, c = [at |-> "cancel", p |-> p]
  PROVE  c \in Call /\ Accurate(c) /\ c.at # "sweep"
<1>1. c \in Call
  BY DEF Call
<1>2. c.at = "cancel"
  OBVIOUS
<1> QED BY <1>1, <1>2 DEF Accurate

(* Loading a payout for signing only reads it.                              *)
LEMMA LoadReads ==
  ASSUME TypeOK, NEW h \in Handlers, NEW p \in Payouts, NEW u \in Users, NEW next \in Call,
         Accurate(next), next.at # "sweep",
         LoadForSigning(h, p, u, next), UNCHANGED <<team, security, signing, bounds>>
  PROVE  \E c \in Call : Reads(h, c)
<1>1. [at |-> "cancel", p |-> p] \in Call /\ Accurate([at |-> "cancel", p |-> p])
  BY CancelPlace
<1>2. CASE payout[p].expired
  <2>1. Reads(h, [at |-> "cancel", p |-> p])
    BY <1>1, <1>2 DEF LoadForSigning, Reads, TypeOK, team, security, signing, bounds
  <2> QED BY <1>1, <2>1
<1>3. CASE ~payout[p].expired
  <2>1. Reads(h, next)
    BY <1>3 DEF LoadForSigning, Reads, TypeOK, team, security, signing, bounds
  <2> QED BY <2>1
<1> QED BY <1>2, <1>3

(* Every one of these actions only reads.                                   *)
LEMMA ReadStep ==
  ASSUME TypeOK, NEW h \in Handlers, Reading(h)
  PROVE  \E c \in Call : Reads(h, c)
<1> USE DEF TypeOK, team, security, signing, bounds
<1>l. Leads \subseteq Users /\ Signatories \subseteq Users
  BY DEF Leads, Signatories
<1>c. Change => changes' \in 0..MaxChanges
  BY ApprovalAssumption DEF Change
<1>1. ASSUME NEW u \in Users, RequestWithdrawal(h, u) PROVE \E c \in Call : Reads(h, c)
  <2>1. PICK lead \in Leads :
            Goto(h, [at |-> "create", u |-> u, account |-> lead, needsApproval |-> mode = "multisig"])
    BY <1>1 DEF RequestWithdrawal, Start
  <2> DEFINE c == [at |-> "create", u |-> u, account |-> lead, needsApproval |-> mode = "multisig"]
  <2>2. c \in Call
    BY <1>l, CallPlaces
  <2>3. Reads(h, c)
    BY <1>1, <2>1, <2>2 DEF RequestWithdrawal, Reads, Accurate
  <2> QED BY <2>2, <2>3
<1>2. ASSUME NEW u \in Users, NEW p \in Payouts, SendApprovalOtp(h, p, u) PROVE \E c \in Call : Reads(h, c)
  <2> DEFINE next == [at |-> "otp", p |-> p, u |-> u]
  <2>1. next \in Call /\ Accurate(next) /\ next.at # "sweep"
    BY CallPlaces DEF Accurate
  <2>2. LoadForSigning(h, p, u, next) /\ UNCHANGED <<team, security, signing, bounds>>
    BY <1>2 DEF SendApprovalOtp
  <2> QED BY <2>1, <2>2, LoadReads
<1>3. ASSUME NEW u \in Users, NEW p \in Payouts, ApprovePayout(h, p, u) PROVE \E c \in Call : Reads(h, c)
  <2> DEFINE next == [at |-> "sign", p |-> p, u |-> u, signatories |-> Signatories]
  <2>1. next \in Call /\ Accurate(next) /\ next.at # "sweep"
    BY <1>l, CallPlaces DEF Accurate
  <2>2. LoadForSigning(h, p, u, next) /\ UNCHANGED <<team, security, signing, bounds>>
    BY <1>3 DEF ApprovePayout
  <2> QED BY <2>1, <2>2, LoadReads
<1>4. ASSUME NEW u \in Users, NEW p \in Payouts, RejectPayout(h, p, u) PROVE \E c \in Call : Reads(h, c)
  <2>1. PICK c \in {[at |-> "reject", p |-> p, u |-> u], [at |-> "cancel", p |-> p]} : Goto(h, c)
    BY <1>4 DEF RejectPayout, Start
  <2>2. c \in Call /\ Accurate(c) /\ c.at # "sweep"
    <3>1. CASE c = [at |-> "cancel", p |-> p]
      BY <3>1, CancelPlace
    <3>2. CASE c = [at |-> "reject", p |-> p, u |-> u]
      BY <3>2, CallPlaces DEF Accurate
    <3> QED BY <3>1, <3>2
  <2>3. Reads(h, c)
    BY <1>4, <2>1, <2>2 DEF RejectPayout, Reads
  <2> QED BY <2>2, <2>3
<1>5. ASSUME NEW u \in Users, NEW v \in Users, RemoveRep(h, u, v) PROVE \E c \in Call : Reads(h, c)
  <2> DEFINE c == [at |-> "remove", v |-> v]
  <2>1. c \in Call /\ Accurate(c)
    BY <1>5, CallPlaces DEF Accurate, RemoveRep
  <2>2. Reads(h, c)
    BY <1>5, <1>c, <2>1 DEF RemoveRep, Reads, Start
  <2> QED BY <2>1, <2>2
<1>6. ASSUME NEW u \in Users, NEW v \in Users, TransferLead(h, u, v) PROVE \E c \in Call : Reads(h, c)
  <2> DEFINE c == [at |-> "transfer", u |-> u, v |-> v, seat |-> v \in seats]
  <2>0. (v \in seats) \in BOOLEAN /\ rep[u] = "lead" /\ rep[v] = "co"
    BY <1>6 DEF TransferLead, Leading
  <2>1. c \in Call /\ Accurate(c)
    <3>1. c \in Call
      BY <2>0, CallPlaces
    <3>2. Accurate(c)
      BY <2>0 DEF Accurate
    <3> QED BY <3>1, <3>2
  <2>2. Reads(h, c)
    BY <1>6, <1>c, <2>1 DEF TransferLead, Reads, Start
  <2> QED BY <2>1, <2>2
<1>7. ASSUME NEW u \in Users, NEW wanted \in SUBSET Users, SetSignatories(h, u, wanted)
      PROVE  \E c \in Call : Reads(h, c)
  <2> DEFINE c == [at |-> "seats", wanted |-> wanted, hold |-> mode = "multisig"]
  <2>1. c \in Call /\ Accurate(c)
    BY CallPlaces DEF Accurate
  <2>2. Reads(h, c)
    BY <1>7, <1>c, <2>1 DEF SetSignatories, Reads, Start
  <2> QED BY <2>1, <2>2
<1>8. ASSUME NEW u \in Users, NEW m \in {"pin", "multisig"}, SetWithdrawalAuthMode(h, u, m)
      PROVE  \E c \in Call : Reads(h, c)
  <2> DEFINE c == [at |-> "mode", mode |-> m, hold |-> m = "pin" \/ hold]
  <2>1. c \in Call /\ Accurate(c)
    BY CallPlaces DEF Accurate
  <2>2. Reads(h, c)
    BY <1>8, <1>c, <2>1 DEF SetWithdrawalAuthMode, Reads, Start
  <2> QED BY <2>1, <2>2
<1>9. ASSUME NEW u \in Users, NEW forgot \in BOOLEAN, SetWithdrawalPin(h, u, forgot)
      PROVE  \E c \in Call : Reads(h, c)
  <2> DEFINE c == [at |-> "pin", hold |-> hold \/ (forgot /\ pin)]
  <2>1. c \in Call /\ Accurate(c)
    BY CallPlaces DEF Accurate
  <2>2. Reads(h, c)
    BY <1>9, <1>c, <2>1 DEF SetWithdrawalPin, Reads, Start
  <2> QED BY <2>1, <2>2
<1>10. ASSUME AnnounceForApproval(h) PROVE \E c \in Call : Reads(h, c)
  <2>1. call[h].p \in Payouts /\ call[h].u \in Users
    BY <1>10, CallFields DEF AnnounceForApproval
  <2> DEFINE next == [at |-> "otp", p |-> call[h].p, u |-> call[h].u]
  <2>2. next \in Call /\ Accurate(next) /\ next.at # "sweep"
    BY <2>1, CallPlaces DEF Accurate
  <2>3. CASE LoadForSigning(h, call[h].p, call[h].u, next)
    <3>1. UNCHANGED <<team, security, signing, bounds>>
      BY <1>10 DEF AnnounceForApproval
    <3> QED BY <2>1, <2>2, <2>3, <3>1, LoadReads
  <2>4. CASE Goto(h, Idle)
    <3>1. Idle \in Call /\ Accurate(Idle) /\ Idle.at # "sweep"
      BY CallPlaces DEF Accurate, Idle
    <3>2. Reads(h, Idle)
      BY <1>10, <2>4, <3>1 DEF AnnounceForApproval, Reads
    <3> QED BY <3>1, <3>2
  <2> QED BY <1>10, <2>3, <2>4 DEF AnnounceForApproval
<1>11. ASSUME NEW p \in Payouts, ExpireStaleApprovals(h, p) PROVE \E c \in Call : Reads(h, c)
  <2> DEFINE c == [at |-> "cancel", p |-> p]
  <2>1. c \in Call /\ Accurate(c)
    BY CancelPlace
  <2>2. Reads(h, c)
    BY <1>11, <2>1 DEF ExpireStaleApprovals, Reads, Start
  <2> QED BY <2>1, <2>2
<1>12. ASSUME Interrupt(h) PROVE \E c \in Call : Reads(h, c)
  <2>1. Idle \in Call /\ Accurate(Idle) /\ Idle.at # "sweep"
    BY CallPlaces DEF Accurate, Idle
  <2>2. interrupts' \in 0..MaxInterrupts
    BY <1>12, ApprovalAssumption DEF Interrupt
  <2>3. Reads(h, Idle)
    BY <1>12, <2>1, <2>2 DEF Interrupt, Reads
  <2> QED BY <2>1, <2>3
<1> QED BY <1>1, <1>2, <1>3, <1>4, <1>5, <1>6, <1>7, <1>8, <1>9, <1>10, <1>11, <1>12 DEF Reading

(* The types survive a step that only reads.                                *)
LEMMA ReadsTyped ==
  ASSUME TypeOK, NEW h \in Handlers, NEW c \in Call, Reads(h, c), overtaken' \subseteq Handlers PROVE TypeOK'
  BY GotoTyped DEF Reads, TypeOK

(* ... and cancelling payouts.                                              *)
LEMMA CancelledTyped ==
  ASSUME payout \in [Payouts -> Row], otp \subseteq Payouts \X Users, NEW P \in SUBSET Payouts, Cancelled(P)
  PROVE  /\ payout' \in [Payouts -> Row] /\ otp' \subseteq Payouts \X Users
         /\ \A p \in Payouts :
               /\ p \in P /\ Waiting(p) => payout'[p].status = "cancelled"
               /\ ~(p \in P /\ Waiting(p)) => payout'[p] = payout[p]
               /\ payout'[p].needsApproval = payout[p].needsApproval /\ payout'[p].account = payout[p].account
<1> DEFINE now == {p \in P : Waiting(p)}
<1>1. payout' = [p \in Payouts |-> IF p \in now
                                   THEN [payout[p] EXCEPT !.status = "cancelled", !.expired = FALSE]
                                   ELSE payout[p]]
  BY DEF Cancelled
<1>2. otp' \subseteq otp
  BY DEF Cancelled
<1>3. \A p \in Payouts : [payout[p] EXCEPT !.status = "cancelled", !.expired = FALSE] \in Row
  BY DEF Row
<1>4. payout' \in [Payouts -> Row]
  BY <1>1, <1>3
<1>5. \A p \in Payouts :
               /\ p \in P /\ Waiting(p) => payout'[p].status = "cancelled"
               /\ ~(p \in P /\ Waiting(p)) => payout'[p] = payout[p]
               /\ payout'[p].needsApproval = payout[p].needsApproval /\ payout'[p].account = payout[p].account
  BY <1>1 DEF Row
<1> QED BY <1>2, <1>4, <1>5

(* Every action keeps the types.                                            *)
LEMMA TypeStep == TypeOK /\ [Next]_vars => TypeOK'
<1> SUFFICES ASSUME TypeOK, [Next]_vars PROVE TypeOK'
  OBVIOUS
<1>o. overtaken' \subseteq Handlers
  BY DEF TypeOK, vars, Next, Overtaken
<1> USE <1>o DEF TypeOK, team, security, signing, bounds
<1>c. Change => changes' \in 0..MaxChanges
  BY ApprovalAssumption DEF Change
<1>i. Idle \in Call /\ [at |-> "sweep"] \in Call
  BY CallPlaces
<1>1. CASE UNCHANGED vars
  BY <1>1 DEF vars
<1>2. ASSUME NEW h \in Handlers, Reading(h) PROVE TypeOK'
  BY <1>2, ReadStep, ReadsTyped
<1>3. CASE HoldExpires
  BY <1>3 DEF HoldExpires
<1>4. ASSUME NEW p \in Payouts, WindowPasses(p) PROVE TypeOK'
  BY <1>4, ZenonT(60) DEF WindowPasses, Row
<1>5. ASSUME NEW p \in Payouts, Ends(p) PROVE TypeOK'
  BY <1>5 DEF Ends, Row
<1>6. ASSUME NEW p \in Payouts, NEW u \in Users, LoseOtp(p, u) PROVE TypeOK'
  BY <1>6 DEF LoseOtp
<1>7. ASSUME NEW h \in Handlers, NEW u \in Users, NEW v \in Users, AddRep(h, u, v) PROVE TypeOK'
  <2>1. rep' = [rep EXCEPT ![v] = "co"] /\ UNCHANGED <<seats, inactive, security, signing, call, interrupts>>
    BY <1>7 DEF AddRep
  <2>2. seats \subseteq {x \in Users : rep'[x] # "none"}
    BY <2>1
  <2> QED BY <1>7, <1>c, <2>1, <2>2 DEF AddRep
<1>8. ASSUME NEW h \in Handlers, NEW v \in Users, NEW role \in AdminRoles, AssignRep(h, v, role) PROVE TypeOK'
  <2> DEFINE demoted == IF role = "lead" THEN Leads \ {v} ELSE {}
  <2>1. rep' = [x \in Users |-> IF x = v THEN role ELSE IF x \in demoted THEN "co" ELSE rep[x]]
    BY <1>8 DEF AssignRep
  <2>2. seats' \subseteq seats /\ UNCHANGED <<inactive, mode, signing, interrupts>>
    BY <1>8 DEF AssignRep
  <2>3. role \in {"lead", "co"}
    BY ApprovalAssumption
  <2>4. rep' \in [Users -> {"none", "co", "lead"}] /\ seats' \subseteq {x \in Users : rep'[x] # "none"}
    BY <2>1, <2>2, <2>3
  <2>5. pin' \in BOOLEAN /\ hold' \in BOOLEAN /\ changes' \in 0..MaxChanges
    BY <1>8, <1>c DEF AssignRep
  <2>6. Goto(h, IF demoted = {} THEN Idle ELSE [at |-> "sweep"])
    BY <1>8 DEF AssignRep, Start
  <2>7. call' \in [Handlers -> Call]
    BY <1>i, <2>6, GotoTyped
  <2> QED BY <2>2, <2>4, <2>5, <2>7
<1>9. ASSUME NEW h \in Handlers, NEW u \in Users, Suspend(h, u) PROVE TypeOK'
  BY <1>9, <1>c DEF Suspend
<1>10. ASSUME NEW h \in Handlers, ClearPin(h) PROVE TypeOK'
  BY <1>10, <1>c DEF ClearPin
<1>11. ASSUME NEW h \in Handlers, CreatePayout(h) PROVE TypeOK'
  <2> DEFINE c == call[h]
  <2>1. c \in [at : {"create"}, u : Users, account : Users, needsApproval : BOOLEAN]
    BY <1>11, CallFields DEF CreatePayout
  <2>2. CASE Goto(h, Idle) /\ UNCHANGED payout
    BY <1>11, <1>i, <2>2, GotoTyped DEF CreatePayout
  <2>3. CASE ~(Goto(h, Idle) /\ UNCHANGED payout)
    <3> DEFINE new == [status |-> IF c.needsApproval THEN "awaiting_approval" ELSE "pending",
                       needsApproval |-> c.needsApproval, requestedBy |-> c.u,
                       account |-> c.account, expired |-> FALSE]
    <3>1. PICK p \in Payouts :
              /\ payout' = [payout EXCEPT ![p] = new]
              /\ Goto(h, IF c.needsApproval THEN [at |-> "announce", p |-> p, u |-> c.u] ELSE Idle)
      BY <1>11, <2>3 DEF CreatePayout
    <3>2. new \in Row
      BY <2>1 DEF Row
    <3>3. (IF c.needsApproval THEN [at |-> "announce", p |-> p, u |-> c.u] ELSE Idle) \in Call
      BY <1>i, <2>1, CallPlaces
    <3>4. payout' \in [Payouts -> Row] /\ call' \in [Handlers -> Call]
      BY <3>1, <3>2, <3>3, GotoTyped
    <3> QED BY <1>11, <3>4 DEF CreatePayout
  <2> QED BY <2>2, <2>3
<1>12. ASSUME NEW h \in Handlers, StoreOtp(h) PROVE TypeOK'
  <2>1. call[h].p \in Payouts /\ call[h].u \in Users
    BY <1>12, CallFields DEF StoreOtp
  <2> QED BY <1>12, <1>i, <2>1, GotoTyped DEF StoreOtp
<1>13. ASSUME NEW h \in Handlers, CastApproval(h) PROVE TypeOK'
  <2> DEFINE p == call[h].p
             u == call[h].u
  <2>1. p \in Payouts /\ u \in Users
    BY <1>13, CallFields DEF CastApproval
  <2>2. call' \in [Handlers -> Call]
    BY <1>13, <1>i, GotoTyped DEF CastApproval
  <2>3. decision' = decision \/ decision' = [decision EXCEPT ![<<p, u>>] = "approved"]
    BY <1>13 DEF CastApproval
  <2>4. payout' = payout \/ payout' = [payout EXCEPT ![p] = [@ EXCEPT !.status = "pending", !.expired = FALSE]]
    BY <1>13 DEF CastApproval
  <2>5. otp' \subseteq otp /\ UNCHANGED <<team, security, bounds>>
    BY <1>13 DEF CastApproval
  <2>6. payout' \in [Payouts -> Row]
    <3>1. [payout[p] EXCEPT !.status = "pending", !.expired = FALSE] \in Row
      BY <2>1, ZenonT(60) DEF Row
    <3> QED BY <2>1, <2>4, <3>1
  <2>7. decision' \in [Payouts \X Users -> {"none", "approved", "rejected"}]
    BY <2>1, <2>3
  <2> QED BY <2>2, <2>5, <2>6, <2>7
<1>14. ASSUME NEW h \in Handlers, RecordRejection(h) PROVE TypeOK'
  <2> DEFINE p == call[h].p
             u == call[h].u
  <2>1. p \in Payouts /\ u \in Users
    BY <1>14, CallFields DEF RecordRejection
  <2>2. [at |-> "cancel", p |-> p] \in Call
    BY <2>1, CancelPlace
  <2>3. call' \in [Handlers -> Call]
    BY <1>14, <2>2, GotoTyped DEF RecordRejection
  <2>4. decision' = [decision EXCEPT ![<<p, u>>] = "rejected"]
    BY <1>14 DEF RecordRejection
  <2> QED BY <1>14, <2>3, <2>4 DEF RecordRejection
<1>15. ASSUME NEW h \in Handlers, CancelPayout(h) PROVE TypeOK'
  <2>1. call[h].p \in Payouts
    BY <1>15, CallFields DEF CancelPayout
  <2>2. payout' \in [Payouts -> Row] /\ otp' \subseteq Payouts \X Users
    BY <1>15, <2>1, CancelledTyped DEF CancelPayout
  <2>3. call' \in [Handlers -> Call]
    BY <1>15, <1>i, GotoTyped DEF CancelPayout
  <2> QED BY <1>15, <2>2, <2>3 DEF CancelPayout
<1>16. ASSUME NEW h \in Handlers, CancelWaiting(h) PROVE TypeOK'
  <2>1. payout' \in [Payouts -> Row] /\ otp' \subseteq Payouts \X Users
    BY <1>16, CancelledTyped DEF CancelWaiting
  <2>2. call' \in [Handlers -> Call]
    BY <1>16, <1>i, GotoTyped DEF CancelWaiting
  <2> QED BY <1>16, <2>1, <2>2 DEF CancelWaiting
<1>17. ASSUME NEW h \in Handlers, DeleteRep(h) PROVE TypeOK'
  <2>1. call' \in [Handlers -> Call]
    BY <1>17, <1>i, GotoTyped DEF DeleteRep
  <2> QED BY <1>17, <2>1 DEF DeleteRep
<1>18. ASSUME NEW h \in Handlers, HandOver(h) PROVE TypeOK'
  <2> DEFINE u == call[h].u
             v == call[h].v
  <2>1. u \in Users /\ v \in Users
    BY <1>18, CallFields DEF HandOver
  <2>2. UNCHANGED <<inactive, mode, signing, bounds>>
    BY <1>18 DEF HandOver
  <2>3. CASE rep[u] = "none" \/ rep[v] = "none"
    <3>1. Goto(h, Idle) /\ UNCHANGED <<rep, seats, pin, hold>>
      BY <1>18, <2>3 DEF HandOver
    <3> QED BY <1>i, <2>2, <3>1, GotoTyped
  <2>4. CASE ~(rep[u] = "none" \/ rep[v] = "none")
    <3>1. /\ rep' = [rep EXCEPT ![v] = "lead", ![u] = "co"]
          /\ seats' = SeatsAfterHandover(u, v, call[h].seat)
          /\ pin' = FALSE /\ hold' = FALSE
          /\ Goto(h, [at |-> "sweep"])
      BY <1>18, <2>4 DEF HandOver
    <3>2. seats' \subseteq seats \cup {u}
      BY <3>1 DEF SeatsAfterHandover
    <3>3. rep' \in [Users -> {"none", "co", "lead"}] /\ rep'[u] # "none" /\ \A x \in Users : rep[x] # "none" => rep'[x] # "none"
      BY <2>1, <3>1
    <3>4. call' \in [Handlers -> Call]
      BY <1>i, <3>1, GotoTyped
    <3>5. seats' \subseteq {x \in Users : rep'[x] # "none"}
      BY <2>1, <3>2, <3>3
    <3>6. UNCHANGED <<inactive, mode, payout, decision, otp, changes, interrupts>>
      BY <2>2
    <3> QED BY <3>1, <3>3, <3>4, <3>5, <3>6
  <2> QED BY <2>3, <2>4
<1>19. ASSUME NEW h \in Handlers, WriteSeats(h) PROVE TypeOK'
  <2>1. call[h].wanted \in SUBSET Users /\ call[h].hold \in BOOLEAN
    BY <1>19, CallFields DEF WriteSeats
  <2>2. call' \in [Handlers -> Call]
    BY <1>19, <1>i, GotoTyped DEF WriteSeats
  <2> QED BY <1>19, <2>1, <2>2 DEF WriteSeats
<1>20. ASSUME NEW h \in Handlers, WriteMode(h) PROVE TypeOK'
  <2>1. call[h].mode \in {"pin", "multisig"} /\ call[h].hold \in BOOLEAN
    BY <1>20, CallFields DEF WriteMode
  <2>2. call' \in [Handlers -> Call]
    BY <1>20, <1>i, GotoTyped DEF WriteMode
  <2> QED BY <1>20, <2>1, <2>2 DEF WriteMode
<1>21. ASSUME NEW h \in Handlers, WritePin(h) PROVE TypeOK'
  <2>1. call[h].hold \in BOOLEAN
    BY <1>21, CallFields DEF WritePin
  <2>2. call' \in [Handlers -> Call]
    BY <1>21, <1>i, GotoTyped DEF WritePin
  <2> QED BY <1>21, <2>1, <2>2 DEF WritePin
<1> QED BY <1>1, <1>2, <1>3, <1>4, <1>5, <1>6, <1>7, <1>8, <1>9, <1>10, <1>11, <1>12, <1>13, <1>14, <1>15,
           <1>16, <1>17, <1>18, <1>19, <1>20, <1>21
        DEF Next, Step, Ask, Manage, Continue, Reading

-----------------------------------------------------------------------------
(* The actions that touch a payout or a decision.                           *)
LEMMA SigningCases ==
  ASSUME TypeOK, [Next]_vars
  PROVE  \/ UNCHANGED <<payout, decision>>
         \/ \E p \in Payouts : WindowPasses(p) \/ Ends(p)
         \/ \E h \in Handlers : CreatePayout(h) \/ CastApproval(h) \/ RecordRejection(h) \/ CancelPayout(h) \/ CancelWaiting(h)
<1> USE DEF team, security, signing, bounds
<1>1. CASE UNCHANGED vars
  BY <1>1 DEF vars
<1>2. ASSUME NEW h \in Handlers, Reading(h) PROVE UNCHANGED <<payout, decision>>
  BY <1>2, ReadStep DEF Reads
<1>3. HoldExpires => UNCHANGED <<payout, decision>>
  BY DEF HoldExpires
<1>4. \A p \in Payouts, u \in Users : LoseOtp(p, u) => UNCHANGED <<payout, decision>>
  BY DEF LoseOtp
<1>5. \A h \in Handlers, u, v \in Users : AddRep(h, u, v) => UNCHANGED <<payout, decision>>
  BY DEF AddRep
<1>6. \A h \in Handlers, v \in Users, role \in AdminRoles : AssignRep(h, v, role) => UNCHANGED <<payout, decision>>
  BY DEF AssignRep
<1>7. \A h \in Handlers, u \in Users : Suspend(h, u) => UNCHANGED <<payout, decision>>
  BY DEF Suspend
<1>8. \A h \in Handlers : ClearPin(h) \/ StoreOtp(h) \/ DeleteRep(h) => UNCHANGED <<payout, decision>>
  BY DEF ClearPin, StoreOtp, DeleteRep
<1>9. \A h \in Handlers : HandOver(h) => UNCHANGED <<payout, decision>>
  BY DEF HandOver
<1>10. \A h \in Handlers : WriteSeats(h) \/ WriteMode(h) \/ WritePin(h) => UNCHANGED <<payout, decision>>
  BY DEF WriteSeats, WriteMode, WritePin
<1> QED BY <1>1, <1>2, <1>3, <1>4, <1>5, <1>6, <1>7, <1>8, <1>9, <1>10 DEF Next, Step, Ask, Manage, Continue, Reading

(* What a step may do to payout p: leave it, create it, move it to a        *)
(* status, or take the signature or the rejection that a handler records.   *)
KeepsTerms(p) == payout'[p].needsApproval = payout[p].needsApproval /\ payout'[p].account = payout[p].account

Stays(p) == payout'[p].status = payout[p].status /\ KeepsTerms(p) /\ UNCHANGED decision

Moves(p, from, to) ==
    payout[p].status = from /\ payout'[p].status = to /\ KeepsTerms(p) /\ UNCHANGED decision

Appears(h, p) ==
    /\ CreatePayout(h) /\ payout[p].status = "none" /\ UNCHANGED decision
    /\ \/ payout'[p].status = "awaiting_approval"
       \/ payout'[p].status = "pending" /\ ~payout'[p].needsApproval
    /\ call[h].at = "create" /\ call'[h].at # "sweep" /\ payout'[p].account = call[h].account

SignsOff(h, p) ==
    /\ CastApproval(h)
    /\ call[h].at = "sign" /\ call[h].p = p /\ call[h].u \in Users /\ call[h].signatories \in SUBSET Users
    /\ Waiting(p) /\ decision[<<p, call[h].u>>] = "none"
    /\ decision' = [decision EXCEPT ![<<p, call[h].u>>] = "approved"]
    /\ KeepsTerms(p)
    /\ \/ payout'[p].status = payout[p].status
       \/ payout'[p].status = "pending" /\ Releases(p, call[h].signatories)

Refuses(h, p) ==
    /\ RecordRejection(h)
    /\ call[h].at = "reject" /\ call[h].p = p /\ call[h].u \in Users /\ UNCHANGED payout
    /\ call[h] = [at |-> "reject", p |-> p, u |-> call[h].u]
    /\ decision' = [decision EXCEPT ![<<p, call[h].u>>] = "rejected"]

(* These are all there are.                                                 *)
LEMMA PayoutSteps ==
  ASSUME TypeOK, [Next]_vars, NEW p \in Payouts
  PROVE  \/ Stays(p) \/ Moves(p, "pending", "closed") \/ Moves(p, "awaiting_approval", "cancelled")
         \/ \E h \in Handlers : Appears(h, p) \/ SignsOff(h, p) \/ Refuses(h, p)
         \/ \E h \in Handlers, q \in Payouts \ {p} :
               (SignsOff(h, q) \/ Refuses(h, q)) /\ payout'[p] = payout[p]
<1> USE DEF TypeOK, team, security, signing, bounds, Stays, Moves, KeepsTerms
<1>1. CASE UNCHANGED <<payout, decision>>
  BY <1>1
<1>2. ASSUME NEW q \in Payouts, WindowPasses(q) PROVE Stays(p)
  BY <1>2 DEF WindowPasses, Row
<1>3. ASSUME NEW q \in Payouts, Ends(q)
      PROVE  Stays(p) \/ Moves(p, "pending", "closed")
  BY <1>3 DEF Ends, Row
<1>4. ASSUME NEW h \in Handlers, CreatePayout(h)
      PROVE  Stays(p) \/ Appears(h, p)
  <2> DEFINE c == call[h]
  <2>1. c \in [at : {"create"}, u : Users, account : Users, needsApproval : BOOLEAN]
    BY <1>4, CallFields DEF CreatePayout
  <2>2. UNCHANGED decision
    BY <1>4 DEF CreatePayout
  <2>3. CASE UNCHANGED payout
    BY <2>2, <2>3
  <2>4. CASE ~UNCHANGED payout
    <3> DEFINE new == [status |-> IF c.needsApproval THEN "awaiting_approval" ELSE "pending",
                       needsApproval |-> c.needsApproval, requestedBy |-> c.u,
                       account |-> c.account, expired |-> FALSE]
    <3>1. PICK q \in Payouts :
              /\ payout[q].status = "none" /\ payout' = [payout EXCEPT ![q] = new]
              /\ Goto(h, IF c.needsApproval THEN [at |-> "announce", p |-> q, u |-> c.u] ELSE Idle)
      BY <1>4, <2>4 DEF CreatePayout
    <3>2. call'[h].at # "sweep"
      BY <3>1 DEF Goto, Idle
    <3> QED BY <1>4, <2>1, <2>2, <3>1, <3>2 DEF Appears
  <2> QED BY <2>3, <2>4
<1>5. ASSUME NEW h \in Handlers, CancelPayout(h) \/ CancelWaiting(h)
      PROVE  Stays(p) \/ Moves(p, "awaiting_approval", "cancelled")
  <2>1. PICK P \in SUBSET Payouts : Cancelled(P)
    BY <1>5, CallFields DEF CancelPayout, CancelWaiting
  <2> QED BY <1>5, <2>1, CancelledTyped DEF CancelPayout, CancelWaiting, Waiting
<1>6. ASSUME NEW h \in Handlers, CastApproval(h)
      PROVE  \/ Stays(p) \/ SignsOff(h, p)
             \/ \E q \in Payouts \ {p} : SignsOff(h, q) /\ payout'[p] = payout[p]
  <2> DEFINE q == call[h].p
             u == call[h].u
  <2>1. q \in Payouts /\ u \in Users /\ call[h].signatories \in SUBSET Users /\ call[h].at = "sign"
    BY <1>6, CallFields DEF CastApproval
  <2>2. CASE ~(Waiting(q) /\ decision[<<q, u>>] = "none")
    BY <1>6, <2>2 DEF CastApproval
  <2>3. CASE Waiting(q) /\ decision[<<q, u>>] = "none"
    <3>1. decision' = [decision EXCEPT ![<<q, u>>] = "approved"]
      BY <1>6, <2>3 DEF CastApproval
    <3>2. payout' = IF Releases(q, call[h].signatories)
                    THEN [payout EXCEPT ![q] = [@ EXCEPT !.status = "pending", !.expired = FALSE]]
                    ELSE payout
      BY <1>6, <2>3 DEF CastApproval
    <3>3. payout'[q].needsApproval = payout[q].needsApproval /\ payout'[q].account = payout[q].account
          /\ (payout'[q].status = payout[q].status \/ (payout'[q].status = "pending" /\ Releases(q, call[h].signatories)))
          /\ \A x \in Payouts \ {q} : payout'[x] = payout[x]
      BY <2>1, <3>2 DEF Row
    <3>4. SignsOff(h, q)
      BY <1>6, <2>1, <2>3, <3>1, <3>3 DEF SignsOff
    <3> QED BY <2>1, <3>3, <3>4
  <2> QED BY <2>2, <2>3
<1>7. ASSUME NEW h \in Handlers, RecordRejection(h)
      PROVE  call[h].p \in Payouts /\ Refuses(h, call[h].p) /\ UNCHANGED payout
  <2>1. call[h].at = "reject" /\ call[h].p \in Payouts /\ call[h].u \in Users
    BY <1>7, CallFields DEF RecordRejection
  <2>2. call[h] = [at |-> "reject", p |-> call[h].p, u |-> call[h].u]
    BY <2>1, RejectFields
  <2> QED BY <1>7, <2>1, <2>2 DEF RecordRejection, Refuses
<1> QED BY <1>1, <1>2, <1>3, <1>4, <1>5, <1>6, <1>7, SigningCases

(* Nobody has decided anything in the initial states.                       *)
LEMMA InitHolds == Init => ApprovalInv
<1> SUFFICES ASSUME Init PROVE ApprovalInv
  OBVIOUS
<1> USE DEF Init
<1>1. NoRow \in Row /\ ~NoRow.needsApproval
  BY ApprovalAssumption DEF NoRow, Row
<1>2. Idle \in Call
  BY CallPlaces
<1>3. rep \in [Users -> {"none", "co", "lead"}]
  OBVIOUS
<1>4. seats \subseteq {u \in Users : rep[u] # "none"}
  BY ApprovalAssumption
<1>5. TypeOK
  <2>1. payout \in [Payouts -> Row] /\ call \in [Handlers -> Call]
    BY <1>1, <1>2
  <2>2. decision \in [Payouts \X Users -> {"none", "approved", "rejected"}]
    OBVIOUS
  <2>3. changes \in 0..MaxChanges /\ interrupts \in 0..MaxInterrupts
    BY ApprovalAssumption
  <2>4. inactive \subseteq Users /\ mode \in {"pin", "multisig"} /\ pin \in BOOLEAN /\ hold \in BOOLEAN
        /\ otp \subseteq Payouts \X Users /\ overtaken \subseteq Handlers
    OBVIOUS
  <2> QED BY <1>3, <1>4, <2>1, <2>2, <2>3, <2>4 DEF TypeOK
<1>6. Signed
  <2> SUFFICES ASSUME NEW p \in Payouts PROVE IsFiniteSet(Decided(p)) /\ ~Released(p)
    BY DEF Signed
  <2>1. Decided(p) = {}
    BY DEF Decided
  <2> QED BY <1>1, <2>1, FS_EmptySet DEF Released
<1>7. FewReps
  <2>1. Reps \subseteq FirstReps \cup {FirstLead}
    BY DEF Reps
  <2>2. IsFiniteSet(FirstReps \cup {FirstLead})
    BY ApprovalAssumption, FS_AddElement
  <2> QED BY <2>1, <2>2, FS_Subset DEF FewReps
<1> QED BY <1>5, <1>6, <1>7 DEF ApprovalInv

(* Signed: a step records at most one decision, takes none back, and        *)
(* releases a payout that needs approval by two signatures only.            *)
LEMMA SignedStep == TypeOK /\ Signed /\ [Next]_vars => Signed'
<1> SUFFICES ASSUME TypeOK, Signed, [Next]_vars, NEW p \in Payouts
             PROVE  IsFiniteSet(Decided(p)') /\ (Released(p)' => Cardinality(Decided(p)') >= REQUIRED_APPROVALS)
  BY DEF Signed
<1> DEFINE Goal == IsFiniteSet(Decided(p)') /\ (Released(p)' => Cardinality(Decided(p)') >= REQUIRED_APPROVALS)
<1>0. IsFiniteSet(Decided(p)) /\ (Released(p) => Cardinality(Decided(p)) >= REQUIRED_APPROVALS)
      /\ Cardinality(Decided(p)) \in Nat
  BY FS_CardinalityType DEF Signed
<1>k. ASSUME Decided(p)' = Decided(p), Released(p)' => Released(p) PROVE Goal
  BY <1>0, <1>k
<1>a. ASSUME NEW u \in Users, Decided(p)' = Decided(p) \cup {u}
      PROVE  IsFiniteSet(Decided(p)') /\ Cardinality(Decided(p)') >= Cardinality(Decided(p)) /\ Cardinality(Decided(p)') \in Nat
  <2>1. IsFiniteSet(Decided(p)')
    BY <1>0, <1>a, FS_AddElement
  <2> QED BY <1>0, <1>a, <2>1, FS_Subset, FS_CardinalityType
<1>1. CASE Stays(p) \/ Moves(p, "pending", "closed") \/ Moves(p, "awaiting_approval", "cancelled")
  BY <1>1, <1>k DEF Stays, Moves, KeepsTerms, Decided, Released
<1>2. ASSUME NEW h \in Handlers, Appears(h, p) PROVE Goal
  BY <1>2, <1>k DEF Appears, Decided, Released
<1>3. ASSUME NEW h \in Handlers, SignsOff(h, p) PROVE Goal
  <2> DEFINE u == call[h].u
             ok == call[h].signatories
  <2>1. u \in Users /\ ok \subseteq Users /\ decision' = [decision EXCEPT ![<<p, u>>] = "approved"]
    BY <1>3 DEF SignsOff
  <2>2. \A x \in Users : decision'[<<p, x>>] = IF x = u THEN "approved" ELSE decision[<<p, x>>]
    BY <2>1 DEF TypeOK
  <2>3. Decided(p)' = Decided(p) \cup {u}
    BY <2>1, <2>2 DEF Decided
  <2>4. CASE payout'[p].status = payout[p].status
    BY <1>0, <1>3, <1>a, <2>1, <2>3, <2>4 DEF SignsOff, KeepsTerms, Released, REQUIRED_APPROVALS
  <2>5. CASE Releases(p, ok)
    <3> DEFINE approved == {x \in ok : decision'[<<p, x>>] = "approved"}
    <3>1. approved \subseteq Decided(p)'
      BY <2>1 DEF Decided
    <3>2. Cardinality(approved) >= REQUIRED_APPROVALS
      BY <2>5 DEF Releases
    <3>3. IsFiniteSet(approved) /\ Cardinality(approved) <= Cardinality(Decided(p)') /\ Cardinality(approved) \in Nat
      BY <1>a, <2>1, <2>3, <3>1, FS_Subset, FS_CardinalityType
    <3> QED BY <1>a, <2>1, <2>3, <3>2, <3>3 DEF REQUIRED_APPROVALS
  <2> QED BY <1>3, <2>4, <2>5 DEF SignsOff
<1>4. ASSUME NEW h \in Handlers, Refuses(h, p) PROVE Goal
  <2> DEFINE u == call[h].u
  <2>1. u \in Users /\ decision' = [decision EXCEPT ![<<p, u>>] = "rejected"] /\ UNCHANGED payout
    BY <1>4 DEF Refuses
  <2>2. \A x \in Users : decision'[<<p, x>>] = IF x = u THEN "rejected" ELSE decision[<<p, x>>]
    BY <2>1 DEF TypeOK
  <2>3. Decided(p)' = Decided(p) \cup {u}
    BY <2>1, <2>2 DEF Decided
  <2>4. Released(p)' => Released(p)
    BY <2>1 DEF Released
  <2>5. IsFiniteSet(Decided(p)') /\ Cardinality(Decided(p)') >= Cardinality(Decided(p)) /\ Cardinality(Decided(p)') \in Nat
    BY <1>a, <2>1, <2>3
  <2> QED BY <1>0, <2>4, <2>5 DEF REQUIRED_APPROVALS
<1>5. ASSUME NEW h \in Handlers, NEW q \in Payouts \ {p}, SignsOff(h, q) \/ Refuses(h, q), payout'[p] = payout[p]
      PROVE  Goal
  <2>1. PICK u \in Users, d \in {"approved", "rejected"} : decision' = [decision EXCEPT ![<<q, u>>] = d]
    BY <1>5 DEF SignsOff, Refuses
  <2>2. \A x \in Users : decision'[<<p, x>>] = decision[<<p, x>>]
    BY <2>1 DEF TypeOK
  <2>3. Decided(p)' = Decided(p)
    BY <2>2 DEF Decided
  <2> QED BY <1>5, <1>k, <2>3 DEF Released
<1> QED BY <1>1, <1>2, <1>3, <1>4, <1>5, PayoutSteps

(* The actions that change a role or a seat.                                *)
LEMMA TeamCases ==
  ASSUME TypeOK, [Next]_vars
  PROVE  \/ UNCHANGED <<rep, seats>>
         \/ \E h \in Handlers, u, v \in Users : AddRep(h, u, v)
         \/ \E h \in Handlers, v \in Users, role \in AdminRoles : AssignRep(h, v, role)
         \/ \E h \in Handlers : DeleteRep(h) \/ HandOver(h) \/ WriteSeats(h)
<1> USE DEF team, security, signing, bounds
<1>1. CASE UNCHANGED vars
  BY <1>1 DEF vars
<1>2. ASSUME NEW h \in Handlers, Reading(h) PROVE UNCHANGED <<rep, seats>>
  BY <1>2, ReadStep DEF Reads
<1>3. HoldExpires => UNCHANGED <<rep, seats>>
  BY DEF HoldExpires
<1>4. \A p \in Payouts : WindowPasses(p) \/ Ends(p) \/ (\E u \in Users : LoseOtp(p, u)) => UNCHANGED <<rep, seats>>
  BY DEF LoseOtp, WindowPasses, Ends
<1>5. \A h \in Handlers, u \in Users : Suspend(h, u) => UNCHANGED <<rep, seats>>
  BY DEF Suspend
<1>6. \A h \in Handlers : CreatePayout(h) \/ StoreOtp(h) \/ CastApproval(h) \/ RecordRejection(h) => UNCHANGED <<rep, seats>>
  BY DEF CreatePayout, StoreOtp, CastApproval, RecordRejection
<1>7. \A h \in Handlers : CancelPayout(h) \/ CancelWaiting(h) => UNCHANGED <<rep, seats>>
  BY DEF CancelPayout, CancelWaiting
<1>8. \A h \in Handlers : ClearPin(h) \/ WriteMode(h) \/ WritePin(h) => UNCHANGED <<rep, seats>>
  BY DEF ClearPin, WriteMode, WritePin
<1> QED BY <1>1, <1>2, <1>3, <1>4, <1>5, <1>6, <1>7, <1>8 DEF Next, Step, Ask, Manage, Continue, Reading

(* What a handover that finds both rows does to the roles and the seats.    *)
HandsOver(h, u, v) ==
    /\ call[h].at = "transfer" /\ call[h].u = u /\ call[h].v = v
    /\ rep[u] # "none" /\ rep[v] # "none"
    /\ rep' = [rep EXCEPT ![v] = "lead", ![u] = "co"]
    /\ seats' = SeatsAfterHandover(u, v, call[h].seat)
    /\ Goto(h, [at |-> "sweep"])

LEMMA HandOverSteps ==
  ASSUME TypeOK, NEW h \in Handlers, HandOver(h)
  PROVE  \/ UNCHANGED <<rep, seats, pin, hold>> /\ Goto(h, Idle)
         \/ \E u, v \in Users : HandsOver(h, u, v)
<1>1. call[h].u \in Users /\ call[h].v \in Users /\ call[h].at = "transfer"
  BY CallFields DEF HandOver, TypeOK
<1>2. CASE rep[call[h].u] = "none" \/ rep[call[h].v] = "none"
  BY <1>2 DEF HandOver
<1>3. CASE ~(rep[call[h].u] = "none" \/ rep[call[h].v] = "none")
  <2>1. HandsOver(h, call[h].u, call[h].v)
    BY <1>1, <1>3 DEF HandOver, HandsOver
  <2> QED BY <1>1, <2>1
<1> QED BY <1>2, <1>3

(* FewReps: a step adds at most one.                                        *)
LEMMA FewRepsStep == TypeOK /\ FewReps /\ [Next]_vars => FewReps'
<1> SUFFICES ASSUME TypeOK, FewReps, [Next]_vars PROVE IsFiniteSet(Reps')
  BY DEF FewReps
<1>f. ASSUME NEW v \in Users, Reps' \subseteq Reps \cup {v} PROVE IsFiniteSet(Reps')
  <2>1. IsFiniteSet(Reps \cup {v})
    BY FS_AddElement DEF FewReps
  <2> QED BY <1>f, <2>1, FS_Subset
<1>1. CASE UNCHANGED <<rep, seats>>
  BY <1>1 DEF Reps, FewReps
<1>2. ASSUME NEW h \in Handlers, NEW u \in Users, NEW v \in Users, AddRep(h, u, v) PROVE IsFiniteSet(Reps')
  <2>1. Reps' \subseteq Reps \cup {v}
    BY <1>2 DEF AddRep, Reps, TypeOK
  <2> QED BY <1>f, <2>1
<1>3. ASSUME NEW h \in Handlers, NEW v \in Users, NEW role \in AdminRoles, AssignRep(h, v, role) PROVE IsFiniteSet(Reps')
  <2>1. rep' = [x \in Users |-> IF x = v THEN role ELSE IF x \in (IF role = "lead" THEN Leads \ {v} ELSE {}) THEN "co" ELSE rep[x]]
    BY <1>3 DEF AssignRep
  <2>2. Reps' \subseteq Reps \cup {v}
    BY <2>1 DEF Reps, Leads
  <2> QED BY <1>f, <2>2
<1>4. ASSUME NEW h \in Handlers, DeleteRep(h) PROVE IsFiniteSet(Reps')
  <2>1. rep' = [rep EXCEPT ![call[h].v] = "none"]
    BY <1>4 DEF DeleteRep
  <2>2. Reps' \subseteq Reps
    BY <2>1 DEF Reps, TypeOK
  <2> QED BY <2>2, FS_Subset DEF FewReps
<1>5. ASSUME NEW h \in Handlers, HandOver(h) PROVE IsFiniteSet(Reps')
  <2>1. CASE UNCHANGED <<rep, seats>>
    BY <2>1 DEF Reps, FewReps
  <2>2. ASSUME NEW u \in Users, NEW v \in Users, HandsOver(h, u, v) PROVE IsFiniteSet(Reps')
    <3>1. Reps' \subseteq Reps
      BY <2>2 DEF HandsOver, Reps, TypeOK
    <3> QED BY <3>1, FS_Subset DEF FewReps
  <2> QED BY <1>5, <2>1, <2>2, HandOverSteps
<1>6. ASSUME NEW h \in Handlers, WriteSeats(h) PROVE IsFiniteSet(Reps')
  BY <1>6 DEF WriteSeats, Reps, FewReps
<1> QED BY <1>1, <1>2, <1>3, <1>4, <1>5, <1>6, TeamCases

(* The three together.                                                      *)
LEMMA InvHolds == Spec => []ApprovalInv
<1>1. ApprovalInv /\ [Next]_vars => ApprovalInv'
  BY TypeStep, SignedStep, FewRepsStep DEF ApprovalInv
<1> QED BY InitHolds, <1>1, PTL DEF Spec

(* Roles, seats, settings, signatures and what each handler holds keep      *)
(* their types, and only reps have a seat.                                  *)
THEOREM ApprovalTypeCorrect == Spec => []TypeOK
<1>1. ApprovalInv => TypeOK
  BY DEF ApprovalInv
<1> QED BY InvHolds, <1>1, PTL

(* A withdrawal that needed approval leaves only after two different people *)
(* have recorded a decision on it, in any interleaving of any number of     *)
(* handlers, and whatever is interrupted.                                   *)
THEOREM TwoPeopleRelease == Spec => []ReleasedByTwo
<1>1. ApprovalInv => ReleasedByTwo
  BY DEF ApprovalInv, Signed, ReleasedByTwo, Decided
<1> QED BY InvHolds, <1>1, PTL

(* Nothing cancelled is released, nothing released is cancelled, and a      *)
(* rejection stays one.                                                     *)
THEOREM DecisionsStay == Spec => DecisionsAreFinal
<1> DEFINE Final == /\ \A p \in Payouts :
                          /\ payout[p].status = "cancelled" => payout'[p].status = "cancelled"
                          /\ Released(p) => payout'[p].status \in {"pending", "closed"}
                    /\ \A pu \in Payouts \X Users : decision[pu] = "rejected" => decision'[pu] = "rejected"
<1>1. ApprovalInv /\ [Next]_vars => Final
  <2> SUFFICES ASSUME TypeOK, [Next]_vars PROVE Final
    BY DEF ApprovalInv
  <2>1. ASSUME NEW p \in Payouts
        PROVE  /\ payout[p].status = "cancelled" => payout'[p].status = "cancelled"
               /\ Released(p) => payout'[p].status \in {"pending", "closed"}
    BY PayoutSteps, ZenonT(60) DEF Stays, Moves, Appears, SignsOff, Refuses, Waiting, Released
  <2>2. ASSUME NEW p \in Payouts, NEW u \in Users, decision[<<p, u>>] = "rejected"
        PROVE  decision'[<<p, u>>] = "rejected"
    <3>1. CASE UNCHANGED decision
      BY <2>2, <3>1
    <3>2. ASSUME NEW h \in Handlers, NEW q \in Payouts, SignsOff(h, q) PROVE decision'[<<p, u>>] = "rejected"
      BY <2>2, <3>2 DEF SignsOff, TypeOK
    <3>3. ASSUME NEW h \in Handlers, NEW q \in Payouts, Refuses(h, q) PROVE decision'[<<p, u>>] = "rejected"
      BY <2>2, <3>3 DEF Refuses, TypeOK
    <3> QED BY <3>1, <3>2, <3>3, PayoutSteps DEF Stays, Moves, Appears
  <2> QED BY <2>1, <2>2
<1>2. ApprovalInv /\ [Next]_vars => [Final]_vars
  BY <1>1
<1> QED BY InvHolds, <1>2, PTL DEF Spec, DecisionsAreFinal

-----------------------------------------------------------------------------
(* The steps of a handler that write.                                       *)
Writing(h) ==
    \/ CreatePayout(h) \/ StoreOtp(h) \/ CastApproval(h) \/ RecordRejection(h) \/ CancelPayout(h)
    \/ DeleteRep(h) \/ HandOver(h) \/ CancelWaiting(h) \/ WriteSeats(h) \/ WriteMode(h) \/ WritePin(h)

(* Changes made in one step, by reps and administrators.                    *)
Changing(h) ==
    \/ \E u, v \in Users : AddRep(h, u, v)
    \/ \E u \in Users : Suspend(h, u)
    \/ ClearPin(h)

(* What happens without a handler.                                          *)
TimePasses ==
    \/ \E p \in Payouts : WindowPasses(p) \/ Ends(p) \/ \E u \in Users : LoseOtp(p, u)
    \/ HoldExpires

LEMMA StepCases ==
  ASSUME [Next]_vars
  PROVE  \/ UNCHANGED vars
         \/ \E h \in Handlers : Reading(h) \/ Writing(h) \/ Changing(h)
         \/ \E h \in Handlers, v \in Users, role \in AdminRoles : AssignRep(h, v, role)
         \/ TimePasses
  BY DEF Next, Step, Ask, Manage, Continue, Reading, Writing, Changing, TimePasses

(* A handler that has written stands where it relies on nothing it has read.*)
Done == {"idle", "announce", "cancel", "sweep"}

LEMMA WritingEnds ==
  ASSUME TypeOK, NEW h \in Handlers, Writing(h)
  PROVE  call'[h].at \in Done /\ \A g \in Handlers \ {h} : call'[g] = call[g]
<1> USE DEF TypeOK, Done, Goto, Idle
<1>1. CASE CreatePayout(h)
  BY <1>1 DEF CreatePayout
<1>2. CASE StoreOtp(h)
  BY <1>2 DEF StoreOtp
<1>3. CASE CastApproval(h)
  BY <1>3 DEF CastApproval
<1>4. CASE RecordRejection(h)
  BY <1>4 DEF RecordRejection
<1>5. CASE CancelPayout(h) \/ CancelWaiting(h)
  BY <1>5 DEF CancelPayout, CancelWaiting
<1>6. CASE DeleteRep(h)
  BY <1>6 DEF DeleteRep
<1>7. CASE HandOver(h)
  BY <1>7 DEF HandOver
<1>8. CASE WriteSeats(h) \/ WriteMode(h) \/ WritePin(h)
  BY <1>8 DEF WriteSeats, WriteMode, WritePin
<1> QED BY <1>1, <1>2, <1>3, <1>4, <1>5, <1>6, <1>7, <1>8 DEF Writing

LEMMA AssignEnds ==
  ASSUME TypeOK, NEW h \in Handlers, NEW v \in Users, NEW role \in AdminRoles, AssignRep(h, v, role)
  PROVE  call[h] = Idle /\ call'[h].at \in Done /\ \A g \in Handlers \ {h} : call'[g] = call[g]
<1>1. PICK next \in {Idle, [at |-> "sweep"]} : Goto(h, next)
  BY DEF AssignRep, Start
<1>2. call[h] = Idle
  BY DEF AssignRep, Start
<1> QED BY <1>1, <1>2 DEF Goto, TypeOK, Idle, Done

(* Time takes no handler anywhere, and ends a hold at most.                 *)
LEMMA TimeKeeps ==
  ASSUME TypeOK, TimePasses
  PROVE  /\ UNCHANGED <<rep, seats, inactive, mode, pin, decision, call>>
         /\ (hold' = hold \/ (HoldExpires /\ ~hold'))
<1> USE DEF TypeOK, team, security, signing, bounds
<1>1. ASSUME NEW p \in Payouts, WindowPasses(p) PROVE UNCHANGED <<rep, seats, inactive, mode, pin, hold, decision, call>>
  BY <1>1 DEF WindowPasses
<1>2. ASSUME NEW p \in Payouts, Ends(p) PROVE UNCHANGED <<rep, seats, inactive, mode, pin, hold, decision, call>>
  BY <1>2 DEF Ends
<1>3. ASSUME NEW p \in Payouts, NEW u \in Users, LoseOtp(p, u)
      PROVE UNCHANGED <<rep, seats, inactive, mode, pin, hold, decision, call>>
  BY <1>3 DEF LoseOtp
<1>4. ASSUME HoldExpires PROVE UNCHANGED <<rep, seats, inactive, mode, pin, decision, call>> /\ ~hold'
  BY <1>4 DEF HoldExpires
<1> QED BY <1>1, <1>2, <1>3, <1>4 DEF TimePasses

(* A handler moves by a step of its own: it reads, it writes, or an         *)
(* administrator's request runs in it.                                      *)
LEMMA OwnSteps ==
  ASSUME TypeOK, [Next]_vars, NEW h \in Handlers, call'[h] # call[h]
  PROVE  Reading(h) \/ Writing(h) \/ \E v \in Users, role \in AdminRoles : AssignRep(h, v, role)
<1>1. CASE UNCHANGED vars
  BY <1>1 DEF vars
<1>2. ASSUME NEW g \in Handlers, Reading(g) PROVE g = h
  <2>1. PICK c \in Call : Reads(g, c)
    BY <1>2, ReadStep
  <2> QED BY <2>1, GotoTyped DEF Reads, TypeOK
<1>3. ASSUME NEW g \in Handlers, Writing(g) PROVE g = h
  BY <1>3, WritingEnds
<1>4. ASSUME NEW g \in Handlers, Changing(g) PROVE FALSE
  BY <1>4 DEF Changing, AddRep, Suspend, ClearPin
<1>5. ASSUME NEW g \in Handlers, NEW v \in Users, NEW role \in AdminRoles, AssignRep(g, v, role) PROVE g = h
  BY <1>5, AssignEnds
<1>6. CASE TimePasses
  BY <1>6, TimeKeeps
<1> QED BY <1>1, <1>2, <1>3, <1>4, <1>5, <1>6, StepCases

(* Fresh: what a handler reads is so when it reads it; its write ends its   *)
(* reliance on it; and a step in between that touches it overtakes the      *)
(* handler.                                                                 *)
LEMMA FreshStep == TypeOK /\ Fresh /\ [Next]_vars => Fresh'
<1> SUFFICES ASSUME TypeOK, Fresh, [Next]_vars, NEW h \in Handlers, h \notin overtaken' PROVE Accurate(call[h])'
  BY DEF Fresh
<1>1. CASE UNCHANGED vars
  <2>1. Accurate(call[h])
    BY <1>1 DEF Fresh, vars
  <2> QED BY <1>1, <2>1 DEF vars, Accurate, Signatories, Leads
<1>2. CASE call'[h].at \notin Relying
  BY <1>2 DEF Relying, Accurate
<1>3. CASE ~UNCHANGED vars /\ call'[h].at \in Relying /\ call'[h] = call[h]
  <2>1. h \notin overtaken /\ team' = team /\ (hold' => hold)
    BY <1>3 DEF Next, Overtaken
  <2>2. Accurate(call[h])
    BY <2>1 DEF Fresh
  <2>3. UNCHANGED <<rep, seats, inactive>>
    BY <2>1 DEF team
  <2>4. Leads' = Leads /\ Signatories' = Signatories
    BY <2>3 DEF Leads, Signatories
  <2> QED BY <1>3, <2>1, <2>2, <2>3, <2>4 DEF Accurate
<1>4. CASE call'[h].at \in Relying /\ call'[h] # call[h]
  <2>1. Reading(h)
    BY <1>4, OwnSteps, WritingEnds, AssignEnds DEF Done, Relying
  <2>2. PICK c \in Call : Reads(h, c)
    BY <2>1, ReadStep
  <2>3. call'[h] = c
    BY <2>2, GotoTyped DEF Reads, TypeOK
  <2>4. Accurate(c) /\ UNCHANGED <<rep, seats, inactive, hold>>
    BY <2>2 DEF Reads
  <2> QED BY <2>3, <2>4 DEF Accurate, Signatories, Leads
<1> QED BY <1>1, <1>2, <1>3, <1>4

LEMMA FreshHolds == Spec => [](ApprovalInv /\ Fresh)
<1>1. Init => Fresh
  BY DEF Init, Idle, Fresh, Accurate
<1>2. ApprovalInv /\ Fresh /\ [Next]_vars => Fresh'
  BY FreshStep DEF ApprovalInv
<1> QED BY InvHolds, <1>1, <1>2, PTL DEF Spec

(* A withdrawal is released by two signatures of those who are signatories  *)
(* at that moment ("Only current signatories count", approvePayout), unless *)
(* the last of them was overtaken by a change of the team.                  *)
THEOREM CurrentSignatoriesRelease == Spec => CurrentSignatoriesCount
<1> DEFINE Count == \A p \in Payouts :
              Waiting(p) /\ payout'[p].status = "pending" =>
                  \/ Cardinality({u \in Signatories : decision'[<<p, u>>] = "approved"}) >= REQUIRED_APPROVALS
                  \/ \E h \in overtaken : call[h].at = "sign" /\ call[h].p = p /\ CastApproval(h)
<1>1. ApprovalInv /\ Fresh /\ [Next]_vars => Count
  <2> SUFFICES ASSUME TypeOK, Fresh, [Next]_vars, NEW p \in Payouts, Waiting(p), payout'[p].status = "pending",
                      \A h \in overtaken : ~(call[h].at = "sign" /\ call[h].p = p /\ CastApproval(h))
               PROVE  Cardinality({u \in Signatories : decision'[<<p, u>>] = "approved"}) >= REQUIRED_APPROVALS
    BY DEF ApprovalInv
  <2>1. payout'[p].status # payout[p].status
    BY DEF Waiting
  <2>2. PICK h \in Handlers : SignsOff(h, p)
    BY <2>1, PayoutSteps DEF Stays, Moves, Appears, Refuses, Waiting
  <2>3. Releases(p, call[h].signatories)
    BY <2>1, <2>2 DEF SignsOff
  <2>4. h \notin overtaken
    BY <2>2 DEF SignsOff
  <2>5. call[h].signatories = Signatories
    BY <2>2, <2>4 DEF SignsOff, Fresh, Accurate
  <2> QED BY <2>3, <2>5 DEF Releases
<1>2. ApprovalInv /\ Fresh /\ [Next]_vars => [Count]_vars
  BY <1>1
<1> QED BY FreshHolds, <1>2, PTL DEF Spec, CurrentSignatoriesCount

(* Handing over the lead: the two swap places, so the number stays.         *)
LEMMA HandOverKeepsSeats ==
  ASSUME TypeOK, FewReps, Fresh, NEW h \in Handlers \ overtaken, NEW u \in Users, NEW v \in Users, HandsOver(h, u, v)
  PROVE  Cardinality(Leads' \cup seats') = Cardinality(Leads \cup seats)
<1>1. rep[u] = "lead" /\ rep[v] = "co" /\ call[h].seat = (v \in seats)
  BY DEF HandsOver, Fresh, Accurate
<1>2. rep' = [rep EXCEPT ![v] = "lead", ![u] = "co"]
      /\ seats' = (seats \ {u, v}) \cup (IF v \in seats THEN {u} ELSE {})
  BY <1>1 DEF HandsOver, SeatsAfterHandover
<1>3. u # v /\ u \in Leads /\ v \notin Leads /\ seats \subseteq Users /\ Leads \subseteq Users
  BY <1>1 DEF Leads, TypeOK
<1>4. Leads' = (Leads \ {u}) \cup {v}
  BY <1>2, <1>3 DEF Leads, TypeOK
<1> DEFINE S == Leads \cup seats
<1>5. IsFiniteSet(S)
  <2>1. S \subseteq Reps
    BY DEF Leads, Reps, TypeOK
  <2> QED BY <2>1, FS_Subset DEF FewReps
<1>6. CASE v \in seats
  <2>1. Leads' \cup seats' = S
    BY <1>2, <1>3, <1>4, <1>6
  <2> QED BY <2>1
<1>7. CASE v \notin seats
  <2>1. Leads' \cup seats' = (S \ {u}) \cup {v}
    BY <1>2, <1>3, <1>4, <1>7
  <2>2. u \in S /\ v \notin S \ {u}
    BY <1>3, <1>7
  <2>3. IsFiniteSet(S \ {u}) /\ Cardinality(S \ {u}) = Cardinality(S) - 1
    BY <1>5, <2>2, FS_RemoveElement
  <2>4. Cardinality((S \ {u}) \cup {v}) = Cardinality(S \ {u}) + 1
    BY <2>2, <2>3, FS_AddElement
  <2>5. Cardinality((S \ {u}) \cup {v}) = Cardinality(S)
    <3>1. Cardinality(S) \in Nat
      BY <1>5, FS_CardinalityType
    <3> HIDE DEF S
    <3> QED BY <2>3, <2>4, <3>1
  <2> QED BY <2>1, <2>5
<1> QED BY <1>6, <1>7

(* Only a handover takes a handler from transfer to sweep.                  *)
LEMMA SweepsAfterHandover ==
  ASSUME TypeOK, [Next]_vars, NEW h \in Handlers, call[h].at = "transfer", call'[h].at = "sweep"
  PROVE  HandOver(h)
<1>1. ~Reading(h)
  <2> SUFFICES ASSUME Reading(h) PROVE FALSE
    OBVIOUS
  <2>1. PICK c \in Call : Reads(h, c)
    BY ReadStep
  <2>2. call'[h] = c
    BY <2>1, GotoTyped DEF Reads, TypeOK
  <2> QED BY <2>1, <2>2 DEF Reads
<1>2. Writing(h) => HandOver(h)
  BY DEF Writing, CreatePayout, StoreOtp, CastApproval, RecordRejection, CancelPayout, CancelWaiting,
         DeleteRep, WriteSeats, WriteMode, WritePin
<1>3. \A v \in Users, role \in AdminRoles : ~AssignRep(h, v, role)
  BY DEF AssignRep, Start, Idle
<1>4. call'[h] # call[h]
  OBVIOUS
<1> QED BY <1>1, <1>2, <1>3, <1>4, OwnSteps

(* A hold ends by time, by an administrator, with the lead, or by a write   *)
(* that was overtaken.                                                      *)
LEMMA HoldStep ==
  ASSUME TypeOK, Fresh, [Next]_vars, hold, ~hold'
  PROVE  \/ HoldExpires \/ Leads' # Leads
         \/ \E h \in Handlers : ClearPin(h)
         \/ \E h \in overtaken : HandOver(h) \/ WriteMode(h) \/ WritePin(h)
<1> USE DEF team, security, signing, bounds
<1>1. CASE UNCHANGED vars
  BY <1>1 DEF vars
<1>2. ASSUME NEW h \in Handlers, Reading(h) PROVE FALSE
  BY <1>2, ReadStep DEF Reads
<1>3. ASSUME NEW h \in Handlers, HandOver(h), h \notin overtaken PROVE Leads' # Leads
  <2>1. PICK u \in Users, v \in Users : HandsOver(h, u, v)
    BY <1>3, HandOverSteps
  <2>2. rep[v] = "co" /\ rep[u] = "lead"
    BY <1>3, <2>1 DEF HandsOver, Fresh, Accurate
  <2>3. v \in Leads' /\ v \notin Leads
    BY <2>1, <2>2 DEF HandsOver, Leads, TypeOK
  <2> QED BY <2>3
<1>4. ASSUME NEW h \in Handlers, WriteMode(h) \/ WritePin(h) PROVE h \in overtaken
  BY <1>4 DEF WriteMode, WritePin, Fresh, Accurate
<1>5. ASSUME NEW h \in Handlers, CreatePayout(h) \/ StoreOtp(h) \/ CastApproval(h) \/ RecordRejection(h) PROVE FALSE
  BY <1>5 DEF CreatePayout, StoreOtp, CastApproval, RecordRejection
<1>6. ASSUME NEW h \in Handlers, CancelPayout(h) \/ CancelWaiting(h) \/ DeleteRep(h) \/ WriteSeats(h) PROVE FALSE
  BY <1>6 DEF CancelPayout, CancelWaiting, DeleteRep, WriteSeats
<1>7. ASSUME NEW h \in Handlers, Changing(h) PROVE ClearPin(h)
  BY <1>7 DEF Changing, AddRep, Suspend
<1>8. ASSUME NEW h \in Handlers, NEW v \in Users, NEW role \in AdminRoles, AssignRep(h, v, role) PROVE Leads' # Leads
  <2>1. role = "lead" /\ rep[v] # "lead"
    BY <1>8 DEF AssignRep
  <2>2. rep'[v] = "lead"
    BY <1>8, <2>1 DEF AssignRep
  <2> QED BY <2>1, <2>2 DEF Leads
<1>9. CASE TimePasses
  BY <1>9, TimeKeeps
<1> QED BY <1>1, <1>2, <1>3, <1>4, <1>5, <1>6, <1>7, <1>8, <1>9, StepCases DEF Writing

(* A handover keeps the number of seats ("so a multisig space keeps its     *)
(* three signatories through the handover", transfer-lead), and no change   *)
(* of the settings shortens a hold, but by a write that was overtaken.      *)
THEOREM SafeChanges == Spec => ChangesAreSafe
<1> DEFINE Keeps == \A h \in Handlers \ overtaken :
              call[h].at = "transfer" /\ call'[h].at = "sweep" =>
                  Cardinality(Leads' \cup seats') = Cardinality(Leads \cup seats)
           Lasts == hold /\ ~hold' =>
              \/ HoldExpires \/ Leads' # Leads
              \/ \E h \in Handlers : ClearPin(h)
              \/ \E h \in overtaken : HandOver(h) \/ WriteMode(h) \/ WritePin(h)
<1>1. ApprovalInv /\ Fresh /\ [Next]_vars => Keeps
  <2> SUFFICES ASSUME ApprovalInv, Fresh, [Next]_vars, NEW h \in Handlers \ overtaken,
                      call[h].at = "transfer", call'[h].at = "sweep"
               PROVE  Cardinality(Leads' \cup seats') = Cardinality(Leads \cup seats)
    OBVIOUS
  <2>1. HandOver(h)
    BY SweepsAfterHandover DEF ApprovalInv
  <2>2. ~Goto(h, Idle)
    BY DEF Goto, Idle, ApprovalInv, TypeOK
  <2>3. PICK u \in Users, v \in Users : HandsOver(h, u, v)
    BY <2>1, <2>2, HandOverSteps DEF ApprovalInv
  <2> QED BY <2>3, HandOverKeepsSeats DEF ApprovalInv
<1>2. ApprovalInv /\ Fresh /\ [Next]_vars => Lasts
  BY HoldStep DEF ApprovalInv
<1>3. ApprovalInv /\ Fresh /\ [Next]_vars => [Keeps]_vars /\ [Lasts]_vars
  BY <1>1, <1>2
<1> QED BY FreshHolds, <1>3, PTL DEF Spec, ChangesAreSafe, HandoverKeepsSeats, HoldLasts

-----------------------------------------------------------------------------
Sweeping == \E h \in Handlers : call[h].at = "sweep"

(* One lead.                                                                *)
LEMMA OneLeadIs ==
  ASSUME TypeOK, FewReps PROVE OneLead <=> \E l \in Users : Leads = {l}
<1>1. Leads \subseteq Reps /\ Leads \subseteq Users
  BY DEF Leads, Reps
<1>2. IsFiniteSet(Leads)
  BY <1>1, FS_Subset DEF FewReps
<1>3. OneLead <=> \E l : Leads = {l}
  BY <1>2, FS_Singleton DEF OneLead
<1> QED BY <1>1, <1>3

(* What a step does to the roles of the leads: nothing; or one user takes   *)
(* over, and the handler goes on to sweep; or the lead is lost or doubled,  *)
(* as LeadStays says.                                                       *)
LEMMA LeadStep ==
  ASSUME TypeOK, FewReps, Fresh, NEW l \in Users, Leads = {l}, [Next]_vars
  PROVE  \/ Leads' = {l}
         \/ (\E v \in Users : Leads' = {v}) /\ Sweeping'
         \/ /\ \/ Sweeping' \/ Leads' = {}
            /\ \/ \E h \in overtaken : HandOver(h) \/ DeleteRep(h)
               \/ \E h \in Handlers, v \in Leads : AssignRep(h, v, "co")
<1>1. CASE UNCHANGED <<rep, seats>>
  BY <1>1 DEF Leads
<1>2. ASSUME NEW h \in Handlers, NEW u \in Users, NEW v \in Users, AddRep(h, u, v) PROVE Leads' = {l}
  <2>1. rep[v] = "none" /\ rep' = [rep EXCEPT ![v] = "co"]
    BY <1>2 DEF AddRep
  <2> QED BY <2>1 DEF Leads, TypeOK
<1>3. ASSUME NEW h \in Handlers, NEW v \in Users, AssignRep(h, v, "lead")
      PROVE  Leads' = {l} \/ ((\E w \in Users : Leads' = {w}) /\ Sweeping')
  <2>1. /\ rep' = [x \in Users |-> IF x = v THEN "lead" ELSE IF x \in Leads \ {v} THEN "co" ELSE rep[x]]
        /\ Goto(h, IF Leads \ {v} = {} THEN Idle ELSE [at |-> "sweep"])
    BY <1>3 DEF AssignRep, Start
  <2>2. Leads' = {v}
    BY <2>1 DEF Leads
  <2>3. v # l => Sweeping'
    BY <2>1 DEF Goto, TypeOK, Sweeping
  <2> QED BY <2>2, <2>3
<1>4. ASSUME NEW h \in Handlers, NEW v \in Users, AssignRep(h, v, "co")
      PROVE  Leads' = {l} \/ (v \in Leads /\ Leads' = {})
  <2>1. rep' = [x \in Users |-> IF x = v THEN "co" ELSE rep[x]]
    BY <1>4 DEF AssignRep
  <2>2. Leads' = Leads \ {v}
    BY <2>1 DEF Leads
  <2> QED BY <2>2
<1>5. ASSUME NEW h \in Handlers, DeleteRep(h) PROVE Leads' = {l} \/ (Leads' = {} /\ h \in overtaken)
  <2> DEFINE v == call[h].v
  <2>1. v \in Users /\ call[h].at = "remove" /\ rep' = [rep EXCEPT ![v] = "none"]
    BY <1>5, CallFields DEF DeleteRep, TypeOK
  <2>2. Leads' = Leads \ {v}
    BY <2>1 DEF Leads, TypeOK
  <2>3. Cardinality(Leads) = 1
    BY FS_Singleton
  <2>4. rep[v] = "lead" => h \in overtaken
    BY <2>1, <2>3 DEF Fresh, Accurate
  <2> QED BY <2>1, <2>2, <2>4 DEF Leads
<1>6. ASSUME NEW h \in Handlers, HandOver(h)
      PROVE  Leads' = {l} \/ (Sweeping' /\ (h \in overtaken \/ \E w \in Users : Leads' = {w}))
  <2>1. CASE UNCHANGED <<rep, seats>>
    BY <2>1 DEF Leads
  <2>2. ASSUME NEW u \in Users, NEW v \in Users, HandsOver(h, u, v)
        PROVE  Sweeping' /\ (h \in overtaken \/ Leads' = {v})
    <3>1. Sweeping'
      BY <2>2 DEF HandsOver, Goto, TypeOK, Sweeping
    <3>2. CASE h \notin overtaken
      <4>1. rep[u] = "lead" /\ rep[v] = "co"
        BY <2>2, <3>2 DEF HandsOver, Fresh, Accurate
      <4>2. u = l /\ u # v
        BY <4>1 DEF Leads
      <4>3. Leads' = {v}
        BY <2>2, <4>1, <4>2 DEF HandsOver, Leads, TypeOK
      <4> QED BY <3>1, <4>3
    <3> QED BY <3>1, <3>2
  <2> QED BY <1>6, <2>1, <2>2, HandOverSteps
<1>7. ASSUME NEW h \in Handlers, WriteSeats(h) PROVE Leads' = {l}
  BY <1>7 DEF WriteSeats, Leads
<1>8. AdminRoles \subseteq {"lead", "co"}
  BY ApprovalAssumption
<1> QED BY <1>1, <1>2, <1>3, <1>4, <1>5, <1>6, <1>7, <1>8, TeamCases

(* An idle handler is where a request begins; interrupted or announcing, a  *)
(* handler goes on otherwise.                                               *)
LEMMA ReadsBegin ==
  ASSUME NEW h \in Handlers, Reading(h)
  PROVE  call[h].at \in {"idle", "announce"} \/ Interrupt(h)
<1>2. ASSUME NEW p \in Payouts, NEW u \in Users, SendApprovalOtp(h, p, u) \/ ApprovePayout(h, p, u) PROVE call[h] = Idle
  BY <1>2 DEF SendApprovalOtp, ApprovePayout
<1>3. ASSUME NEW p \in Payouts, NEW u \in Users, RejectPayout(h, p, u) PROVE call[h] = Idle
  BY <1>3 DEF RejectPayout, Start
<1>4. ASSUME NEW u \in Users, NEW v \in Users, RemoveRep(h, u, v) \/ TransferLead(h, u, v) PROVE call[h] = Idle
  BY <1>4 DEF RemoveRep, TransferLead, Start
<1>5. ASSUME NEW u \in Users, NEW wanted \in SUBSET Users, SetSignatories(h, u, wanted) PROVE call[h] = Idle
  BY <1>5 DEF SetSignatories, Start
<1>6. ASSUME NEW u \in Users, NEW m \in {"pin", "multisig"}, SetWithdrawalAuthMode(h, u, m) PROVE call[h] = Idle
  BY <1>6 DEF SetWithdrawalAuthMode, Start
<1>7. ASSUME NEW u \in Users, NEW forgot \in BOOLEAN, SetWithdrawalPin(h, u, forgot) PROVE call[h] = Idle
  BY <1>7 DEF SetWithdrawalPin, Start
<1>8. ASSUME NEW u \in Users, RequestWithdrawal(h, u) PROVE call[h] = Idle
  BY <1>8 DEF RequestWithdrawal, Start
<1>9. ASSUME NEW p \in Payouts, ExpireStaleApprovals(h, p) PROVE call[h] = Idle
  BY <1>9 DEF ExpireStaleApprovals, Start
<1>10. AnnounceForApproval(h) => call[h].at = "announce"
  BY DEF AnnounceForApproval
<1> QED BY <1>2, <1>3, <1>4, <1>5, <1>6, <1>7, <1>8, <1>9, <1>10 DEF Reading, Idle

(* A sweep ends with nothing waiting, or cut short.                         *)
LEMMA SweepStep ==
  ASSUME TypeOK, [Next]_vars, NEW h \in Handlers, call[h].at = "sweep", call'[h].at # "sweep", NEW p \in Payouts
  PROVE  ~Waiting(p)' \/ Interrupt(h)
<1>1. Reading(h) => Interrupt(h)
  BY ReadsBegin
<1>2. \A v \in Users, role \in AdminRoles : ~AssignRep(h, v, role)
  BY DEF AssignRep, Start, Idle
<1>3. call'[h] # call[h]
  OBVIOUS
<1>4. ASSUME Writing(h) PROVE ~Waiting(p)'
  <2>1. CancelWaiting(h)
    BY <1>4 DEF Writing, CreatePayout, StoreOtp, CastApproval, RecordRejection, CancelPayout,
                DeleteRep, HandOver, WriteSeats, WriteMode, WritePin
  <2>2. Cancelled(Payouts)
    BY <2>1 DEF CancelWaiting
  <2>3. Waiting(p) => payout'[p].status = "cancelled"
    BY <2>2, CancelledTyped DEF TypeOK
  <2>4. ~Waiting(p) => payout'[p] = payout[p]
    BY <2>2, CancelledTyped DEF TypeOK
  <2> QED BY <2>3, <2>4 DEF Waiting
<1> QED BY <1>1, <1>2, <1>3, <1>4, OwnSteps

(* A payout that comes to wait pays from the lead of that moment, unless    *)
(* its request was overtaken.                                               *)
LEMMA WaitsForLead ==
  ASSUME TypeOK, Fresh, [Next]_vars, NEW p \in Payouts, Waiting(p)'
  PROVE  \/ Waiting(p) /\ payout'[p].account = payout[p].account
         \/ payout'[p].account \in Leads
         \/ \E h \in overtaken : CreatePayout(h)
<1>1. ASSUME NEW h \in Handlers, Appears(h, p)
      PROVE  payout'[p].account \in Leads \/ \E g \in overtaken : CreatePayout(g)
  BY <1>1 DEF Appears, Fresh, Accurate
<1>2. CASE Stays(p) \/ Moves(p, "pending", "closed") \/ Moves(p, "awaiting_approval", "cancelled")
  BY <1>2 DEF Stays, Moves, KeepsTerms, Waiting
<1>3. ASSUME NEW h \in Handlers, SignsOff(h, p) \/ Refuses(h, p) PROVE Waiting(p) /\ payout'[p].account = payout[p].account
  BY <1>3 DEF SignsOff, Refuses, KeepsTerms, Waiting
<1>4. ASSUME payout'[p] = payout[p] PROVE Waiting(p) /\ payout'[p].account = payout[p].account
  BY <1>4 DEF Waiting
<1> QED BY <1>1, <1>2, <1>3, <1>4, PayoutSteps

(* A handler that is about to cancel a payout still is, has cancelled it if *)
(* it was waiting, or is interrupted.                                       *)
LEMMA CancelStep ==
  ASSUME TypeOK, [Next]_vars, NEW p \in Payouts, Waiting(p), NEW h \in Handlers, call[h] = [at |-> "cancel", p |-> p]
  PROVE  call'[h] = call[h] \/ payout'[p].status = "cancelled" \/ Interrupt(h)
<1>a. call[h].at = "cancel" /\ call[h].p = p
  OBVIOUS
<1>1. Reading(h) => Interrupt(h)
  BY <1>a, ReadsBegin
<1>2. \A v \in Users, role \in AdminRoles : ~AssignRep(h, v, role)
  BY <1>a DEF AssignRep, Start, Idle
<1>3. ASSUME Writing(h) PROVE payout'[p].status = "cancelled"
  <2>1. CancelPayout(h)
    BY <1>a, <1>3 DEF Writing, CreatePayout, StoreOtp, CastApproval, RecordRejection, CancelWaiting,
                      DeleteRep, HandOver, WriteSeats, WriteMode, WritePin
  <2>2. Cancelled({p})
    BY <1>a, <2>1 DEF CancelPayout
  <2> QED BY <2>2, CancelledTyped DEF TypeOK
<1> QED BY <1>1, <1>2, <1>3, OwnSteps

(* A rejection goes on being one that cancels, but for the cases named.     *)
LEMMA RejectionStep ==
  ASSUME TypeOK, [Next]_vars, NEW p \in Payouts, NEW u \in Users,
         RejectionCancels(p, u), ~RejectionCancels(p, u)'
  PROVE  \E h \in Handlers :
            \/ ~Waiting(p) /\ call[h] = [at |-> "reject", p |-> p, u |-> u]
            \/ call[h] = [at |-> "cancel", p |-> p] /\ (Interrupt(h) \/ payout'[p].status = "pending")
<1> DEFINE Lost == \E h \in Handlers :
            \/ ~Waiting(p) /\ call[h] = [at |-> "reject", p |-> p, u |-> u]
            \/ call[h] = [at |-> "cancel", p |-> p] /\ (Interrupt(h) \/ payout'[p].status = "pending")
<1>0. /\ decision'[<<p, u>>] = "rejected" /\ payout'[p].status # "cancelled"
      /\ Waiting(p)' => \A h \in Handlers : call'[h] # [at |-> "cancel", p |-> p]
  BY DEF RejectionCancels
<1>1. ASSUME decision[<<p, u>>] = "rejected",
             payout[p].status # "cancelled" \/ payout'[p].status = "cancelled",
             Waiting(p) => payout'[p].status \in {"awaiting_approval", "pending"}
      PROVE  Lost
  <2>1. Waiting(p)
    BY <1>0, <1>1 DEF RejectionCancels, Waiting
  <2>2. PICK h \in Handlers : call[h] = [at |-> "cancel", p |-> p]
    BY <1>0, <1>1, <2>1 DEF RejectionCancels, Waiting
  <2>3. CASE payout'[p].status = "pending"
    BY <2>2, <2>3
  <2>4. CASE payout'[p].status # "pending"
    <3>1. Waiting(p)'
      BY <1>1, <2>1, <2>4 DEF Waiting
    <3>2. call'[h] # call[h]
      BY <1>0, <2>2, <3>1
    <3>3. Interrupt(h)
      BY <1>0, <2>1, <2>2, <3>2, CancelStep
    <3> QED BY <2>2, <3>3
  <2> QED BY <2>3, <2>4
<1>2. CASE Stays(p)
  BY <1>0, <1>1, <1>2 DEF Stays, Waiting
<1>3. CASE Moves(p, "pending", "closed")
  BY <1>0, <1>1, <1>3 DEF Moves, Waiting
<1>4. CASE Moves(p, "awaiting_approval", "cancelled")
  BY <1>0, <1>4 DEF Moves
<1>5. ASSUME NEW h \in Handlers, Appears(h, p) PROVE FALSE
  BY <1>0, <1>5 DEF Appears, RejectionCancels, Waiting
<1>6. ASSUME NEW h \in Handlers, SignsOff(h, p) PROVE Lost
  <2>1. decision[<<p, u>>] = "rejected"
    BY <1>0, <1>6 DEF SignsOff, TypeOK
  <2> QED BY <1>1, <1>6, <2>1 DEF SignsOff, Waiting
<1>7. ASSUME NEW h \in Handlers, Refuses(h, p) PROVE Lost
  <2>1. CASE decision[<<p, u>>] = "rejected"
    BY <1>0, <1>1, <1>7, <2>1 DEF Refuses, Waiting
  <2>2. CASE decision[<<p, u>>] # "rejected"
    <3>1. call[h].u = u
      BY <1>0, <1>7, <2>2 DEF Refuses, TypeOK
    <3>2. call'[h] = [at |-> "cancel", p |-> p]
      BY <1>7 DEF Refuses, RecordRejection, Goto, TypeOK
    <3>3. ~Waiting(p)'
      BY <1>0, <3>2
    <3>4. ~Waiting(p)
      BY <1>7, <3>3 DEF Refuses, Waiting
    <3> QED BY <1>7, <3>1, <3>4 DEF Refuses
  <2> QED BY <2>1, <2>2
<1>8. ASSUME NEW h \in Handlers, NEW q \in Payouts \ {p}, SignsOff(h, q) \/ Refuses(h, q), payout'[p] = payout[p]
      PROVE  Lost
  <2>1. decision'[<<p, u>>] = decision[<<p, u>>]
    BY <1>8 DEF SignsOff, Refuses, TypeOK
  <2> QED BY <1>0, <1>1, <1>8, <2>1 DEF Waiting
<1> QED BY <1>2, <1>3, <1>4, <1>5, <1>6, <1>7, <1>8, PayoutSteps

(* A space keeps its one lead, what waits for signatures goes on paying     *)
(* that lead, and what is rejected is cancelled, in any interleaving of any *)
(* number of handlers but for those LeadStays, WaitingGoesOnPayingLead and  *)
(* RejectionsCount name.                                                    *)
THEOREM SpaceHasItsLead == Spec => LeadIsSound
<1> DEFINE Stay == OneLead /\ ~OneLead' =>
              \/ \E h \in overtaken : HandOver(h) \/ DeleteRep(h)
              \/ \E h \in Handlers, v \in Leads : AssignRep(h, v, "co")
           Pays == OneLead /\ OneLead' /\ WaitingPaysFromLead /\ ~WaitingPaysFromLead' =>
              \/ \E h \in overtaken : CreatePayout(h)
              \/ \E h \in Handlers : call[h].at = "sweep" /\ Interrupt(h)
           Counts == \A p \in Payouts, u \in Users :
              RejectionCancels(p, u) /\ ~RejectionCancels(p, u)' =>
                  \E h \in Handlers :
                      \/ ~Waiting(p) /\ call[h] = [at |-> "reject", p |-> p, u |-> u]
                      \/ call[h] = [at |-> "cancel", p |-> p] /\ (Interrupt(h) \/ payout'[p].status = "pending")
<1>1. ApprovalInv /\ Fresh /\ [Next]_vars => Stay
  <2> SUFFICES ASSUME ApprovalInv, Fresh, [Next]_vars, OneLead, ~OneLead'
               PROVE  \/ \E h \in overtaken : HandOver(h) \/ DeleteRep(h)
                      \/ \E h \in Handlers, v \in Leads : AssignRep(h, v, "co")
    OBVIOUS
  <2>1. PICK l \in Users : Leads = {l}
    BY OneLeadIs DEF ApprovalInv
  <2>2. ~\E v \in Users : Leads' = {v}
    BY FS_Singleton DEF OneLead
  <2> QED BY <2>1, <2>2, LeadStep DEF ApprovalInv
<1>2. ApprovalInv /\ Fresh /\ [Next]_vars => Pays
  <2> SUFFICES ASSUME ApprovalInv, Fresh, [Next]_vars, OneLead, OneLead', WaitingPaysFromLead, ~WaitingPaysFromLead',
                      \A h \in overtaken : ~CreatePayout(h),
                      \A h \in Handlers : ~(call[h].at = "sweep" /\ Interrupt(h))
               PROVE  FALSE
    OBVIOUS
  <2>1. PICK p \in Payouts : Waiting(p)' /\ payout'[p].account \notin Leads'
    BY DEF WaitingPaysFromLead
  <2>2. ~Sweeping'
    BY DEF WaitingPaysFromLead, Sweeping
  <2>3. ~Sweeping
    BY <2>1, <2>2, SweepStep DEF Sweeping, ApprovalInv
  <2>4. PICK l \in Users : Leads = {l}
    BY OneLeadIs DEF ApprovalInv
  <2>5. Leads' # {}
    BY FS_EmptySet DEF OneLead
  <2>6. Leads' = Leads
    BY <2>2, <2>4, <2>5, LeadStep DEF ApprovalInv
  <2>7. Waiting(p) => payout[p].account \in Leads
    BY <2>3 DEF WaitingPaysFromLead, Sweeping
  <2> QED BY <2>1, <2>6, <2>7, WaitsForLead DEF ApprovalInv
<1>3. ApprovalInv /\ Fresh /\ [Next]_vars => Counts
  BY RejectionStep DEF ApprovalInv
<1>4. ApprovalInv /\ Fresh /\ [Next]_vars => [Stay]_vars /\ [Pays]_vars /\ [Counts]_vars
  BY <1>1, <1>2, <1>3
<1> QED BY FreshHolds, <1>4, PTL DEF Spec, LeadIsSound, LeadStays, WaitingGoesOnPayingLead, RejectionsCount

=============================================================================
