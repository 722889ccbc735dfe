------------------------------ MODULE Checkout ------------------------------
(***************************************************************************)
(* Collecting dues into one space: services/checkout.service.ts, the       *)
(* checkout half of jobs/reconciliation.ts and of processEvent, the pay    *)
(* page's status check and the admin's manual credit.                      *)
(*                                                                         *)
(* A handler is a request, a webhook worker or a reconciliation pass.      *)
(* What runs in one transaction under lockCheckout (and lockSpace) is one  *)
(* step.  The unlocked reads before it, the provider calls, and the second *)
(* transaction of a short payment are steps of their own.                  *)
(*                                                                         *)
(* Amounts are compared with the total only, so every checkout has the     *)
(* same Total and every line the same Face.                                *)
(***************************************************************************)
EXTENDS Integers, FiniteSets, Ledger, StateMachine

CONSTANTS Students, Checkouts, Handlers,
          Charges,        \* provider charge ids; each takes one payment
          None,           \* null: no checkout, no charge, no amount
          Manual,         \* the payer of a due an admin credited by hand
          Total, Face,
          Received,       \* amounts a payer may transfer
          Hosted,         \* the checkout mode setting: hosted page, or custom
          MaxInterrupts

ASSUME CheckoutAssumption ==
    /\ None \notin Checkouts \cup Charges \cup Nat
    /\ Manual \notin Checkouts \cup {None}
    /\ Total \in Nat \ {0} /\ Face \in Nat \ {0}
    /\ Received \subseteq Nat \ {0}
    /\ Hosted \in BOOLEAN
    /\ MaxInterrupts \in Nat

VARIABLES checkout,     \* the checkouts table, with its transaction and receipt rows
          duePayment,   \* who settled each student's due: a checkout, Manual or None
          ledger,
          call,         \* where each handler stands
          session,      \* the provider's checkout sessions
          events,       \* collection events the provider has emitted
          processed,    \* events whose processing has finished at least once
          interrupts

vars == <<checkout, duePayment, ledger, call, session, events, processed, interrupts>>

-----------------------------------------------------------------------------
Payers == Checkouts \cup {Manual}

(* One due payment row per payer, student and due.                          *)
PaymentIds == Payers \X Students \X Dues

Amount == Received \cup {0, Total}

(* The age of a checkout against expiresAt: open; past it, but within the   *)
(* reconciliation grace; past the grace.                                    *)
Ages == {"open", "past", "late"}

Row == [status : CheckoutStatus \cup {"none"},
        userId : Students \cup {None},
        dueIds : SUBSET Dues,
        age : Ages,
        providerCheckoutId : BOOLEAN,          \* an account or page was recorded
        providerChargeId : Charges \cup {None},
        receivedKobo : Amount \cup {None},
        needsReview : BOOLEAN,
        reviewed : SUBSET Charges,             \* history: what had come in when an admin cleared the flag
        txn : {"none", "pending", "completed", "failed"},
        receipt : BOOLEAN]

NoRow == [status |-> "none", userId |-> None, dueIds |-> {}, age |-> "open",
          providerCheckoutId |-> FALSE, providerChargeId |-> None,
          receivedKobo |-> None, needsReview |-> FALSE, reviewed |-> {}, txn |-> "none", receipt |-> FALSE]

NewRow(s, ds) ==
    [status |-> "pending", userId |-> s, dueIds |-> ds, age |-> "open",
     providerCheckoutId |-> FALSE, providerChargeId |-> None,
     receivedKobo |-> None, needsReview |-> FALSE, reviewed |-> {}, txn |-> "pending", receipt |-> FALSE]

Event == [kind : {"succeeded", "underpaid", "closed"}, c : Checkouts,
          charge : Charges \cup {None}, amount : Amount]

(* Where a handler stands:                                                  *)
(* idle     nothing running                                                 *)
(* create   createCheckout, its unlocked checks passed                      *)
(* open     createCollectionAccount outstanding                             *)
(* opened   answered, with a new session or the first answer again; the row *)
(*          is not updated yet                                              *)
(* close    about to expire a checkout with no account                      *)
(* poll     getCollectionStatus outstanding; late: past the grace when read *)
(* apply    answered; nothing written yet                                   *)
(* short    fulfilCheckout found the payment short; markUnderpaid is next   *)
Call ==
    [at : {"idle"}]
    \cup [at : {"create"}, userId : Students, dueIds : SUBSET Dues]
    \cup [at : {"open"}, c : Checkouts, reused : BOOLEAN]
    \cup [at : {"opened"}, c : Checkouts, reused : BOOLEAN, charge : Charges \cup {None},
          new : BOOLEAN]
    \cup [at : {"close"}, c : Checkouts]
    \cup [at : {"poll"}, c : Checkouts, late : BOOLEAN]
    \cup [at : {"apply"}, c : Checkouts, state : {"paid", "underpaid", "expired"},
          amount : Amount \cup {None}]
    \cup [at : {"short"}, c : Checkouts, amount : Amount, event : Event \cup {None}]

Idle == [at |-> "idle"]

Session == [exists : BOOLEAN, charge : Charges \cup {None}, expired : BOOLEAN,
            taken : [Charges -> Amount \cup {None}]]

NoSession == [exists |-> FALSE, charge |-> None, expired |-> FALSE,
              taken |-> [g \in Charges |-> None]]

TypeOK ==
    /\ checkout \in [Checkouts -> Row]
    /\ duePayment \in [Students \X Dues -> Payers \cup {None}]
    /\ ledger \in LedgerOf(PaymentIds)
    /\ call \in [Handlers -> Call]
    /\ session \in [Checkouts -> Session]
    /\ events \subseteq Event /\ processed \subseteq events
    /\ interrupts \in 0..MaxInterrupts

Init ==
    /\ checkout = [c \in Checkouts |-> NoRow]
    /\ duePayment = [sd \in Students \X Dues |-> None]
    /\ ledger = EmptyLedger
    /\ call = [h \in Handlers |-> Idle]
    /\ session = [c \in Checkouts |-> NoSession]
    /\ events = {} /\ processed = {}
    /\ interrupts = 0

Goto(h, next) == call' = [call EXCEPT ![h] = next]

(* The handler ends; if it was processing an event, the event is processed. *)
Finish(h, e) ==
    /\ Goto(h, Idle)
    /\ processed' = IF e = None THEN processed ELSE processed \cup {e}

-----------------------------------------------------------------------------
(* createCheckout                                                          *)

(* Bound: a request starts only while Checkouts has an id to spare for it.  *)
IdToSpare ==
    Cardinality({h \in Handlers : call[h].at = "create"})
        < Cardinality({c \in Checkouts : checkout[c].status = "none"})

(* The reads before the transaction: none of the dues is paid yet.          *)
CreateCheckout(h, s, ds) ==
    /\ call[h] = Idle /\ IdToSpare
    /\ \A d \in ds : duePayment[<<s, d>>] = None
    /\ Goto(h, [at |-> "create", userId |-> s, dueIds |-> ds])
    /\ UNCHANGED <<checkout, duePayment, ledger, session, events, processed, interrupts>>

\* Mutant: only a checkout for exactly the same dues counts as open.
OpenFor_SameOnly(s, ds) ==
    {c \in Checkouts : /\ checkout[c].userId = s /\ checkout[c].status = "pending"
                       /\ checkout[c].age = "open" /\ checkout[c].dueIds = ds}

(* The student's open checkouts that share a due with ds.                   *)
OpenFor(s, ds) ==
    {c \in Checkouts : /\ checkout[c].userId = s /\ checkout[c].status = "pending"
                       /\ checkout[c].age = "open" /\ checkout[c].dueIds \cap ds # {}}

(* The transaction under the student's advisory lock: a new row...          *)
InsertCheckout(h, c) ==
    /\ call[h].at = "create"
    /\ OpenFor(call[h].userId, call[h].dueIds) = {}
    /\ checkout[c].status = "none"
    /\ checkout' = [checkout EXCEPT ![c] = NewRow(call[h].userId, call[h].dueIds)]
    /\ Goto(h, [at |-> "open", c |-> c, reused |-> FALSE])
    /\ UNCHANGED <<duePayment, ledger, session, events, processed, interrupts>>

(* ... or the open one for the same dues, whose account is opened if it has *)
(* none and its first attempt is not too recent (CHECKOUT_OPENING); any     *)
(* other overlap is refused (CHECKOUT_OVERLAP).                             *)
ReuseCheckout(h) ==
    LET open == OpenFor(call[h].userId, call[h].dueIds) IN
    /\ call[h].at = "create"
    /\ open # {}
    /\ \/ \E c \in open : /\ checkout[c].dueIds = call[h].dueIds
                          /\ ~checkout[c].providerCheckoutId
                          /\ Goto(h, [at |-> "open", c |-> c, reused |-> TRUE])
       \/ Goto(h, Idle)
    /\ UNCHANGED <<checkout, duePayment, ledger, session, events, processed, interrupts>>

(* The update after the provider's answer, unlocked and unconditional; the  *)
(* provider's expiry replaces ours: a new session opens the window again.   *)
RecordAccount(h) ==
    LET c == call[h].c IN
    /\ call[h].at = "opened"
    /\ checkout' = [checkout EXCEPT ![c].providerCheckoutId = TRUE,
                                    ![c].providerChargeId = call[h].charge,
                                    ![c].age = IF call[h].new THEN "open" ELSE @]
    /\ Goto(h, Idle)
    /\ UNCHANGED <<duePayment, ledger, session, events, processed, interrupts>>

-----------------------------------------------------------------------------
(* Outcomes.  Each is one transaction under lockCheckout.                  *)

\* Mutant: a line the student has already settled is settled again.
UnpaidLines_All(c) == checkout[c].dueIds

(* The lines with no due payment yet; the others are skipped and flagged.   *)
UnpaidLines(c) == {d \in checkout[c].dueIds : duePayment[<<checkout[c].userId, d>>] = None}

(* appendLedgerEntry for each of the lines ds that c settles.               *)
CreditLines(l, c, s, ds) ==
    LET new == {d \in ds : <<"due_payment", <<c, s, d>>>> \notin l.keys} IN
    [keys    |-> l.keys \cup {<<"due_payment", <<c, s, d>>>> : d \in new},
     balance |-> l.balance + Face * Cardinality(new),
     net     |-> [d \in DueIds |-> IF d \in new THEN l.net[d] + Face ELSE l.net[d]]]

\* Mutant: a payment for a due that was settled meanwhile passes unseen.
Flagged_SettledElsewhere(c, amount) ==
    \/ amount > Total
    \/ checkout[c].status \in {"expired", "underpaid"}

(* Why a payment is put in front of an admin.                               *)
Flagged(c, amount) ==
    \/ amount > Total
    \/ checkout[c].status \in {"expired", "underpaid"}
    \/ UnpaidLines(c) # checkout[c].dueIds

(* A payment on another charge than the recorded one, after it was paid.    *)
AnotherCharge(c, charge) ==
    charge # None /\ checkout[c].providerChargeId # None /\ charge # checkout[c].providerChargeId

(* fulfilCheckout, called by handler h with an amount, the charge it came   *)
(* in on, and the event (None for a poll).                                  *)
FulfilCheckout(h, c, amount, charge, e) ==
    LET s == checkout[c].userId IN
    IF checkout[c].status = "paid"
    THEN /\ checkout' = [checkout EXCEPT ![c].needsReview = @ \/ AnotherCharge(c, charge)]
         /\ Finish(h, e)
         /\ UNCHANGED <<duePayment, ledger>>
    ELSE IF amount < Total
    THEN /\ Goto(h, [at |-> "short", c |-> c, amount |-> amount, event |-> e])
         /\ UNCHANGED <<checkout, duePayment, ledger, processed>>
    ELSE /\ CanTransitionCheckout(checkout[c].status, "paid")
         /\ duePayment' = [sd \in Students \X Dues |->
                IF sd[1] = s /\ sd[2] \in UnpaidLines(c) THEN c ELSE duePayment[sd]]
         /\ ledger' = CreditLines(ledger, c, s, UnpaidLines(c))
         /\ checkout' = [checkout EXCEPT ![c].status = "paid", ![c].receivedKobo = amount,
                                         ![c].needsReview = @ \/ Flagged(c, amount),
                                         ![c].txn = "completed", ![c].receipt = TRUE]
         /\ Finish(h, e)

\* Mutant: short money on a closed checkout is dropped.
MarkUnderpaid_DropLate(h, c, amount, e) ==
    /\ checkout' = IF CanTransitionCheckout(checkout[c].status, "underpaid")
                   THEN [checkout EXCEPT ![c].status = "underpaid", ![c].receivedKobo = amount,
                                         ![c].needsReview = TRUE]
                   ELSE checkout
    /\ Finish(h, e)
    /\ UNCHANGED <<duePayment, ledger>>

(* markUnderpaid: on a checkout that cannot become underpaid, the amount is *)
(* recorded and flagged, unless it is paid or has this very amount already. *)
MarkUnderpaid(h, c, amount, e) ==
    /\ checkout' =
          IF CanTransitionCheckout(checkout[c].status, "underpaid")
          THEN [checkout EXCEPT ![c].status = "underpaid", ![c].receivedKobo = amount,
                                ![c].needsReview = TRUE]
          ELSE IF \/ checkout[c].status = "paid"
                  \/ checkout[c].status = "underpaid" /\ checkout[c].receivedKobo = amount
          THEN checkout
          ELSE [checkout EXCEPT ![c].receivedKobo = amount, ![c].needsReview = TRUE]
    /\ Finish(h, e)
    /\ UNCHANGED <<duePayment, ledger>>

\* Mutant: a failed charge closes the checkout under a status of its own.
ExpireCheckout_Failed(h, c, e) ==
    /\ checkout' =
          IF CanTransitionCheckout(checkout[c].status, "expired")
          THEN [checkout EXCEPT ![c].status = IF e = None THEN "expired" ELSE "failed",
                                ![c].txn = IF @ = "pending" THEN "failed" ELSE @]
          ELSE checkout
    /\ Finish(h, e)
    /\ UNCHANGED <<duePayment, ledger>>

(* expireCheckout: only a pending checkout closes, and its transaction.     *)
ExpireCheckout(h, c, e) ==
    /\ checkout' =
          IF CanTransitionCheckout(checkout[c].status, "expired")
          THEN [checkout EXCEPT ![c].status = "expired",
                                ![c].txn = IF @ = "pending" THEN "failed" ELSE @]
          ELSE checkout
    /\ Finish(h, e)
    /\ UNCHANGED <<duePayment, ledger>>

(* processEvent, for the collection events.                                 *)
ProcessEvent(h, e) ==
    /\ call[h] = Idle
    /\ e \in events
    /\ \/ e.kind = "succeeded" /\ FulfilCheckout(h, e.c, e.amount, e.charge, e)
       \/ e.kind = "underpaid" /\ MarkUnderpaid(h, e.c, e.amount, e)
       \/ e.kind = "closed" /\ ExpireCheckout(h, e.c, e)
    /\ UNCHANGED <<session, events, interrupts>>

FinishShort(h) ==
    /\ call[h].at = "short"
    /\ MarkUnderpaid(h, call[h].c, call[h].amount, call[h].event)
    /\ UNCHANGED <<session, events, interrupts>>

CloseUnopened(h) ==
    /\ call[h].at = "close"
    /\ ExpireCheckout(h, call[h].c, None)
    /\ UNCHANGED <<session, events, interrupts>>

-----------------------------------------------------------------------------
(* reconcileCheckout, from the job (byJob) or from the pay page             *)

\* Mutant: a checkout that never got an account is left open.
StartReconcile_SkipUnopened(h, c, byJob) ==
    /\ call[h] = Idle
    /\ checkout[c].status = "pending" /\ checkout[c].providerCheckoutId
    /\ Goto(h, [at |-> "poll", c |-> c, late |-> byJob /\ checkout[c].age = "late"])
    /\ UNCHANGED <<checkout, duePayment, ledger, session, events, processed, interrupts>>

(* The unlocked read: a pending checkout, asked about if it has an account, *)
(* closed by the job if it never got one and its grace is over.             *)
StartReconcile(h, c, byJob) ==
    LET late == byJob /\ checkout[c].age = "late" IN
    /\ call[h] = Idle
    /\ checkout[c].status = "pending"
    /\ IF checkout[c].providerCheckoutId
       THEN Goto(h, [at |-> "poll", c |-> c, late |-> late])
       ELSE late /\ Goto(h, [at |-> "close", c |-> c])
    /\ UNCHANGED <<checkout, duePayment, ledger, session, events, processed, interrupts>>

\* Mutant: a payment of unknown size is taken to be the expected total.
ApplyStatus_AssumeTotal(h) ==
    LET c == call[h].c
        amount == IF call[h].amount = None THEN Total ELSE call[h].amount IN
    /\ call[h].at = "apply"
    /\ \/ call[h].state = "paid" /\ FulfilCheckout(h, c, amount, None, None)
       \/ call[h].state = "underpaid" /\ MarkUnderpaid(h, c, 0, None)
       \/ call[h].state = "expired" /\ ExpireCheckout(h, c, None)
    /\ UNCHANGED <<session, events, interrupts>>

(* What the answer says.  An underpayment is reported without its amount,   *)
(* and is written as 0; a payment without its amount is left alone.         *)
ApplyStatus(h) ==
    LET c == call[h].c IN
    /\ call[h].at = "apply"
    /\ \/ call[h].state = "paid" /\ call[h].amount # None
          /\ FulfilCheckout(h, c, call[h].amount, None, None)
       \/ call[h].state = "paid" /\ call[h].amount = None
          /\ Goto(h, Idle) /\ UNCHANGED <<checkout, duePayment, ledger, processed>>
       \/ call[h].state = "underpaid" /\ MarkUnderpaid(h, c, 0, None)
       \/ call[h].state = "expired" /\ ExpireCheckout(h, c, None)
    /\ UNCHANGED <<session, events, interrupts>>

-----------------------------------------------------------------------------
(* POST /admin/dues/:dueId/credit                                          *)
ManualCredit(s, d) ==
    /\ duePayment[<<s, d>>] = None
    /\ duePayment' = [duePayment EXCEPT ![<<s, d>>] = Manual]
    /\ ledger' = AppendLedgerEntry(ledger, "manual_credit", <<Manual, s, d>>, d, Face)
    /\ UNCHANGED <<checkout, call, session, events, processed, interrupts>>

Taken(c) == {g \in Charges : session[c].taken[g] # None}

(* POST /admin/checkouts/:reference/resolve: whatever has come in by then   *)
(* was dealt with off the platform.                                         *)
ResolveCheckout(c) ==
    /\ checkout[c].needsReview
    /\ checkout' = [checkout EXCEPT ![c].needsReview = FALSE, ![c].reviewed = Taken(c)]
    /\ UNCHANGED <<duePayment, ledger, call, session, events, processed, interrupts>>

(* A crash, a timeout or a retryable error: the call chain is gone.         *)
Interrupt(h) ==
    /\ call[h] # Idle
    /\ interrupts < MaxInterrupts
    /\ Goto(h, Idle)
    /\ interrupts' = interrupts + 1
    /\ UNCHANGED <<checkout, duePayment, ledger, session, events, processed>>

(* Handlers opening c's account.                                            *)
Opening(c) == {h \in Handlers : call[h].at \in {"open", "opened"} /\ call[h].c = c}

(* Time passes expiresAt, then the grace.  Opening an account takes three   *)
(* requests of at most 20 seconds: the window (30 minutes) outlasts a first *)
(* attempt, the grace (5 minutes) any; a retry may start just before the    *)
(* window closes.                                                           *)
Age(c) ==
    /\ checkout[c].status = "pending"
    /\ \/ /\ checkout[c].age = "open"
          /\ \A h \in Opening(c) : call[h].reused
          /\ checkout' = [checkout EXCEPT ![c].age = "past"]
       \/ /\ checkout[c].age = "past"
          /\ Opening(c) = {}
          /\ checkout' = [checkout EXCEPT ![c].age = "late"]
    /\ UNCHANGED <<duePayment, ledger, call, session, events, processed, interrupts>>

-----------------------------------------------------------------------------
(* The provider (external)                                                 *)

Events(c, kind) == {e \in events : e.c = c /\ e.kind = kind}

Emit(e) == events' = events \cup {e}

(* createCollectionAccount: the same answer to every call with a reference. *)
(* A hosted page names no charge.                                           *)
BankOpens(h, g) ==
    LET c == call[h].c IN
    /\ call[h].at = "open"
    /\ session[c].exists => g = session[c].charge
    /\ g = None <=> Hosted
    /\ session' = [session EXCEPT ![c].exists = TRUE, ![c].charge = g]
    /\ Goto(h, [at |-> "opened", c |-> c, reused |-> call[h].reused, charge |-> g,
                new |-> ~session[c].exists])
    /\ UNCHANGED <<checkout, duePayment, ledger, events, processed, interrupts>>

(* A definite refusal, or a total other than ours.                          *)
BankRefusesOpening(h) ==
    /\ call[h].at = "open"
    /\ ~session[call[h].c].exists
    /\ Goto(h, [at |-> "close", c |-> call[h].c])
    /\ UNCHANGED <<checkout, duePayment, ledger, session, events, processed, interrupts>>

(* The payer transfers an amount, in time or not.  The account's own charge *)
(* comes first; a short payment is reported as such or accepted.            *)
BankCollects(c, g, amount) ==
    /\ checkout[c].providerCheckoutId
    /\ session[c].taken[g] = None
    /\ session[c].charge \in {None, g} \cup {x \in Charges : session[c].taken[x] # None}
    /\ session' = [session EXCEPT ![c].taken[g] = amount]
    /\ \/ Emit([kind |-> "succeeded", c |-> c, charge |-> g, amount |-> amount])
       \/ amount < Total /\ Emit([kind |-> "underpaid", c |-> c, charge |-> g, amount |-> amount])
    /\ UNCHANGED <<checkout, duePayment, ledger, call, processed, interrupts>>

(* checkout.expired or collection.failed.                                   *)
BankExpires(c) ==
    /\ session[c].exists /\ ~session[c].expired
    /\ session' = [session EXCEPT ![c].expired = TRUE]
    /\ Emit([kind |-> "closed", c |-> c, charge |-> None, amount |-> 0])
    /\ UNCHANGED <<checkout, duePayment, ledger, call, processed, interrupts>>

Polled(h, state, amount) ==
    Goto(h, [at |-> "apply", c |-> call[h].c, state |-> state, amount |-> amount])

(* getCollectionStatus.  Only a paid charge may come with its amount.       *)
BankReports(h) ==
    LET c == call[h].c IN
    /\ call[h].at = "poll"
    /\ IF Events(c, "succeeded") # {}
       THEN \E amount \in {e.amount : e \in Events(c, "succeeded")} \cup {None} : Polled(h, "paid", amount)
       ELSE IF Events(c, "underpaid") # {} THEN Polled(h, "underpaid", None)
       ELSE IF session[c].expired \/ call[h].late THEN Polled(h, "expired", None)
       ELSE Goto(h, Idle)
    /\ UNCHANGED <<checkout, duePayment, ledger, session, events, processed, interrupts>>

-----------------------------------------------------------------------------
Start(h) ==
    \/ \E s \in Students, ds \in SUBSET Dues \ {{}} : CreateCheckout(h, s, ds)
    \/ \E e \in events : ProcessEvent(h, e)
    \/ \E c \in Checkouts, byJob \in BOOLEAN : StartReconcile(h, c, byJob)

Continue(h) ==
    \/ \E c \in Checkouts : InsertCheckout(h, c)
    \/ ReuseCheckout(h) \/ RecordAccount(h)
    \/ FinishShort(h) \/ CloseUnopened(h) \/ ApplyStatus(h)

BankAnswers(h) ==
    \/ \E g \in Charges \cup {None} : BankOpens(h, g)
    \/ BankRefusesOpening(h) \/ BankReports(h)

Next ==
    \/ \E h \in Handlers : Start(h) \/ Continue(h) \/ BankAnswers(h) \/ Interrupt(h)
    \/ \E s \in Students, d \in Dues : ManualCredit(s, d)
    \/ \E c \in Checkouts : \/ Age(c) \/ BankExpires(c) \/ ResolveCheckout(c)
                            \/ \E g \in Charges, amount \in Received : BankCollects(c, g, amount)

Spec == Init /\ [][Next]_vars

(* Handlers run on unless interrupted and provider calls come back; the job *)
(* starts a pass every minute; the provider redelivers an event until it is *)
(* stored, and the webhook worker takes stored events until none is left.   *)
(* Nobody has to pay or to ask.                                             *)
Fairness ==
    /\ \A h \in Handlers : WF_vars(Continue(h) \/ BankAnswers(h))
    /\ \A c \in Checkouts : WF_vars(Age(c))
    /\ \A h \in Handlers, c \in Checkouts : SF_vars(StartReconcile(h, c, TRUE))
    /\ \A h \in Handlers : SF_vars(\E e \in events \ processed : ProcessEvent(h, e))

FairSpec == Spec /\ Fairness
-----------------------------------------------------------------------------
(* Properties                                                              *)

PaidBy(c) == {sd \in Students \X Dues : duePayment[sd] = c}

Settled == {sd \in Students \X Dues : duePayment[sd] # None}

(* Each settled due is credited to the space once, at face value, by the    *)
(* checkout or the admin that settled it, and a checkout settles only its   *)
(* own payer's lines, and only when it is paid: whatever arrives twice, late *)
(* or by two routes.                                                        *)
CreditsMatchPayments ==
    /\ ledger.keys = {<<IF duePayment[sd] = Manual THEN "manual_credit" ELSE "due_payment",
                        <<duePayment[sd], sd[1], sd[2]>>>> : sd \in Settled}
    /\ \A d \in Dues : ledger.net[d] = Face * Cardinality({sd \in Settled : sd[2] = d})
    /\ ledger.balance = Face * Cardinality(Settled)
    /\ \A c \in Checkouts : \A sd \in PaidBy(c) :
          checkout[c].status = "paid" /\ checkout[c].userId = sd[1] /\ sd[2] \in checkout[c].dueIds

(* A paid checkout really got its whole total, and none of its dues is left; *)
(* the payer's history says completed and there is a receipt; an excess, or *)
(* a due that someone else had already settled, is in front of an admin or  *)
(* was, with that payment in.                                               *)
(* No other checkout has a completed transaction or a receipt.              *)
PaidInFull ==
    \A c \in Checkouts :
        /\ checkout[c].status = "paid" =>
              /\ \E g \in Taken(c) : session[c].taken[g] >= Total
              /\ \A d \in checkout[c].dueIds : duePayment[<<checkout[c].userId, d>>] # None
              /\ \/ checkout[c].needsReview
                 \/ \E g \in checkout[c].reviewed : session[c].taken[g] >= Total
                 \/ /\ checkout[c].receivedKobo = Total
                    /\ Cardinality(PaidBy(c)) = Cardinality(checkout[c].dueIds)
        /\ checkout[c].txn = "completed" <=> checkout[c].status = "paid"
        /\ checkout[c].receipt <=> checkout[c].status = "paid"
        /\ checkout[c].txn = "failed" <=> checkout[c].status = "expired"

(* What the space is credited, what is recorded as paid, and what the payer *)
(* sent agree with each other (fulfilCheckout).                             *)
PaymentsAddUp ==
    /\ CreditsMatchPayments
    /\ PaidInFull

(* Nothing runs and every event of c has been processed.                    *)
Quiet(c) ==
    /\ \A h \in Handlers : call[h] = Idle
    /\ \A e \in events : e.c = c => e \in processed

(* Money that arrives is never forgotten: once its events are processed,    *)
(* the checkout is paid or in front of an admin, even if it had expired, a  *)
(* poll and an event disagreed on the way, or an admin had cleared an       *)
(* earlier flag.  The exception: a further payment of an amount that was    *)
(* already reviewed passes for its replay (markUnderpaid).                  *)
MoneyIsNoticed ==
    \A c \in Checkouts :
        Quiet(c) /\ (\E g \in Taken(c) \ checkout[c].reviewed :
                       \A f \in checkout[c].reviewed : session[c].taken[f] # session[c].taken[g])
        => checkout[c].status = "paid" \/ checkout[c].needsReview

(* Two checkouts of one student are open for the same due.                  *)
OpenTwice(b, c) ==
    /\ b # c
    /\ checkout[b].userId = checkout[c].userId
    /\ \A x \in {b, c} : checkout[x].status = "pending" /\ checkout[x].age = "open"
    /\ checkout[b].dueIds \cap checkout[c].dueIds # {}

(* "Serialise checkout creation per student so two tabs can't open two      *)
(* accounts for the same due" (createCheckout): they come to be open only   *)
(* when the provider's answer to a retry opens one again whose window had   *)
(* closed meanwhile (line 291), and the other was created in between.       *)
OneOpenCheckout ==
    [][\A b, c \in Checkouts :
          ~OpenTwice(b, c) /\ OpenTwice(b, c)' =>
              \E h \in Handlers :
                  /\ RecordAccount(h)
                  /\ call[h].new /\ call[h].reused /\ call[h].c \in {b, c}
                  /\ checkout[call[h].c].age # "open"]_vars

(* A checkout does not stay open for ever: the job closes it even if its    *)
(* account was never opened or the provider never says anything.            *)
PendingEventuallyCloses ==
    \A c \in Checkouts : checkout[c].status = "pending" ~> checkout[c].status # "pending"

(* A full payment ends with the dues paid, even if the checkout had expired *)
(* or been marked underpaid when the news came.                             *)
FullPaymentLands ==
    \A c \in Checkouts :
        (\E g \in Taken(c) : session[c].taken[g] >= Total) ~> checkout[c].status = "paid"

(* Every checkout comes to its end, and with a full payment to the right    *)
(* one (reconcileCheckouts).                                                *)
CheckoutsEnd ==
    /\ PendingEventuallyCloses
    /\ FullPaymentLands

-----------------------------------------------------------------------------
(* What of the service's state CollectionLifecycle speaks of.               *)
Collection == INSTANCE CollectionLifecycle WITH
    status <- [c \in Checkouts |-> checkout[c].status],
    payer <- [c \in Checkouts |-> checkout[c].userId],
    lines <- [c \in Checkouts |-> checkout[c].dueIds],
    funded <- {c \in Checkouts : \E g \in Taken(c) : session[c].taken[g] >= Total},
    review <- {c \in Checkouts : checkout[c].needsReview},
    settled <- duePayment,
    credited <- [d \in Dues |-> ledger.net[d]],
    balance <- ledger.balance

(* Every step of the service is a step of CollectionLifecycle or leaves its *)
(* state alone: of the polls, events, retries and clocks no payer and no    *)
(* admin sees more than that (fulfilCheckout, markUnderpaid, the sweep).    *)
ImplementsCollection == Collection!CollectionSpec
=============================================================================
