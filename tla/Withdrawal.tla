----------------------------- MODULE Withdrawal -----------------------------
(***************************************************************************)
(* Withdrawals from one space: services/withdrawal.service.ts, the parts   *)
(* of jobs/reconciliation.ts and webhookProcessor.service.ts that drive    *)
(* it, and the payment provider as those files use it.                     *)
(*                                                                         *)
(* A handler is one running call chain: an HTTP request or a queue worker  *)
(* (Workers), or a pass of the reconciliation job in some instance         *)
(* (Reconcilers).  call[h] is where it stands between two awaits.  What    *)
(* runs inside one database transaction under lockPayout and lockSpace is  *)
(* one step; a provider call is a step of its own, so any other handler    *)
(* may run before the answer is written.                                   *)
(***************************************************************************)
EXTENDS Integers, Sequences, FiniteSets, Functions, Ledger, StateMachine

CONSTANTS Payouts,        \* payout ids that may be created
          DuePayments,    \* ids of the due payments that may come in
          Workers,        \* concurrent requests and webhook workers
          Reconcilers,    \* concurrent reconciliation passes
          NoPayout,       \* call[h].p of an idle handler
          Amounts,        \* gross amounts a rep may ask for
          Fees,           \* Duevy fees, discounts applied (0: 100% discount)
          ProviderFees,   \* what the provider may charge for a payout
          Face,           \* face amount of a due
          MaxInterrupts,  \* bound on crashes, timeouts and retryable errors
          GarbledReplies  \* may an accepted call answer 2xx with a non-JSON body

ASSUME WithdrawalAssumption ==
    /\ NoPayout \notin Payouts
    /\ Payouts \cap DuePayments = {}
    /\ Workers \cap Reconcilers = {}
    /\ Amounts \subseteq Nat \ {0}
    /\ Fees \subseteq Nat /\ \A g \in Amounts, f \in Fees : f < g
    /\ ProviderFees \subseteq Nat
    /\ Face \in Nat \ {0}
    /\ MaxInterrupts \in Nat
    /\ GarbledReplies \in BOOLEAN

Handlers == Workers \cup Reconcilers

VARIABLES payout,      \* the payouts table
          ledger,      \* the space's ledger, see Ledger
          call,        \* where each handler stands
          bank,        \* the provider's record of each payout (by reference)
          account,     \* the lead rep's balance at the provider
          events,      \* payout events the provider has emitted
          interrupts   \* interruptions so far

vars == <<payout, ledger, call, bank, account, events, interrupts>>

-----------------------------------------------------------------------------
(* Rows, calls and provider records                                        *)

Row == [status        : PayoutStatus \cup {"none"},
        amount        : Nat,        \* gross
        feeKobo       : Nat,
        dueId         : DueIds,
        activeSpaceId : BOOLEAN,    \* holds the space's unique in-flight slot
        providerFee   : Nat,
        feeSettledAt  : BOOLEAN,
        feeSettlement : Int]

NoRow == [status |-> "none", amount |-> 0, feeKobo |-> 0, dueId |-> NoDue,
          activeSpaceId |-> FALSE, providerFee |-> 0,
          feeSettledAt |-> FALSE, feeSettlement |-> 0]

NewRow(status, gross, fee, due) ==
    [status |-> status, amount |-> gross, feeKobo |-> fee, dueId |-> due,
     activeSpaceId |-> TRUE, providerFee |-> 0,
     feeSettledAt |-> FALSE, feeSettlement |-> 0]

NetKobo(p) == payout[p].amount - payout[p].feeKobo

(* idle       nothing running                                               *)
(* send       about to enter dispatchPayout                                 *)
(* initiate   initiatePayout outstanding                                    *)
(* initiated  answered with the state in call.reply                         *)
(* complete   about to enter completePayout                                 *)
(* fail       about to enter failPayout                                     *)
(* settle     about to enter settleWithdrawalFee                            *)
(* sweep      settleFee(amount) outstanding                                 *)
(* swept      settleFee answered; feeSettledAt not written yet              *)
(* refund     settleFee(-amount) outstanding after a reversal               *)
(* refresh    getPayout outstanding                                         *)
CallSteps == {"idle", "send", "initiate", "initiated", "complete", "fail",
              "settle", "sweep", "swept", "refund", "refresh"}

BankState == {"none", "refused", "pending", "paid", "failed"}

Call == [at : CallSteps, p : Payouts \cup {NoPayout}, amount : Int, reply : BankState]

Idle == [at |-> "idle", p |-> NoPayout, amount |-> 0, reply |-> "none"]

At(step, p) == [at |-> step, p |-> p, amount |-> 0, reply |-> "none"]

AtAmount(step, p, amount) == [at |-> step, p |-> p, amount |-> amount, reply |-> "none"]

Answered(p, reply) == [at |-> "initiated", p |-> p, amount |-> 0, reply |-> reply]

(* What the provider keeps under a payout's reference: its state, the first *)
(* answer (replayed to every retry with the same idempotency key), its fee, *)
(* and what moved under the two fee-transfer keys.                          *)
BankRecord == [state : BankState, first : BankState, fee : Nat,
               swept : BOOLEAN, sweptKobo : Int, topup : BOOLEAN]

NoRecord == [state |-> "none", first |-> "none", fee |-> 0,
             swept |-> FALSE, sweptKobo |-> 0, topup |-> FALSE]

(* The payout.paid and payout.failed webhook events.                        *)
Event == [kind : {"paid", "failed"}, p : Payouts]

TypeOK ==
    /\ payout \in [Payouts -> Row]
    /\ ledger \in LedgerOf(Payouts \cup DuePayments)
    /\ call \in [Handlers -> Call]
    /\ \A h \in Handlers : call[h].at # "idle" => call[h].p \in Payouts
    /\ bank \in [Payouts -> BankRecord]
    /\ account \in Int
    /\ events \in SUBSET Event
    /\ interrupts \in 0..MaxInterrupts

Init ==
    /\ payout = [p \in Payouts |-> NoRow]
    /\ ledger = EmptyLedger
    /\ call = [h \in Handlers |-> Idle]
    /\ bank = [p \in Payouts |-> NoRecord]
    /\ account = 0
    /\ events = {}
    /\ interrupts = 0

Goto(h, step, p) == call' = [call EXCEPT ![h] = At(step, p)]

Return(h) == call' = [call EXCEPT ![h] = Idle]

(* Where a call chain goes on once it has learnt a payout's outcome.        *)
After(outcome, p) ==
    IF outcome = "paid" THEN At("complete", p)
    ELSE IF outcome = "failed" THEN At("fail", p)
    ELSE Idle

-----------------------------------------------------------------------------
(* Money in: a fulfilled checkout credits the due's face amount, and the    *)
(* same amount is on the rep's provider account.                            *)
DuePaid(dp, d) ==
    /\ <<"due_payment", dp>> \notin ledger.keys
    /\ ledger' = AppendLedgerEntry(ledger, "due_payment", dp, d, Face)
    /\ account' = account + Face
    /\ UNCHANGED <<payout, call, bank, events, interrupts>>

(* debit: the sent amount, and the fee unless a discount took all of it.    *)
Debit(l, p, due, gross, fee) ==
    LET sent == AppendLedgerEntry(l, "payout", p, due, gross - fee)
    IN  IF fee = 0 THEN sent
        ELSE AppendLedgerEntry(sent, "payout_fee", p, due, fee)

\* Mutant: the balance is checked, the due's share of it is not.
CoveredByBalance_NoDue(due, gross) == gross <= ledger.balance

(* The two INSUFFICIENT_BALANCE checks made under the space lock.           *)
CoveredByBalance(due, gross) ==
    /\ gross <= ledger.balance
    /\ due \in Dues => gross <= GetDueAvailability(ledger.net)[due]

\* Mutant: the in-flight check is dropped.
NoneInFlight_Always == TRUE

(* No row of the space holds activeSpaceId.                                 *)
NoneInFlight == \A q \in Payouts : ~payout[q].activeSpaceId

(* requestWithdrawal, from the space lock on: the rep is authorised, the    *)
(* partner discount is read and the bank target resolved before it.  A      *)
(* multisig space's withdrawal waits; any other is sent at once.            *)
RequestWithdrawal(h, p, gross, fee, due, needsApproval) ==
    /\ call[h] = Idle
    /\ payout[p].status = "none"
    /\ NoneInFlight
    /\ CoveredByBalance(due, gross)
    /\ payout' = [payout EXCEPT ![p] =
            NewRow(IF needsApproval THEN "awaiting_approval" ELSE "pending", gross, fee, due)]
    /\ ledger' = Debit(ledger, p, due, gross, fee)
    /\ IF needsApproval THEN Return(h) ELSE Goto(h, "send", p)
    /\ UNCHANGED <<bank, account, events, interrupts>>

\* Mutant: a status the table does not know.
ReleaseApproved_NewStatus(h, p) ==
    /\ call[h] = Idle
    /\ CanTransitionPayout(payout[p].status, "pending")
    /\ payout' = [payout EXCEPT ![p].status = "approved"]
    /\ Goto(h, "send", p)
    /\ UNCHANGED <<ledger, bank, account, events, interrupts>>

(* approvePayout's second signature: release, then dispatch.                *)
ReleaseApproved(h, p) ==
    /\ call[h] = Idle
    /\ CanTransitionPayout(payout[p].status, "pending")
    /\ payout' = [payout EXCEPT ![p].status = "pending"]
    /\ Goto(h, "send", p)
    /\ UNCHANGED <<ledger, bank, account, events, interrupts>>

\* Mutant: the fee is not given back.
RestoreBalance_NetOnly(l, p) ==
    AppendLedgerEntry(l, "payout_reversal", p, payout[p].dueId, NetKobo(p))

(* restoreBalance: the gross, sent amount and fee, back to space and due.   *)
RestoreBalance(l, p) ==
    AppendLedgerEntry(l, "payout_reversal", p, payout[p].dueId, payout[p].amount)

\* Mutant: the reservation is not released.
CancelPayout_NoRestore(h, p) ==
    /\ call[h] = Idle
    /\ CanTransitionPayout(payout[p].status, "cancelled")
    /\ payout' = [payout EXCEPT ![p].status = "cancelled", ![p].activeSpaceId = FALSE]
    /\ UNCHANGED <<ledger, call, bank, account, events, interrupts>>

(* cancelPayout: rejected, withdrawn by its requester, or out of time.      *)
CancelPayout(h, p) ==
    /\ call[h] = Idle
    /\ CanTransitionPayout(payout[p].status, "cancelled")
    /\ payout' = [payout EXCEPT ![p].status = "cancelled", ![p].activeSpaceId = FALSE]
    /\ ledger' = RestoreBalance(ledger, p)
    /\ UNCHANGED <<call, bank, account, events, interrupts>>

-----------------------------------------------------------------------------
(* dispatchPayout                                                          *)

(* The unlocked read at its head: only a pending payout goes to the bank.   *)
DispatchPayout(h) ==
    /\ call[h].at = "send"
    /\ IF payout[call[h].p].status = "pending" THEN Goto(h, "initiate", call[h].p) ELSE Return(h)
    /\ UNCHANGED <<payout, ledger, bank, account, events, interrupts>>

\* Mutant: a payout someone else already moved on is taken for pending.
StillPending_Unlocked(p) == TRUE

(* The re-check under the row lock.                                         *)
StillPending(p) == payout[p].status = "pending"

(* The transaction after the answer, then whatever the answer already says. *)
RecordDispatch(h) ==
    LET p == call[h].p IN
    /\ call[h].at = "initiated"
    /\ payout' = IF StillPending(p)
                 THEN [payout EXCEPT ![p].status = "processing", ![p].providerFee = bank[p].fee]
                 ELSE payout
    /\ call' = [call EXCEPT ![h] = After(call[h].reply, p)]
    /\ UNCHANGED <<ledger, bank, account, events, interrupts>>

-----------------------------------------------------------------------------
(* completePayout, failPayout                                              *)

(* payout.paid, or a poll that says so.  A payout that cannot become        *)
(* success - still pending, or closed - is logged and left alone.           *)
CompletePayout(h) ==
    LET p == call[h].p IN
    /\ call[h].at = "complete"
    /\ IF CanTransitionPayout(payout[p].status, "success")
       THEN /\ payout' = [payout EXCEPT ![p].status = "success",
                                        ![p].activeSpaceId = FALSE,
                                        ![p].providerFee = bank[p].fee]
            /\ Goto(h, "settle", p)
       ELSE /\ Return(h)
            /\ UNCHANGED payout
    /\ UNCHANGED <<ledger, bank, account, events, interrupts>>

FailedStatus(p) == IF payout[p].status = "success" THEN "reversed" ELSE "failed"

(* Read from the row the failing transaction returned.                      *)
FeeToRefund(p) ==
    /\ payout[p].status = "success"
    /\ payout[p].feeSettledAt
    /\ payout[p].feeSettlement # 0

(* A refusal, payout.failed, or a poll that says so; after success it is a  *)
(* reversal.  The fee refund is called once the transaction has committed.  *)
FailPayout(h) ==
    LET p == call[h].p IN
    /\ call[h].at = "fail"
    /\ IF CanTransitionPayout(payout[p].status, FailedStatus(p))
       THEN /\ payout' = [payout EXCEPT ![p].status = FailedStatus(p),
                                        ![p].activeSpaceId = FALSE]
            /\ ledger' = RestoreBalance(ledger, p)
            /\ IF FeeToRefund(p)
               THEN call' = [call EXCEPT ![h] = AtAmount("refund", p, payout[p].feeSettlement)]
               ELSE Return(h)
       ELSE /\ Return(h)
            /\ UNCHANGED <<payout, ledger>>
    /\ UNCHANGED <<bank, account, events, interrupts>>

-----------------------------------------------------------------------------
(* settleWithdrawalFee: unlocked read, transfer, unguarded write            *)

\* Mutant: the provider's own fee is swept as well.
FeeShare_Whole(p) == payout[p].feeKobo

(* Duevy's fee less what the provider already took from the account.        *)
FeeShare(p) == payout[p].feeKobo - payout[p].providerFee

SettleWithdrawalFee(h) ==
    LET p == call[h].p IN
    /\ call[h].at = "settle"
    /\ IF payout[p].status = "success" /\ ~payout[p].feeSettledAt
       THEN call' = [call EXCEPT ![h] =
                AtAmount(IF FeeShare(p) # 0 THEN "sweep" ELSE "swept", p, FeeShare(p))]
       ELSE Return(h)
    /\ UNCHANGED <<payout, ledger, bank, account, events, interrupts>>

RecordSettlement(h) ==
    LET p == call[h].p IN
    /\ call[h].at = "swept"
    /\ payout' = [payout EXCEPT ![p].feeSettledAt = TRUE, ![p].feeSettlement = call[h].amount]
    /\ Return(h)
    /\ UNCHANGED <<ledger, bank, account, events, interrupts>>

-----------------------------------------------------------------------------
(* processEvent, for the two payout events.  An event may be delivered any  *)
(* number of times, late, out of order, or never.                           *)
ProcessEvent(h, e) ==
    /\ call[h] = Idle
    /\ e \in events
    /\ call' = [call EXCEPT ![h] = After(e.kind, e.p)]
    /\ UNCHANGED <<payout, ledger, bank, account, events, interrupts>>

\* Mutant: the job looks for the wrong rows and never resends.
RetryDispatch_Processing(h, p) ==
    /\ call[h] = Idle
    /\ payout[p].status = "processing"
    /\ Goto(h, "send", p)
    /\ UNCHANGED <<payout, ledger, bank, account, events, interrupts>>

(* reconcilePayouts: one row of one of its four sweeps.                     *)
RetryDispatch(h, p) ==
    /\ call[h] = Idle
    /\ payout[p].status = "pending"
    /\ Goto(h, "send", p)
    /\ UNCHANGED <<payout, ledger, bank, account, events, interrupts>>

RefreshPayout(h, p) ==
    /\ call[h] = Idle
    /\ payout[p].status = "processing"
    /\ Goto(h, "refresh", p)
    /\ UNCHANGED <<payout, ledger, bank, account, events, interrupts>>

\* Mutant: the job looks for fees already settled.
RetrySettlement_Settled(h, p) ==
    /\ call[h] = Idle
    /\ payout[p].status = "success" /\ payout[p].feeSettledAt
    /\ Goto(h, "settle", p)
    /\ UNCHANGED <<payout, ledger, bank, account, events, interrupts>>

RetrySettlement(h, p) ==
    /\ call[h] = Idle
    /\ payout[p].status = "success" /\ ~payout[p].feeSettledAt
    /\ Goto(h, "settle", p)
    /\ UNCHANGED <<payout, ledger, bank, account, events, interrupts>>

ExpireStaleApproval(h, p) == CancelPayout(h, p)

\* Mutant: a timeout is taken as proof that the bank did nothing.
Interrupt_AsRefusal(h) ==
    /\ call[h] # Idle
    /\ interrupts < MaxInterrupts
    /\ IF call[h].at \in {"initiate", "initiated"} THEN Goto(h, "fail", call[h].p) ELSE Return(h)
    /\ interrupts' = interrupts + 1
    /\ UNCHANGED <<payout, ledger, bank, account, events>>

(* A crash, a timeout, or an error the caller only logs: the call chain is  *)
(* gone and what it had committed or sent stays.                            *)
Interrupt(h) ==
    /\ call[h] # Idle
    /\ interrupts < MaxInterrupts
    /\ Return(h)
    /\ interrupts' = interrupts + 1
    /\ UNCHANGED <<payout, ledger, bank, account, events>>

-----------------------------------------------------------------------------
(* The provider (external)                                                 *)

Answer(h, reply) == call' = [call EXCEPT ![h] = Answered(call[h].p, reply)]

(* The event for an outcome; there is none for a payout still under way.    *)
Emitted(s, p) == {e \in Event : e.kind = s /\ e.p = p}

(* initiatePayout, first call with this reference: the payout is accepted   *)
(* and may already have ended; the account pays net plus the fee.           *)
BankAccepts(h, s, fee) ==
    LET p == call[h].p IN
    /\ call[h].at = "initiate"
    /\ bank[p].state = "none"
    /\ NetKobo(p) + fee <= account
    /\ bank' = [bank EXCEPT ![p].state = s, ![p].first = s, ![p].fee = fee]
    /\ account' = IF s = "failed" THEN account ELSE account - NetKobo(p) - fee
    /\ events' = events \cup Emitted(s, p)
    /\ \/ Answer(h, s)
       \/ GarbledReplies /\ Goto(h, "fail", p)   \* a non-retryable ProviderError
    /\ UNCHANGED <<payout, ledger, interrupts>>

(* A 4xx: not enough settled money, a destination in review, ...            *)
BankRefuses(h) ==
    LET p == call[h].p IN
    /\ call[h].at = "initiate"
    /\ bank[p].state = "none"
    /\ bank' = [bank EXCEPT ![p].state = "refused", ![p].first = "refused"]
    /\ Goto(h, "fail", p)
    /\ UNCHANGED <<payout, ledger, account, events, interrupts>>

(* A retry with the same idempotency key gets the first answer again.       *)
BankReplays(h) ==
    LET p == call[h].p IN
    /\ call[h].at = "initiate"
    /\ bank[p].state # "none"
    /\ IF bank[p].first = "refused" THEN Goto(h, "fail", p) ELSE Answer(h, bank[p].first)
    /\ UNCHANGED <<payout, ledger, bank, account, events, interrupts>>

(* The transfer reaches the bank account.                                   *)
BankPays(p) ==
    /\ bank[p].state = "pending"
    /\ bank' = [bank EXCEPT ![p].state = "paid"]
    /\ events' = events \cup Emitted("paid", p)
    /\ UNCHANGED <<payout, ledger, call, account, interrupts>>

(* It fails, or comes back after it had been paid; the account is refunded. *)
BankFails(p) ==
    /\ bank[p].state \in {"pending", "paid"}
    /\ bank' = [bank EXCEPT ![p].state = "failed"]
    /\ account' = account + NetKobo(p) + bank[p].fee
    /\ events' = events \cup Emitted("failed", p)
    /\ UNCHANGED <<payout, ledger, call, interrupts>>

(* getPayout.                                                               *)
BankReports(h) ==
    LET p == call[h].p IN
    /\ call[h].at = "refresh"
    /\ call' = [call EXCEPT ![h] = After(bank[p].state, p)]
    /\ UNCHANGED <<payout, ledger, bank, account, events, interrupts>>

(* settleFee under the key fee-<reference>: once; a retry is a replay.      *)
BankSweeps(h) ==
    LET p == call[h].p IN
    /\ call[h].at = "sweep"
    /\ IF bank[p].swept
       THEN UNCHANGED <<bank, account>>
       ELSE /\ call[h].amount <= account
            /\ bank' = [bank EXCEPT ![p].swept = TRUE, ![p].sweptKobo = call[h].amount]
            /\ account' = account - call[h].amount
    /\ call' = [call EXCEPT ![h] = AtAmount("swept", p, call[h].amount)]
    /\ UNCHANGED <<payout, ledger, events, interrupts>>

(* ... or the account cannot cover it, which settleWithdrawalFee's caller   *)
(* logs and leaves to the next reconciliation pass.                         *)
BankRefusesSweep(h) ==
    LET p == call[h].p IN
    /\ call[h].at = "sweep"
    /\ ~bank[p].swept /\ call[h].amount > account
    /\ Return(h)
    /\ UNCHANGED <<payout, ledger, bank, account, events, interrupts>>

(* settleFee(-amount) under the key fee-<reference>-REV.                     *)
BankRefundsFee(h) ==
    LET p == call[h].p IN
    /\ call[h].at = "refund"
    /\ IF bank[p].topup
       THEN UNCHANGED <<bank, account>>
       ELSE /\ bank' = [bank EXCEPT ![p].topup = TRUE]
            /\ account' = account + call[h].amount
    /\ Return(h)
    /\ UNCHANGED <<payout, ledger, events, interrupts>>

-----------------------------------------------------------------------------
WorkerNext(h) ==
    \/ \E p \in Payouts, gross \in Amounts, fee \in Fees, due \in DueIds, needsApproval \in BOOLEAN :
          RequestWithdrawal(h, p, gross, fee, due, needsApproval)
    \/ \E p \in Payouts : ReleaseApproved(h, p) \/ CancelPayout(h, p)
    \/ \E e \in events : ProcessEvent(h, e)

ReconcilerNext(h) ==
    \E p \in Payouts :
        RetryDispatch(h, p) \/ RefreshPayout(h, p) \/ RetrySettlement(h, p) \/ ExpireStaleApproval(h, p)

(* The rest of a call chain, whoever started it.                            *)
Continue(h) ==
    \/ DispatchPayout(h) \/ RecordDispatch(h)
    \/ CompletePayout(h) \/ FailPayout(h)
    \/ SettleWithdrawalFee(h) \/ RecordSettlement(h)

BankAnswers(h) ==
    \/ \E s \in {"pending", "paid", "failed"}, fee \in ProviderFees : BankAccepts(h, s, fee)
    \/ BankRefuses(h) \/ BankReplays(h) \/ BankReports(h)
    \/ BankSweeps(h) \/ BankRefusesSweep(h) \/ BankRefundsFee(h)

Next ==
    \/ \E dp \in DuePayments, d \in Dues : DuePaid(dp, d)
    \/ \E h \in Workers : WorkerNext(h)
    \/ \E h \in Reconcilers : ReconcilerNext(h)
    \/ \E h \in Handlers : Continue(h) \/ BankAnswers(h) \/ Interrupt(h)
    \/ \E p \in Payouts : BankPays(p) \/ BankFails(p)

Spec == Init /\ [][Next]_vars
-----------------------------------------------------------------------------
(* Fairness.  Nothing makes a rep ask, a signatory sign or an event arrive. *)
(* A handler that has not been interrupted runs on, and a provider call     *)
(* comes back (the client gives it 20 seconds).  The reconciliation job     *)
(* starts a pass every minute and each pass goes over every row it finds,   *)
(* so a row that keeps qualifying is taken up again and again.              *)
Fairness ==
    /\ \A h \in Handlers : WF_vars(Continue(h) \/ BankAnswers(h))
    /\ \A h \in Reconcilers, p \in Payouts :
          /\ SF_vars(RetryDispatch(h, p))
          /\ SF_vars(RefreshPayout(h, p))
          /\ SF_vars(RetrySettlement(h, p))
          /\ SF_vars(ExpireStaleApproval(h, p))
    /\ \A p \in Payouts : WF_vars(BankPays(p) \/ BankFails(p))

FairSpec == Spec /\ Fairness

-----------------------------------------------------------------------------
(* Properties                                                              *)

RESTORED == {"failed", "reversed", "cancelled"}

Opened(p) == payout[p].status # "none"

(* A space has at most one withdrawal in flight, and its unique             *)
(* activeSpaceId slot is taken exactly while there is one: the slot is      *)
(* neither shared nor leaked by any of the six ways a withdrawal can end    *)
(* (withdrawal.service.ts, dispatch, webhook, poll, cancel, expiry).        *)
OneInFlight ==
    /\ \A p \in Payouts : payout[p].activeSpaceId <=> payout[p].status \in PAYOUT_ACTIVE
    /\ \A p, q \in Payouts :
          payout[p].status \in PAYOUT_ACTIVE /\ payout[q].status \in PAYOUT_ACTIVE => p = q

(* Every withdrawal has been debited in full, and credited back exactly     *)
(* when it ended without paying: whichever handlers raced to end it, the    *)
(* reversal entry is there once and only then (restoreBalance).             *)
LedgerMatchesStatus ==
    \A p \in Payouts :
        /\ <<"payout", p>> \in ledger.keys <=> Opened(p)
        /\ <<"payout_fee", p>> \in ledger.keys <=> Opened(p) /\ payout[p].feeKobo > 0
        /\ <<"payout_reversal", p>> \in ledger.keys <=> payout[p].status \in RESTORED

Collected == Face * Cardinality({dp \in DuePayments : <<"due_payment", dp>> \in ledger.keys})

Reserved(p) == IF Opened(p) /\ payout[p].status \notin RESTORED THEN payout[p].amount ELSE 0

(* The balance is what came in less the gross of every withdrawal that is   *)
(* in flight or paid; it never goes below zero, and the dues' shares of it  *)
(* never add up to more (getSpaceBalance, getDueAvailability's comment).    *)
BalanceIsOwed ==
    /\ ledger.balance = Collected - SumFunction([p \in Payouts |-> Reserved(p)])
    /\ ledger.balance >= 0
    /\ SumFunction(GetDueAvailability(ledger.net)) <= ledger.balance

LeadShare(i) == SumFunction([j \in 1..i |-> ledger.net[DueOrder[j]]])

(* No due pays out more than it collected, and whole-balance withdrawals    *)
(* eat into a due only once the dues before it (the lead's first) are used  *)
(* up: "a co-rep's due keeps its money for as long as the lead's own dues   *)
(* can cover their withdrawals" (getDueAvailability's comment).             *)
DuesKeepTheirShare ==
    /\ \A d \in Dues : ledger.net[d] >= 0
    /\ \A i \in 0..Len(DueOrder) :
          -ledger.net[NoDue] <= LeadShare(i) =>
              \A k \in (i + 1)..Len(DueOrder) :
                  GetDueAvailability(ledger.net)[DueOrder[k]] = ledger.net[DueOrder[k]]

(* What a space may withdraw is what it is owed, and within it each due     *)
(* keeps its own share (createPayout's checks under the space lock).        *)
SharesAreOwed ==
    /\ BalanceIsOwed
    /\ DuesKeepTheirShare

(* The space gets its money back only if the bank does not have it, and a   *)
(* withdrawal is reported successful only if the bank paid it (if only to   *)
(* return it later): for any interleaving of timeouts, resends, events and  *)
(* polls, no withdrawal is both restored in the ledger and sent.            *)
StatusAgreesWithBank ==
    \A p \in Payouts :
        /\ payout[p].status \in RESTORED => bank[p].state \in {"none", "refused", "failed"}
        /\ payout[p].status = "success" => bank[p].state \in {"paid", "failed"}

(* What the bank must have done for a payout to have its status...          *)
StatusBacked(p) ==
    /\ payout[p].status \in {"none", "awaiting_approval", "cancelled"} => bank[p].state = "none"
    /\ payout[p].status = "processing" => bank[p].state \in {"pending", "paid", "failed"}
    /\ payout[p].status = "success" => bank[p].state \in {"paid", "failed"}
    /\ payout[p].status = "failed" => bank[p].state \in {"refused", "failed"}
    /\ payout[p].status = "reversed" => bank[p].state = "failed"

(* ... for the answer it replays...                                         *)
AnswerBacked(p) ==
    /\ bank[p].first = "none" <=> bank[p].state = "none"
    /\ bank[p].first = "refused" <=> bank[p].state = "refused"
    /\ bank[p].first = "paid" => bank[p].state \in {"paid", "failed"}
    /\ bank[p].first = "failed" => bank[p].state = "failed"

(* ... and for a handler to be where it stands.                             *)
CallBacked(c) ==
    c.at # "idle" =>
        /\ payout[c.p].status \notin {"none", "awaiting_approval", "cancelled"}
        /\ c.at = "initiated" =>
              /\ bank[c.p].state \in {"pending", "paid", "failed"}
              /\ c.reply = "paid" => bank[c.p].state \in {"paid", "failed"}
              /\ c.reply = "failed" => bank[c.p].state = "failed"
        /\ c.at = "complete" => bank[c.p].state \in {"paid", "failed"}
        /\ c.at = "fail" => bank[c.p].state \in {"refused", "failed"}

EventBacked(e) == bank[e.p].state \in (IF e.kind = "paid" THEN {"paid", "failed"} ELSE {"failed"})

(* Nobody acts on an outcome the bank did not produce: every status,        *)
(* replayed answer, running handler and event is backed by the provider's   *)
(* record, however late it is acted on.  This is what makes                 *)
(* StatusAgreesWithBank inductive.                                          *)
EverythingBacked ==
    /\ \A p \in Payouts : StatusBacked(p) /\ AnswerBacked(p)
    /\ \A h \in Handlers : CallBacked(call[h])
    /\ \A e \in events : EventBacked(e)

(* Nothing is running, nothing is in flight and every report has landed.    *)
Quiet ==
    /\ \A h \in Handlers : call[h] = Idle
    /\ \A p \in Payouts :
          /\ payout[p].status \notin PAYOUT_ACTIVE
          /\ payout[p].status = "success" => bank[p].state = "paid" /\ payout[p].feeSettledAt

FeeKept(p) ==
    IF payout[p].status = "reversed" /\ bank[p].swept /\ ~bank[p].topup
    THEN bank[p].sweptKobo ELSE 0

(* Once everything has settled, the rep's provider balance is the space     *)
(* ledger less the fees that were swept from withdrawals later reversed     *)
(* and not given back: nothing else makes the two drift apart.              *)
AccountMatchesLedger ==
    Quiet => account = ledger.balance - SumFunction([p \in Payouts |-> FeeKept(p)])

(* docs/BACHS.md: "the rep's Bachs balance always equals the space ledger". *)
AccountEqualsLedger == Quiet => account = ledger.balance

(* With no event ever delivered, the reconciliation job alone brings every  *)
(* withdrawal to an end (reconcilePayouts).                                 *)
EventuallyClosed ==
    \A p \in Payouts :
        payout[p].status \in PAYOUT_ACTIVE ~> payout[p].status \notin PAYOUT_ACTIVE

(* The fee of a successful withdrawal is settled in the end, by completion  *)
(* or by the job, unless the withdrawal is reversed first.                  *)
FeeEventuallySettled ==
    \A p \in Payouts :
        payout[p].status = "success" ~> payout[p].feeSettledAt \/ payout[p].status = "reversed"

(* The job alone brings everything about a withdrawal to an end, its fee    *)
(* included (runReconciliation).                                            *)
EverythingEnds ==
    /\ EventuallyClosed
    /\ FeeEventuallySettled

(* What of the service's state PayoutLifecycle speaks of.                   *)
Lifecycle == INSTANCE PayoutLifecycle WITH
                status  <- [p \in Payouts |-> payout[p].status],
                amount  <- [p \in Payouts |-> payout[p].amount],
                balance <- ledger.balance

(* Every step of the service is a step of PayoutLifecycle or leaves its     *)
(* variables alone: what the handlers, the provider and the interruptions   *)
(* do never shows as more than one withdrawal moving along its table.       *)
ImplementsLifecycle == Lifecycle!LifecycleSpec
=============================================================================
