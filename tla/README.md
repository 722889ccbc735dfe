# Duevy backend: verification project

TLA+ models of the Duevy backend: how it moves money, and how it lets people
sign in, verify themselves, run dues, vote and settle disputes. With them, the
TLC configurations that check them and TLAPS proofs of the most important results.
Every definition is translated from the code under `src/`; `PROJECT.json` maps
each one to its lines.

Contents: [the system](#the-system) · [hard behaviours](#what-is-hard) ·
[modules](#modules) · [runs](#runs) · [fairness](#fairness) ·
[assumptions about the provider](#what-is-assumed-of-the-provider) ·
[proofs](#proofs) · [disagreements](#where-the-code-and-its-words-disagree) ·
[what is left out](#what-is-not-modelled) · [plan](#plan)

## The system

Students join a space (a department or an association), pay its dues by bank
transfer, and the space's reps withdraw the money. Payments run at Bachs, an
external provider. PostgreSQL holds all state; several API and worker processes
share it. There is no in-memory state that matters between two requests.

| Part | State | Operations | Talks to |
|---|---|---|---|
| Checkouts (`checkout.service.ts`) | checkout rows with their due lines, transaction and receipt; due payments | create or reuse, open the account, fulfil, mark underpaid, expire | ledger, provider, webhook worker, reconciliation |
| Space ledger (`ledger.service.ts`) | append-only entries, unique per (type, id) | append, balance, availability per due | everything that moves money |
| Withdrawals (`withdrawal.service.ts`) | payout rows; the unique in-flight slot `activeSpaceId` | request, dispatch, complete, fail, reverse, cancel, settle the fee, refresh | ledger, provider, approvals, reconciliation |
| Approvals and security (`withdrawalApproval.service.ts`, `signatory.service.ts`) | seats, mode, withdrawal code, 24-hour hold, one-time codes, decisions | request, sign, reject, expire, nominate, switch mode, set the code | withdrawals, team |
| Team (`circle.ts`, `admin.ts`, `requireRole.ts`) | reps and their role, suspensions | add, remove, hand over the lead, assign, suspend | approvals |
| Webhook queue (`webhooks.ts`, `webhookProcessor.service.ts`, `webhookWorker.ts`) | event rows with status, attempts, lock | receive, store, claim, run, retry, give up, take over | checkouts, withdrawals |
| Reconciliation (`reconciliation.ts`) | none | every minute: poll checkouts, resend and refresh payouts, settle fees, expire approvals | provider, checkouts, withdrawals |
| Provider adapter (`providers/payment`) | none | open accounts, initiate payouts, transfer fees, report, emit events | Bachs |
| Accounts and sessions (`auth.ts`, `auth.service.ts`, `me.ts`, `guestPay.ts`) | the user row, refresh tokens, verification and reset links | register, sign in, Google, guest, refresh, log out, reset, change the password, suspend, close | KYC, dues |
| KYC and applications (`kyc.service.ts`, `kycHandlers.ts`, `admin.ts`) | verdict, attempts and lock, student card and its file, the application | submit, replace the card, refresh, review, revoke, approve, reject | provider, webhook worker, spaces |
| KYC reminders (`kycReminders.ts`) | the stage each applicant was reminded of | claim a stage, mail, give it back | users |
| Dues and membership (`repDues.ts`, `dues.ts`, `spaces.ts`, `circle.ts`, `assistant.service.ts`) | due rows, memberships, co-reps | create, edit, publish, close, delete, assign, remind, join, leave, remove | checkouts |
| Idempotency keys (`idempotency.ts`) | one row per key, with the stored response | claim, replay, store, release, take over | every guarded route |
| Polls (`polls.ts`, `poll.service.ts`) | polls and votes | edit, publish, close, vote | |
| Partners (`partner.service.ts`, `partners.ts`) | partners, one redemption per space | redeem, edit, revoke | withdrawals (the discount) |
| Beneficiaries (`beneficiary.service.ts`) | saved bank accounts and their destination at the provider | add, remove, resolve, register again | withdrawals, provider |
| Money (`money.ts`) | none | fees, discounts, shares, decimals | checkouts, withdrawals, provider |
| Disputes (`disputes.ts`, `admin.ts`) | dispute rows | file, claim, resolve | |
| Referrals, assistant, notifications, metrics, storage, bootstrap | see `PROJECT.json` | | |

How they interact. A paid transfer reaches the service as an event (stored by
the webhook route, run by a worker) and as the answer to a poll; both end in
`fulfilCheckout`, which credits the ledger. A withdrawal debits the ledger when
it is created, goes to the provider at once or after two signatures, and is
ended by the answer to its dispatch, an event, or a poll; each ending but
success credits the ledger back.

### What is hard

* Between any two awaits another request, worker or instance may run. The code
  reads outside a transaction, calls the provider, and writes in a transaction
  under a row lock: what was read may be stale.
* A provider call may take effect although its answer is lost.
* Events arrive late, twice, out of order or never, and race with polls.
* A process may die between committing and the next step.
* A lock on an event is a timestamp: it ends by time, not by its holder.
* Some things must happen with nobody asking: a stuck withdrawal, an unpaid
  checkout, an unsigned approval must come to an end.

What makes each part correct: every due is credited once and at face value;
nothing is credited that was not paid; a withdrawal is never both sent and
given back; the balance never goes below zero and the dues' shares never exceed
it; one withdrawal is in flight at a time; two people decide before a multisig
withdrawal leaves, and no decision is undone; an acknowledged event is never
lost; everything comes to an end. Outside the money: a refresh token makes one
session, and a session knows the current password; a guest's payments go only
to whoever holds the inbox; the verdict on a rep is the provider's and the card
that was approved is one that was seen; nobody pays another price than the due
asks; a key has one effect unless a request fails after it; one vote, one redemption, one decision each.
`PROJECT.json` lists the hazards one by one,
at their line, with the properties that watch them.

## Modules

| Module | Models | Notes |
|---|---|---|
| `StateMachine` | `lib/stateMachine.ts` | the checkout and payout transition tables |
| `Ledger` | `ledger.service.ts` | a ledger is its unique keys, its SUM, and its SUM per due; `GetDueAvailability` with recursive functions |
| `PayoutLifecycle` | abstract specification | what a space sees: reserve once, follow the table, give back once |
| `Withdrawal` | `withdrawal.service.ts`, payout half of the reconciliation job and of `processEvent`, the provider | extends `Ledger` and `StateMachine`, implements `PayoutLifecycle` |
| `CollectionLifecycle` | abstract specification | what payers, admins and a space see: a full payment settles and credits, at one stroke, the lines still owed, and what an admin must see is flagged with it |
| `Checkout` | `checkout.service.ts`, checkout half of the job and of `processEvent`, the pay page's status check, the admin's manual credit, the provider | extends `Ledger` and `StateMachine`, implements `CollectionLifecycle` |
| `WebhookQueue` | `routes/webhooks.ts`, `enqueueEvent`, `webhookWorker.ts` | what an event does is `applied`; its effect is in the two modules above |
| `Approval` | `withdrawalApproval.service.ts`, `signatory.service.ts`, the authorisation half of `withdrawal.service.ts`, the team routes | what happens after release is `Withdrawal` |
| `Sessions` | `routes/auth.ts`, `auth.service.ts`, the password and sessions of `me.ts`, `guestPayer`, suspension | one account, any number of handlers, tokens and links |
| `Onboarding` | `kyc.service.ts`, `kycHandlers.ts`, identity in `BachsProvider.ts`, the admin's review, revocation and application routes | one applicant; the provider's person and verdict are `bachs` |
| `Reminders` | `jobs/kycReminders.ts` | several worker processes |
| `Dues` | `repDues.ts`, joining and leaving in `spaces.ts`, members and co-reps in `circle.ts`, what `createCheckout` asks of a due, the confirmations of the assistant | one due; its payment is `Checkout` |
| `Idempotency` | `middleware/idempotency.ts` | one key |
| `Voting` | `polls.ts`, `poll.service.ts`, the admin's closing | one poll |
| `Partners` | `partner.service.ts`, `partners.ts` | several spaces and codes |
| `Beneficiaries` | `beneficiary.service.ts`, the target of a withdrawal in `withdrawal.service.ts` | one space, one withdrawal in flight |
| `Money` | `lib/money.ts` and where it is used | a trace of three steps: price, send, read back |
| `Disputes` | `disputes.ts`, the dispute routes of `admin.ts` | one dispute |
| `MC*` | instances for TLC | orders and symmetry sets; `MCMembers` and `MCReps` also put modules side by side |
| `WithdrawalProofs`, `CheckoutProofs`, `WebhookQueueProofs`, `ApprovalProofs`, `MembersProofs`, `RepsProofs`, `MoneyProofs` | TLAPS proofs | `MembersProofs`: sessions, dues, reminders; `RepsProofs`: onboarding, polls, partners, beneficiaries, disputes, idempotency keys |
| `SumProofs` | TLAPS proofs | what the community modules' sums do, for any finite set; used by `WithdrawalProofs` and `MoneyProofs` |

Conventions. A *handler* is one running call chain: a request, a webhook worker
or a pass of the job. `call[h]` says between which two awaits it stands and
what it has read. One database transaction under `lockPayout`, `lockCheckout`
or `lockSpace` is one step; a read before it is a separate step exactly where
the code acts on it later. `Interrupt` (`Crash` in the queue) ends a handler
anywhere: a crash, a timeout, or an error the caller only logs. Operators named
`X_Something` before an operator `X` are deliberate mutations of it, kept to
show that the properties notice them; nothing else uses them.

What the models abstract:

* `Withdrawal`: kobo amounts are small numbers; the fee is any of `Fees` (0 is
  a full partner discount), the rounding of `money.ts` is not used. An event is
  a member of a set and may be processed any number of times or never. Manual
  credits are left out here (the money does not pass the provider); they are in
  `Checkout`. Whether a request is authorised is `Approval`; a request here is
  one that was. The branch of `dispatchPayout` for a payout without a
  destination cannot be reached by rows this code creates.
* `Checkout`: all checkouts have the same total and all lines the same face
  amount, since code compares amounts with the total only. Time is the `age` of
  a checkout against `expiresAt` and the grace of the job.
* `WebhookQueue`: a poisoned event throws each time; `due` and `stale` stand
  for the two clocks. The signature check happens before any state.
* `Approval`: adjacent reads of one handler are one step. A wrong withdrawal or
  one-time code is a request that does not happen; a one-time code may vanish
  (`LoseOtp`: run out, or voided). `payoutsFrozen`, the KYC of the requester
  and the lead and the destination are further reasons to refuse and add no
  state. A rep removed and added again is not told apart from one who stayed.

* `Sessions`, `Onboarding`, `Dues`, `Voting`, `Partners`, `Beneficiaries`,
  `Idempotency` and `Disputes` model one account, applicant, due, poll, ... each:
  rows of different ones do not meet, except where the module says so. A
  password stands for its hash, an access token for the fact that one was once
  handed out (it cannot be revoked). Bodies refused by a schema are no requests.
* Overtaken reads. Many handlers read a row, decide, and update it by id. Where
  the code lets an overtaking request make such an update wrong, no property of
  the kind "always" can hold; the models record the order as history
  (`hist.overlap`, `log.overtaken`, `raced`, `stale`, `overtaken` in `Approval`,
  the credential `Stale` in `Sessions`) and the property leaves out that order by name, and nothing else.
  The orders are listed under [disagreements](#where-the-code-and-its-words-disagree).
  In these modules, `Approval` excepted, the handlers that are running then
  finish and no new one begins (in `Onboarding` after `MaxOverlapAttempts`): the
  bound that keeps the states few.
* `Idempotency`: a handler that answers with an error has taken effect or not
  (`ErrorAfter`), since it may fail after its commit; `errored` records those
  that had.
* `Checkout` keeps what had come in when an admin last cleared the flag
  (`reviewed`): what comes in later must be flagged again.
* `Disputes`: what a dispute is about and the note are left out.

## Runs

All runs finish in under four minutes with two workers. `CHECK_DEADLOCK FALSE`
appears where the bounded system may stop: all ids used, nothing left to do.

| Run | Bounds | Shows |
|---|---|---|
| `WithdrawalRaces` | 1 payout, 2 workers, 1 reconciler, 2 interruptions, fee 0 or 1, provider fee 0 or 2 | `StatusAgreesWithBank`: restored only if the bank does not have the money, successful only if it paid. `EverythingBacked`: nobody acts on an outcome the bank did not produce. `AccountMatchesLedger`: at rest the provider account equals the ledger less fees swept and not refunded. `EverythingEnds`: the job alone finishes the work |
| `WithdrawalSequence` | 2 payouts, 2 dues, 2 payments, 1 worker, 1 reconciler, provider fee 0 or 4 (the second leaves an account that cannot cover the other fee) | `TypeOK`, `OneInFlight`, `LedgerMatchesStatus`, `SharesAreOwed`, `ImplementsLifecycle` |
| `WithdrawalFeeRace` (violation) | 1 payout | `AccountEqualsLedger`: what BACHS.md says, which a reversal during fee settlement breaks |
| `CheckoutDues` | 1 student, 2 dues, 2 checkouts, exact amounts, 2 handlers; a retry may outlast its window | `TypeOK`, `OneOpenCheckout`, `ImplementsCollection` |
| `CheckoutMoney` | 1 checkout, 2 charges, short and excess amounts, 2 handlers, 1 interruption | `PaymentsAddUp`, `MoneyIsNoticed`, `CheckoutsEnd` |
| `WebhookQueueSlow` | 3 events, 2 slow workers, batch 2, 2 attempts | `EventsAreKept` |
| `WebhookQueuePrompt` | 3 events, 2 prompt workers, batch 2, 2 attempts, 1 crash | `TypeOK`, `ExclusiveClaim`, `EventsSettle` |
| `ApprovalRaces` | a lead and 2 co-reps with seats, 1 withdrawal, 2 handlers, 2 changes (1 once there is a withdrawal: `SigningOrTeam`), 1 interruption, admins assign leads and co-reps | `TypeOK`, `ReleasedByTwo`, `DecisionsAreFinal`, `CurrentSignatoriesCount`, `LeadIsSound`, `ChangesAreSafe` |
| `ApprovalInTurn` | the same space, 1 handler, 2 changes, 1 interruption | `EventuallyDecided` |
| `Members` | `Sessions`: 2 handlers, 2 tokens, 1 link, 2 passwords. `Dues`: 2 handlers, 2 people of whom one begins as a guest and the other may become a co-rep, 2 amounts. `Reminders`: 3 passes | `MembersTypeOK`, `SessionsAreEarned`, `DueIsHonest`, `ClosedIsFinal`, `RemindedOnce` |
| `Reps` | `Onboarding`: 2 handlers, 3 files, 3 refusals. `Voting`: 3 handlers, 2 voters, 2 categories. `Partners`: 2 handlers, spaces and codes. `Beneficiaries`: 2 handlers, 3 accounts, 3 rows, a limit of 2, 2 leads. `Idempotency`: 3 requests, 2 bodies. `Disputes`: 2 admins. `Money`: the amounts of `Reps.cfg` | `RepsTypeOK`, `ApplicantIsVetted`, `PollIsFair`, `RedemptionsHold`, `AccountsAreRight`, `OneEffectPerKey`, `ReplayIsOfSameRequest`, `AmountsAddUp`, `DecisionsHold` |
| `IdempotencyDisconnect` (violation) | 2 requests | `NeverTwiceAtOnce`: what the comment of `idempotency.ts` says, which a client that goes away breaks |

Several of these are conjunctions of named parts, each defined and explained
where its module states it; the mutants break them part by part.

| Property | Parts |
|---|---|
| `EverythingEnds` | `EventuallyClosed`, `FeeEventuallySettled` |
| `SharesAreOwed` | `BalanceIsOwed`, `DuesKeepTheirShare` |
| `PaymentsAddUp` | `CreditsMatchPayments`, `PaidInFull` |
| `CheckoutsEnd` | `PendingEventuallyCloses`, `FullPaymentLands` |
| `EventsAreKept` | `AckedIsStored`, `StatusIsEarned`, `AttemptsBounded` |
| `EventsSettle` | `FinalStatus`, `EventuallySettled` |
| `LeadIsSound` | `LeadStays`, `WaitingGoesOnPayingLead`, `RejectionsCount` |
| `ChangesAreSafe` | `HandoverKeepsSeats`, `HoldLasts` |
| `SessionsAreEarned` | `RotatedOnce`, `ResetOnce`, `BarredStaysOut`, `SessionsKnowThePassword`, `GuestIsClaimedByInbox`, `ApplicantIsVerified` |
| `DueIsHonest` | `MoneyIsOnAPublishedDue`, `PaidTheAmount`, `TotalsMatchRoster`, `AssigneeIsRep`, `RepsAreMembers`, `RemindedOncePerDay` |
| `ApplicantIsVetted` | `CardIsOnFile`, `ApprovedCardWasSeen`, `RowFollowsBachs`, `OneRepresentative`, `OneSpacePerApplication` |
| `PollIsFair` | `OneVoteEach`, `TotalIsVotes`, `ShownIsFinal`, `VotesAreFree` |
| `RedemptionsHold` | `RedeemedOnce`, `NeverOvershoots`, `TermsAreKept` |
| `AccountsAreRight` | `SavedOnce`, `WithinTheLimit`, `PaidWhereItSays` |
| `AmountsAddUp` | `SharesAddUp`, `SharesAreProportional`, `FeeIsNearest`, `WithdrawalAddsUp`, `TotalSurvivesTheWire`, `ReadAsNearestKobo` |
| `DecisionsHold` | `ThirdRefusalLocks`, `DecidedOnce`, `InFlightKeepsItsTarget` |
| `MembersTypeOK`, `RepsTypeOK` | the type invariants of the modules put side by side |

`Members` and `Reps` are sums: the modules in them share no state, so each
behaviour is of one of them, picked at the start by the variable `part`, while
the others stay where they began. TLC explores the modules one after the other,
not their product.

Why the bounds are enough. Withdrawals of one space meet only in the slot and
the ledger, so two payouts show every way one can follow another; races are
about one row, and the deepest one (dispatch, event and poll about the same
payout) has three handlers. Two dues give the order of `GetDueAvailability` a
first and a last. Checkouts meet in a due of one student: two overlapping ones
show all of it. A batch of 2 has a row that runs and one that waits; two
attempts are a first, which is retried, and a last, which is not
(`MAX_ATTEMPTS` is 8 and `BATCH` 10 in the code, and both occur only in
comparisons). Interruptions are bounded because each one returns to a state
that could have been reached by a handler that never started; two allow a crash
during the recovery from a crash. `MaxChanges` bounds changes to a team: two,
because one handover, removal or setting overtakes another; beside a withdrawal
one is enough to overtake a signature, a request or a sweep, and the constraint
`SigningOrTeam` of `MCApproval` stops there (without interruptions and without
the constraint the same properties hold in 3.8 million states). A read
that another request overtakes needs two handlers; a poll and an idempotency
key get three, since there the third can act between two that race. Two tokens
are a token and its successor, and a session beside the one a password change
is made from. One co-rep and the lead are the two an assignment can pass between.
Three cards are the one on file, its replacement, and one being stored. The limit of 2 beneficiaries leaves a list that is full and a third
account that wants in; `MAX_BENEFICIARIES` occurs only in a comparison. The
amounts for `Money` lie on both sides of the fee thresholds and of a half kobo,
with equal and unequal shares; the fractions are every digit pattern that
decides a rounding.

## Fairness

* A handler that is not interrupted runs on, and a provider call returns (the
  client gives up after 20 seconds): weak fairness of the rest of a call chain.
* The reconciliation job runs every minute and takes up every row it finds:
  strong fairness of taking up a row, since a row may qualify now and then. The
  job's limit of 25 or 50 rows per sweep is not modelled; the liveness results
  say nothing about a backlog of more rows than that which all keep failing.
* The webhook worker polls every two seconds; time passes; the provider repeats
  a delivery until it is acknowledged (`WebhookQueue`, `Checkout`).
* Nobody has to pay, ask, sign, or deliver a payout event: `EventuallyClosed`
  holds although every event may be lost.

## What is assumed of the provider

From how the code uses it: a call with an idempotency key it has seen replays
the first answer, refusals included; a payout is accepted only if the account
covers it and the provider's fee; a failed or returned payout gives back the
net amount and that fee; the fee is reported with the payout; a charge takes
one payment; the account shown to a payer is one the row records.

## Proofs

For every number of payouts, dues, payments, handlers and interruptions:

| Theorem | Says | Along |
|---|---|---|
| `TypeCorrect` | `TypeOK` | inductive as it stands; one step per action, with lemmas on what `AppendLedgerEntry`, `Debit` and the call constructors return |
| `SlotExclusive` | `OneInFlight` | inductive with `TypeOK` |
| `DebitsAndReversals` | `LedgerMatchesStatus` | inductive with `TypeOK` |
| `NeverOverdrawn` | the balance is never negative | needs `LedgerMatchesStatus`: without it a replayed ledger key could swallow a credit |
| `Refinement` | `ImplementsLifecycle` | every step maps to a step of `PayoutLifecycle` or a stutter, under the invariants above |
| `Backed` | `EverythingBacked` | the strengthening that makes the next one inductive |
| `NeverSentAndRestored` | `StatusAgreesWithBank` | follows from `Backed` |
| `SharesStayOwed` | `SharesAreOwed` | `NetsInv` and `OwedInv` |
| `AccountStaysMatched` | `AccountMatchesLedger` | `FeeInv` and `AccountInv` |

`StepShape` is the lemma the first half rests on: it classifies every step by
what it does to rows and ledger (collect, open, advance, restore, or nothing),
so each invariant is proved once per shape and not once per action.
`StatusAgreesWithBank` is not inductive: a handler about to fail a payout holds
an answer from earlier, and nothing in that property says the answer is still
backed. `EverythingBacked` says so for every status, replayed answer, handler
and event. `Backed`, `NeverSentAndRestored` and `AccountStaysMatched` assume
`~GarbledReplies`; setting `GarbledReplies = TRUE` in `WithdrawalRaces.cfg` shows
that the first two need it. The two theorems on sums assume `IsFiniteSet(Payouts)`:
payouts are rows of a table, and a sum over infinitely many is nothing. The
other assumptions are `WithdrawalAssumption` and `DueOrderAssumption`, which
TLC evaluates on every run.

The last two theorems are about sums. The fold of the community modules is chosen
as the function that satisfies its equation, so `SumProofs` first
shows that there is one for every finite set and that it adds up in any order
(`SumWith`, `SumChanges`, `SumOfSums`), each by way of a smallest set for which
it fails, since induction over sets is out of the prover's reach. The same
argument along the order of the dues says what the loop of `getDueAvailability`
leaves each due (`AvailabilityIs`), that the shares add up to no more than the
balance (`SharesAddUp`) and who gives way to whom (`SharesAreKept`). `NetsInv`
says that the balance is the sum of the dues' own amounts, none below zero, which
is where the check of a due's share under the space lock is needed; `OwedInv`
that it is what came in less what is reserved. `AccountMatchesLedger` speaks of
quiet states only and is far from inductive. `AccountInv` follows the account in
every state, as what came in less what the provider took for each withdrawal;
`FeeInv` says that a fee that was swept, is about to be, or was written down is
Duevy's share of a withdrawal that was paid, and is given back after a reversal
only. In a quiet state the two give what was reserved and the fees kept.

For one idempotency key, and every number of requests and bodies (`RepsProofs`):

| Theorem | Says | Along |
|---|---|---|
| `IdempotencyTypeCorrect` | `IdempotencyTypeOK` | a conjunct of `IdempotencyInv` |
| `OneEffect` | `OneEffectPerKey` | follows from `Sole` and `Held` in `IdempotencyInv` |
| `ReplaySafe` | `ReplayIsOfSameRequest` | follows from `Earned` in `IdempotencyInv` |

`OneEffectPerKey` leaves out the requests that took effect and then answered
with an error, by name: their key is released, and what a retry does then is up
to the handler. Neither property is inductive: nothing in them says where a stored response
came from, or that the row is there while a request runs. `IdempotencyInv` adds
`Earned` (a response on the row, on its way to it, or replayed is that of a
request with the same body), `Late` (a late write of a response finds its own
request's row or none), `Held` (a request that runs, or has taken effect
and did not answer with an error, holds the row) and `Sole` (one such request at most).

For every number of workers, events and crashes (`WebhookQueueProofs`):

| Theorem | Says | Along |
|---|---|---|
| `QueueTypeCorrect` | `TypeOK` | `Typed`, with `Numbered` for what a worker may write |
| `EventsKept` | `EventsAreKept` | `QueueInv` |
| `Exclusive` | `ExclusiveClaim`, if `~SlowWorkers` | `Alone` |
| `Final` | the `FinalStatus` half of `EventsSettle`, if `~SlowWorkers` | `Alone` |

That a dead event was tried `MAX_ATTEMPTS` times, less the workers that died, is
a count of claims. `Numbered` gives each claim its own number, no higher than the
row's; `Counted` says every claim was the first, took over from a dead worker, or
followed a failure, and `Spent` is the set of claims whose failure can be behind
it, so that the count is the cardinality of a set with one element more or less
per step. `Alone` is what `STALE_LOCK_MS` is for: who holds an event holds it in
`processing`, with a fresh lock, and holds it once.

For every number of users, withdrawals, handlers and interruptions
(`ApprovalProofs`):

| Theorem | Says | Along |
|---|---|---|
| `ApprovalTypeCorrect` | `TypeOK` | `ApprovalInv` |
| `TwoPeopleRelease` | `ReleasedByTwo` | `Signed`: a decision is never withdrawn, so those who decided only grow |
| `DecisionsStay` | `DecisionsAreFinal` | `PayoutSteps`: what a step can do to a withdrawal |
| `CurrentSignatoriesRelease` | `CurrentSignatoriesCount` | `Fresh` |
| `SafeChanges` | `ChangesAreSafe` | `Fresh`, `HoldStep`, and `HandOverKeepsSeats`: a bijection between the seats before and after |
| `SpaceHasItsLead` | `LeadIsSound` | `Fresh`, `LeadStep`, `WaitsForLead`, `RejectionStep` |

All hold in any interleaving and with crashes; none has an assumption beyond
those on the constants. The last three are about what a handler reads before
its write. The code does not read it again, so each property names the write
that goes wrong when another request has changed the team or started a hold
meanwhile, which is what `overtaken` records, and the step that a crash cuts
short. `Fresh` is what makes these exceptions the only ones: what a handler that
was not overtaken has read of the team and the hold is still so.

For every number of tokens, links, handlers, members, passes (`MembersProofs`)
and groups, codes, voters, files, accounts (`RepsProofs`), in any interleaving:

| Theorem | Says | Along |
|---|---|---|
| `SessionsTypeCorrect`, `SessionsEarned` | `SessionsTypeOK`, `SessionsAreEarned` | `SessionsInv` |
| `DuesTypeCorrect`, `HonestDue` | `DuesTypeOK`, `DueIsHonest` | `DuesInv` |
| `ClosedForGood` | `ClosedIsFinal` | `DuePlace` of a publication |
| `RemindedAtMostOnce` | `RemindedOnce` | `RemindersInv` |
| `MembersTypeCorrect` | `MembersTypeOK` | the three, each part a stutter of the other two |
| `DecisionIsKept` | `DecidedOnce` | `DisputesInv`: an admin about to decide read what is there, or an overlap is on record |
| `AccountsStayRight`, `TargetIsKept` | `AccountsAreRight`, `InFlightKeepsItsTarget` | `BeneficiariesInv` |
| `RedemptionsAreKept` | `RedemptionsHold` | `PartnersInv` |
| `PollStaysFair` | `PollIsFair` | `VotingInv` |
| `ApplicantStaysVetted`, `ThirdRefusalStands` | `ApplicantIsVetted`, `ThirdRefusalLocks` | `OnboardingInv` |
| `RepsTypeCorrect`, `RepsDecisions` | `RepsTypeOK`, `DecisionsHold` | the parts, side by side |

`ThirdRefusalLocks`, `RowFollowsBachs` and `OneSpacePerApplication` speak of
requests of one applicant that do not overlap, and `DecidedOnce` of disputes that no
overtaken claim reopened; the models follow the others.

None of these is inductive, for one reason: the tables say nothing of the
handlers between a read and a write.

* `SessionsInv` calls a credential `Known` while it still counts, and says that
  live tokens and handlers about to mint hold such a one (`TokensInv`, `Fits`),
  and that no two handlers have rotated one token or claimed one link (`Apart`).
  A password that changes makes the old credential `Stale` for all of them at
  once, which is the step that needs both.
* `DuesInv` relates what a clerk read to the due unless the model's `log` says
  that the write in question was overtaken (`DuePlace`), open checkouts to the
  amount (`OpenAmounts`), and the claimed reminder to the row (`ClaimShows`).
* `RemindersInv`: a claim covers the stages above the one it was claimed from,
  of which none was mailed, and two claims cover different stages.
* `BeneficiariesInv`: a destination is the one of the row's own bank account, and
  a request to register it again still has that account.
* `PartnersInv` is the row lock: past it a handler holds it, and past the check
  there is room for one more that nobody else can take.
* `VotingInv` relates what a desk read of the poll to the poll, unless `raced`
  says a vote, an edit or a publication was overtaken.
* `OnboardingInv`: in any case, the card a submission has stored is in the store
  and no other request has it, replaces it or discards it (`CardsInv`), and one
  person at most is about to be added beside another (`PersonsInv`); while no two
  handlers overlap, what a handler read is still so (`Current`) and the row says
  what the provider says unless somebody is about to ask (`FollowsInv`).

For every number of students, dues, checkouts, charges, amounts and handlers
(`CheckoutProofs`):

| Theorem | Says | Along |
|---|---|---|
| `CheckoutTypeCorrect` | `TypeOK` | `CheckoutInv` |
| `PaymentsAlwaysAddUp` | `PaymentsAddUp` | `CreditsInv` in `CheckoutInv` |
| `MoneyAlwaysNoticed` | `MoneyIsNoticed` | `MoneyFits` in `CheckoutInv` |
| `OneAccountPerDue` | `OneOpenCheckout` | `WindowInv` |
| `CollectionRefinement` | `ImplementsCollection` | every step maps to a step of `CollectionLifecycle` or a stutter, under `CheckoutInv` |

`PaymentsAddUp` compares the balance with a number of settled dues. It is a count
and not a sum, so its step is that of a cardinality (`SettleFacts`): the dues a
checkout settles are added to the settled ones, its credits to the ledger's keys,
and neither had them before. `MoneyIsNoticed` is about a quiet moment; `MoneyFits`
says of every moment that a payment no admin has dealt with has been noticed or
is in an event still to be processed. That needs what a handler or an event was
told to have come in (`CallFits`, `EventFits`, `SessionFits`), because a poll and
a webhook report one payment twice. `WindowInv`: a first attempt to open an
account ends within the window of its checkout, which a retry of a checkout that
was reused may outlast; so only the answer to a retry can open a window again,
and `OneOpenCheckout` names it. The refinement needs `CheckoutInv` in three places: that the amount a
handler was told did come in, so that only a funded checkout is paid; that a
checkout that is not paid has no credit yet (`FreshCredits`, `ManualIsFresh`), so
that the replay rule of the ledger swallows none; and that a message is about a
checkout that is there, so that a flag is raised only on one that is over. So a
slow retry that lets two accounts be open for one due still settles that due once.

Assumptions on constants, all evaluated by TLC: `Faces # {}`,
`MAX_BENEFICIARIES >= 1`, a null that is no member of the set it stands beside,
and finite sets of first reps and of categories, since the models count them.

For every price, number of dues, rate and amount on the wire (`MoneyProofs`):

| Theorem | Says | Along |
|---|---|---|
| `AmountsAlwaysAddUp` | `AmountsAddUp` | `MoneyInv`: what the trace holds at each of its steps |

The trace is short; what it computes is the difficulty, since the roundings
multiply and divide variables by one another, which the SMT solver does not
decide, so every quotient is named and bounded by a lemma of its own. That the shares
add up to the whole fee is the argument for the largest-remainder method
(`distribute`). Rounded down, the shares leave `left` kobo, the remainders add up
to `left` times the total (`LeftIsOwed`), and each is less than the total, so there
are fewer kobo left than dues (`LeftIsLess`). The order in which they are handed out is a
bijection between dues and places (`PlacesAreBijection`), so exactly `left` dues have
a place below `left` (`FirstPlaces`), and each gets one kobo (`SharesSum`). None of them
was exact before: `left` remainders that add up to `left` times the total
cannot all be spent on fewer dues than that (`ToppedUpFallsShort`). So every share
is within one kobo of its part, and a dearer due never carries less
(`ShareIsProportional`, `DearerCarriesMore`).

Only model-checked: liveness (`EverythingEnds`, `CheckoutsEnd`, `EventuallyDecided`
and the half of `EventsSettle` that says an event settles), which the prover does
not reach under fairness. Every invariant and every other action property of a passing run is
the statement of a theorem.

## Where the code and its words disagree

With a run of their own (details under `findings`):

1. A reversal between the sweep of a fee and the write of `feeSettledAt` leaves
   the fee with Duevy; the account is short of the ledger (`WithdrawalFeeRace`).
2. A client that goes away releases its idempotency key while its request runs
   on; a retry then runs beside it (`IdempotencyDisconnect`).

Met while modelling, and reproduced by changing a constant:

* `StatusAgreesWithBank` fails with `GarbledReplies = TRUE`: a 2xx answer that is
  not JSON counts as a refusal (`client.ts:102`), so a payout that was accepted
  is given back as well.
* `ExclusiveClaim` fails with `SlowWorkers = TRUE`: a batch slower than the
  lock is run by two workers at once.
* A change of lead lifts a hold whatever started it; `HoldLasts` says so.
* A poll without an amount replaces a known short amount by 0; an unreadable
  event whose insert fails is acknowledged; a worker that dies at the last
  attempt leads to another one. The models follow the code, and
  `MoneyIsNoticed`, `AckedIsStored` and `AttemptsBounded` state what is left.

Followed by the models and left out of a property by name:

* A request that commits and then fails (the dispatch or the last read of
  `withdrawal.service.ts:336`, the announcement in `payouts.ts:337`, the account
  that cannot be opened in `checkout.service.ts:312`) answers with an error, which
  releases its key (`idempotency.ts:97`): a retry with the same key runs again, and
  may take effect again (`OneEffectPerKey`).
* The answer to a retry reopens a window that had closed, beside a checkout
  created since (`checkout.service.ts:291`, `OneOpenCheckout`).
* The signature of somebody who stopped being a signatory after the check of the
  last one counts (`withdrawalApproval.service.ts:118`, `CurrentSignatoriesCount`).
* A rejection that lands after the last signature, or before it but whose
  cancellation comes after it, stays on record on a withdrawal that was released
  (`withdrawalApproval.service.ts:172`, `RejectionsCount`).
* A request that read the old lead is created after the sweep of a handover, or
  the handover dies before its sweep (`circle.ts:397`, `WaitingGoesOnPayingLead`).
* A removal deletes the rep who has just become lead, two handovers make two
  leads, and an admin may assign the only lead as co-rep (`circle.ts:239`,
  `admin.ts:1094`, `LeadStays`); a handover beside another change may lose a seat
  (`HandoverKeepsSeats`).
* A change of the mode or the code writes back the hold it read, over one that
  began since (`signatory.service.ts:149`, `HoldLasts`).
* Two refreshes of a verification, or a refresh and a review, that overlap may
  write the older verdict last and count a refusal once for both
  (`kyc.service.ts:402`, `RowFollowsBachs`, `ThirdRefusalLocks`).
* A second payment on the charge recorded at opening is not flagged when the
  first came in on another charge (`checkout.service.ts:390`), and a further
  short payment of an amount an admin has already reviewed passes for a replay
  (`checkout.service.ts:527`).
* A payment that lands while a rep edits the amount, after the payments were
  counted, and a checkout opened before the edit: payers of one due pay
  different amounts (`repDues.ts:256`). Two publications with a closure in
  between open a due again (`repDues.ts:295`). A co-rep removed while a due is
  assigned to them keeps it; a member removed while being made a co-rep is a
  co-rep who is no member.
* "Paid counts are members only" (`repDues.ts:109`) is not so: a payer who left
  the space, or a guest who claimed the account, is counted.
* Two overlapping submissions may create two representatives at the provider,
  and two overlapping approvals two spaces. A card replaced between an admin's
  read and write is approved unseen.
* A vote that read an open poll is recorded after the poll was closed and its
  tallies shown; an edit that read a draft is written after its publication.
* A claim that read an open dispute reopens it after its resolution
  (`admin.ts:1408`), and it may be decided again, although "two admins can't
  both resolve the same dispute".

Seen on the way, and not stated as properties:

* The refresh cookie is sent to `/v1/auth/refresh` only (`auth.ts:35`): a
  browser's logout does not revoke its session, and "keep the caller's current
  session" (`me.ts:228`) never applies. The models let a client send it or not.
* An admin's revocation of a verification lasts until the next identity event
  (`admin.ts:530`): `refreshIdentity` writes the provider's verdict over it.
* A decimal that arrives as a JSON number is rounded twice: 1.0049 becomes 101
  kobo. As a string it is 100.
* Archiving a space counts payouts and then reads the balance without the lock.
* A member may leave with an unpaid due that is published between the count of
  unpaid dues and the end of the membership (`spaces.ts:266`).
* The manual credit inserts the due payment before it takes the space lock and
  `fulfilCheckout` after it: for one student and due each may wait for the
  other, until the database aborts one (`admin.ts:1313`).
* A worker that dies between the claim of a reminder and the mail loses the mail
  (`kycReminders.ts:69`); `RemindedOnce` is at most once.

## What is not modelled

`PROJECT.json` lists every component with its reason. In short: reads and
lists, formatting, e-mail and notifications sent after the commit, storage,
metrics, rate limiting and bootstrap have no protocol of their own. Of the
assistant only its two confirmations change anything else; the rest is a
language model with read-only tools and a transcript. Referrals are a code on
the user: `maybeAwardReferral`, the one operation with an effect, is called
from nowhere. Feedback, profiles, avatars, preferences, the settings of a space
and the regeneration of a join code are single updates of one row. Refunds and
paid voting are refused by the code. Archiving a space, freezing its payouts and
suspending a rep only refuse requests (a suspension also ends sessions, which
`Sessions` has). Database deadlocks are not visible, because a transaction is
one step.

## Plan

Done, in this order: transition tables and ledger; withdrawals with the
provider, their abstract specification and the proofs; checkouts; the webhook
queue; approvals, security settings and the team; idempotency keys and their
proofs; sessions, onboarding, dues, polls, partners, beneficiaries, money,
reminders and disputes; the proofs of all their invariants, and of both refinements.

Next: a composition of `WebhookQueue` with `Withdrawal`: an event processed before
its payout was recorded is dropped as processed.
