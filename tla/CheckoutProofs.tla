--------------------------- MODULE CheckoutProofs ---------------------------
(***************************************************************************)
(* Proofs about Checkout, for any number of students, dues, checkouts,     *)
(* charges, handlers and interruptions, and any amounts.                   *)
(*                                                                         *)
(* What is paid, credited and recorded is written in one transaction, so   *)
(* that PaymentsAddUp needs little more than that a checkout keeps its     *)
(* payer and dues, and that what a handler was told did come in.  For      *)
(* MoneyIsNoticed, the invariant says of a payment that is not in front of *)
(* an admin yet where it still is: in an event to be processed (MoneyFits).*)
(*                                                                         *)
(* The last part shows that Checkout implements CollectionLifecycle.       *)
(***************************************************************************)
EXTENDS Checkout, FiniteSetTheorems, TLAPS

-----------------------------------------------------------------------------
(* The invariant                                                           *)

Exists(c) == checkout[c].status # "none"

TxnOf == [none |-> "none", pending |-> "pending", underpaid |-> "pending", paid |-> "completed", expired |-> "failed"]

(* A row: no account and no flag before it is there, a payer from then on,  *)
(* and the state of the payer's transaction and of the receipt with the     *)
(* status.                                                                  *)
RowFits(r) ==
    /\ IF r.status = "none" THEN ~r.providerCheckoutId /\ ~r.needsReview ELSE r.userId \in Students
    /\ r.txn = TxnOf[r.status]
    /\ r.receipt <=> r.status = "paid"

(* A payment of this amount came in for c.                                  *)
CameIn(c, amount) == \E g \in Taken(c) : session[c].taken[g] = amount

IsPayment(e) == e.kind \in {"succeeded", "underpaid"}

(* What a handler at x has been told did come in, for a checkout that is    *)
(* there.                                                                   *)
CallFits(x) ==
    /\ x.at \in {"open", "opened", "close", "poll", "apply", "short"} => Exists(x.c)
    /\ x.at = "apply" /\ x.state = "paid" /\ x.amount # None => CameIn(x.c, x.amount)
    /\ x.at = "short" =>
          /\ CameIn(x.c, x.amount)
          /\ x.event # None => x.event \in events /\ x.event.c = x.c /\ x.event.amount = x.amount

(* So did what an event says.                                               *)
EventFits(e) ==
    /\ Exists(e.c)
    /\ IsPayment(e) => e.charge \in Charges /\ session[e.c].taken[e.charge] = e.amount

(* A session is of a checkout that is there, and takes what is transferred. *)
SessionFits(c) ==
    /\ session[c].exists \/ Taken(c) # {} => Exists(c)
    /\ \A g \in Taken(c) : session[c].taken[g] \in Received

(* What PaymentsAddUp needs: the payers of a checkout's dues are its own,   *)
(* and finitely many dues are settled.                                      *)
CreditsInv == CreditsMatchPayments /\ IsFiniteSet(Settled)

(* A payment that no admin has dealt with, of an amount none has.           *)
Novel(c, g) ==
    /\ g \in Taken(c) \ checkout[c].reviewed
    /\ \A f \in checkout[c].reviewed : session[c].taken[f] # session[c].taken[g]

Noticed(c) == checkout[c].status = "paid" \/ checkout[c].needsReview

(* Such a payment was noticed, or its event is still to be processed; an    *)
(* amount on an underpaid checkout came in, and is in front of an admin or  *)
(* was.                                                                     *)
MoneyFits(c) ==
    /\ checkout[c].reviewed \subseteq Taken(c)
    /\ checkout[c].status = "underpaid" /\ checkout[c].receivedKobo # 0 =>
          /\ CameIn(c, checkout[c].receivedKobo)
          /\ checkout[c].needsReview \/ \E f \in checkout[c].reviewed : session[c].taken[f] = checkout[c].receivedKobo
    /\ \A g \in Charges : Novel(c, g) =>
          Noticed(c) \/ \E e \in events \ processed : IsPayment(e) /\ e.c = c /\ e.charge = g

CheckoutInv ==
    /\ TypeOK
    /\ \A c \in Checkouts : RowFits(checkout[c]) /\ SessionFits(c) /\ MoneyFits(c)
    /\ \A h \in Handlers : CallFits(call[h])
    /\ \A e \in events : EventFits(e)
    /\ CreditsInv
    /\ PaidInFull

(* A first attempt opens its account in the window, so that the provider's  *)
(* expiry opens again only what a retry has outlasted.                      *)
FirstAttempt(x) == x.at \in {"open", "opened"} /\ ~x.reused

WindowInv == \A h \in Handlers : FirstAttempt(call[h]) => checkout[call[h].c].age = "open"

-----------------------------------------------------------------------------
(* What handlers, rows, sessions and events are made of                    *)

LEMMA CallPlaces ==
  /\ Idle \in Call /\ Idle.at = "idle"
  /\ \A s \in Students, ds \in SUBSET Dues : [at |-> "create", userId |-> s, dueIds |-> ds] \in Call
  /\ \A c \in Checkouts, b \in BOOLEAN : [at |-> "open", c |-> c, reused |-> b] \in Call
  /\ \A c \in Checkouts, b \in BOOLEAN, g \in Charges \cup {None}, n \in BOOLEAN :
        [at |-> "opened", c |-> c, reused |-> b, charge |-> g, new |-> n] \in Call
  /\ \A c \in Checkouts : [at |-> "close", c |-> c] \in Call
  /\ \A c \in Checkouts, b \in BOOLEAN : [at |-> "poll", c |-> c, late |-> b] \in Call
  /\ \A c \in Checkouts, state \in {"paid", "underpaid", "expired"}, n \in Amount \cup {None} :
        [at |-> "apply", c |-> c, state |-> state, amount |-> n] \in Call
  /\ \A c \in Checkouts, n \in Amount, e \in Event \cup {None} :
        [at |-> "short", c |-> c, amount |-> n, event |-> e] \in Call
<1>1. /\ Idle \in Call /\ Idle.at = "idle"
      /\ \A s \in Students, ds \in SUBSET Dues : [at |-> "create", userId |-> s, dueIds |-> ds] \in Call
      /\ \A c \in Checkouts, b \in BOOLEAN : [at |-> "open", c |-> c, reused |-> b] \in Call
      /\ \A c \in Checkouts : [at |-> "close", c |-> c] \in Call
  BY DEF Call, Idle
<1>2. \A c \in Checkouts, b \in BOOLEAN, g \in Charges \cup {None}, n \in BOOLEAN :
        [at |-> "opened", c |-> c, reused |-> b, charge |-> g, new |-> n] \in Call
  BY DEF Call
<1>3. \A c \in Checkouts, b \in BOOLEAN : [at |-> "poll", c |-> c, late |-> b] \in Call
  BY DEF Call
<1>4. \A c \in Checkouts, state \in {"paid", "underpaid", "expired"}, n \in Amount \cup {None} :
        [at |-> "apply", c |-> c, state |-> state, amount |-> n] \in Call
  BY DEF Call
<1>5. \A c \in Checkouts, n \in Amount, e \in Event \cup {None} :
        [at |-> "short", c |-> c, amount |-> n, event |-> e] \in Call
  BY DEF Call
<1> QED BY <1>1, <1>2, <1>3, <1>4, <1>5

LEMMA CallFields ==
  ASSUME NEW x \in Call
  PROVE  /\ x.at \in {"idle", "create", "open", "opened", "close", "poll", "apply", "short"}
         /\ x.at = "create" => x.userId \in Students /\ x.dueIds \in SUBSET Dues
         /\ x.at \in {"open", "opened", "close", "poll", "apply", "short"} => x.c \in Checkouts
         /\ x.at \in {"open", "opened"} => x.reused \in BOOLEAN
         /\ x.at = "opened" => x.charge \in Charges \cup {None} /\ x.new \in BOOLEAN
         /\ x.at = "poll" => x.late \in BOOLEAN
         /\ x.at = "apply" => x.state \in {"paid", "underpaid", "expired"} /\ x.amount \in Amount \cup {None}
         /\ x.at = "short" => x.amount \in Amount /\ x.event \in Event \cup {None}
  BY DEF Call

LEMMA RowFields ==
  ASSUME NEW r \in Row
  PROVE  /\ r.status \in {"none", "pending", "paid", "expired", "underpaid"} /\ r.userId \in Students \cup {None}
         /\ r.dueIds \in SUBSET Dues /\ r.age \in Ages /\ r.providerCheckoutId \in BOOLEAN
         /\ r.providerChargeId \in Charges \cup {None} /\ r.receivedKobo \in Amount \cup {None}
         /\ r.needsReview \in BOOLEAN /\ r.reviewed \in SUBSET Charges
         /\ r.txn \in {"none", "pending", "completed", "failed"} /\ r.receipt \in BOOLEAN
  BY DEF Row, CheckoutStatus

LEMMA Types ==
  ASSUME CheckoutInv
  PROVE  /\ checkout \in [Checkouts -> Row] /\ duePayment \in [Students \X Dues -> Payers \cup {None}]
         /\ ledger \in LedgerOf(PaymentIds) /\ call \in [Handlers -> Call] /\ session \in [Checkouts -> Session]
         /\ events \subseteq Event /\ processed \subseteq events /\ interrupts \in 0..MaxInterrupts
  BY DEF CheckoutInv, TypeOK

LEMMA Parts ==
  ASSUME CheckoutInv
  PROVE  /\ \A c \in Checkouts : RowFits(checkout[c]) /\ SessionFits(c) /\ MoneyFits(c)
         /\ \A h \in Handlers : CallFits(call[h])
         /\ \A e \in events : EventFits(e)
         /\ CreditsInv /\ PaidInFull
  BY DEF CheckoutInv

LEMMA Moves ==
  ASSUME CheckoutInv, NEW h \in Handlers, NEW x \in Call, Goto(h, x)
  PROVE  call' \in [Handlers -> Call] /\ call'[h] = x /\ \A g \in Handlers \ {h} : call'[g] = call[g]
  BY Types DEF Goto

(* The types of what does not change.                                       *)
LEMMA AmountFacts ==
  /\ \A n \in Amount : n \in Nat /\ n # None
  /\ Received \subseteq Amount /\ Total \in Amount /\ 0 \in Amount
  /\ \A n \in Received : n \in Nat /\ n # 0 /\ n # None
  /\ None \notin Charges /\ None \notin Checkouts /\ Manual \notin Checkouts /\ Manual # None
  BY CheckoutAssumption DEF Amount

-----------------------------------------------------------------------------
(* A handler moves on, and nothing else                                    *)

LEMMA MoveKeeps ==
  ASSUME CheckoutInv, NEW h \in Handlers, NEW x \in Call, Goto(h, x), CallFits(x),
         UNCHANGED <<checkout, duePayment, ledger, session, events, processed>>, interrupts' \in 0..MaxInterrupts
  PROVE  CheckoutInv'
<1>1. call' \in [Handlers -> Call] /\ call'[h] = x /\ \A g \in Handlers \ {h} : call'[g] = call[g]
  BY Moves
<1>2. TypeOK'
  BY <1>1, Types DEF TypeOK
<1>3. \A c \in Checkouts : RowFits(checkout[c])' /\ SessionFits(c)' /\ MoneyFits(c)'
  BY Parts DEF RowFits, SessionFits, Exists, Taken, MoneyFits, CameIn, Novel, Noticed
<1>4. ASSUME NEW g \in Handlers PROVE CallFits(call[g])'
  <2>1. CallFits(call'[g])
    BY <1>1, Parts
  <2> QED BY <2>1 DEF CallFits, Exists, CameIn, Taken
<1>5. \A e \in events' : EventFits(e)'
  BY Parts DEF EventFits, Exists
<1>6. CreditsInv' /\ PaidInFull'
  <2>1. Settled' = Settled /\ \A c \in Checkouts : PaidBy(c)' = PaidBy(c) /\ Taken(c)' = Taken(c)
    BY DEF Settled, PaidBy, Taken
  <2>2. CreditsInv'
    BY <2>1, Parts DEF CreditsInv, CreditsMatchPayments
  <2>3. PaidInFull'
    BY <2>1, Parts DEF PaidInFull
  <2> QED BY <2>2, <2>3
<1> QED BY <1>2, <1>3, <1>4, <1>5, <1>6 DEF CheckoutInv

LEMMA CreateKeeps ==
  ASSUME CheckoutInv, NEW h \in Handlers, NEW s \in Students, NEW ds \in SUBSET Dues \ {{}}, CreateCheckout(h, s, ds)
  PROVE  CheckoutInv'
<1> DEFINE x == [at |-> "create", userId |-> s, dueIds |-> ds]
<1>1. x \in Call /\ x.at = "create"
  BY CallPlaces
<1>2. Goto(h, x) /\ UNCHANGED <<checkout, duePayment, ledger, session, events, processed>> /\ interrupts' = interrupts
  BY DEF CreateCheckout
<1> HIDE DEF x
<1>3. CallFits(x)
  BY <1>1 DEF CallFits
<1> QED BY <1>1, <1>2, <1>3, Types, MoveKeeps

(* A handler that ends here.                                                *)
LEMMA EndKeeps ==
  ASSUME CheckoutInv, NEW h \in Handlers, Goto(h, Idle), interrupts' \in 0..MaxInterrupts,
         UNCHANGED <<checkout, duePayment, ledger, session, events, processed>>
  PROVE  CheckoutInv'
<1>1. CallFits(Idle)
  BY CallPlaces DEF CallFits
<1> QED BY <1>1, CallPlaces, MoveKeeps

LEMMA ReuseKeeps ==
  ASSUME CheckoutInv, NEW h \in Handlers, ReuseCheckout(h)
  PROVE  CheckoutInv'
<1>1. UNCHANGED <<checkout, duePayment, ledger, session, events, processed>> /\ interrupts' \in 0..MaxInterrupts
  BY Types DEF ReuseCheckout
<1>2. CASE Goto(h, Idle)
  BY <1>1, <1>2, EndKeeps
<1>3. CASE ~Goto(h, Idle)
  <2>1. PICK c \in OpenFor(call[h].userId, call[h].dueIds) : Goto(h, [at |-> "open", c |-> c, reused |-> TRUE])
    BY <1>3 DEF ReuseCheckout
  <2> DEFINE x == [at |-> "open", c |-> c, reused |-> TRUE]
  <2>2. c \in Checkouts /\ Exists(c)
    BY DEF OpenFor, Exists
  <2>3. x \in Call /\ x.at = "open" /\ x.c = c /\ Goto(h, x)
    BY <2>1, <2>2, CallPlaces
  <2> HIDE DEF x
  <2>4. CallFits(x)
    BY <2>2, <2>3 DEF CallFits
  <2> QED BY <1>1, <2>3, <2>4, MoveKeeps
<1> QED BY <1>2, <1>3

LEMMA RefuseKeeps ==
  ASSUME CheckoutInv, NEW h \in Handlers, BankRefusesOpening(h)
  PROVE  CheckoutInv'
<1>1. PICK y \in Call : y = call[h]
  BY Types
<1>2. y.at = "open" /\ y.c \in Checkouts /\ Exists(y.c)
  BY <1>1, CallFields, Parts DEF BankRefusesOpening, CallFits
<1> DEFINE x == [at |-> "close", c |-> y.c]
<1>3. x \in Call /\ x.at = "close" /\ x.c = y.c
  BY <1>2, CallPlaces
<1>4. Goto(h, x) /\ UNCHANGED <<checkout, duePayment, ledger, session, events, processed>> /\ interrupts' \in 0..MaxInterrupts
  BY <1>1, Types DEF BankRefusesOpening
<1> HIDE DEF x
<1>5. CallFits(x)
  BY <1>2, <1>3 DEF CallFits
<1> QED BY <1>3, <1>4, <1>5, MoveKeeps

LEMMA ReconcileKeeps ==
  ASSUME CheckoutInv, NEW h \in Handlers, NEW c \in Checkouts, NEW byJob \in BOOLEAN, StartReconcile(h, c, byJob)
  PROVE  CheckoutInv'
<1> DEFINE late == byJob /\ checkout[c].age = "late"
           poll == [at |-> "poll", c |-> c, late |-> late]
           close == [at |-> "close", c |-> c]
<1>1. late \in BOOLEAN
  OBVIOUS
<1>2. Exists(c) /\ UNCHANGED <<checkout, duePayment, ledger, session, events, processed>> /\ interrupts' \in 0..MaxInterrupts
  BY Types DEF StartReconcile, Exists
<1>3. Goto(h, poll) \/ Goto(h, close)
  BY DEF StartReconcile
<1> HIDE DEF late
<1>4. poll \in Call /\ poll.at = "poll" /\ poll.c = c /\ close \in Call /\ close.at = "close" /\ close.c = c
  BY <1>1, CallPlaces
<1> HIDE DEF poll, close
<1>5. CallFits(poll) /\ CallFits(close)
  BY <1>2, <1>4 DEF CallFits
<1> QED BY <1>2, <1>3, <1>4, <1>5, MoveKeeps

LEMMA ReportKeeps ==
  ASSUME CheckoutInv, NEW h \in Handlers, BankReports(h)
  PROVE  CheckoutInv'
<1>1. PICK y \in Call : y = call[h]
  BY Types
<1>2. y.at = "poll" /\ y.c \in Checkouts /\ Exists(y.c)
  BY <1>1, CallFields, Parts DEF BankReports, CallFits
<1>3. UNCHANGED <<checkout, duePayment, ledger, session, events, processed>> /\ interrupts' \in 0..MaxInterrupts
  BY Types DEF BankReports
<1>4. CASE Goto(h, Idle)
  BY <1>3, <1>4, EndKeeps
<1>5. CASE ~Goto(h, Idle)
  <2>1. PICK state, amount :
           /\ state \in {"paid", "underpaid", "expired"}
           /\ Polled(h, state, amount)
           /\ amount = None \/ (state = "paid" /\ \E e \in Events(y.c, "succeeded") : amount = e.amount)
    <3>1. CASE Events(y.c, "succeeded") # {}
      <4>1. PICK amount \in {e.amount : e \in Events(y.c, "succeeded")} \cup {None} : Polled(h, "paid", amount)
        BY <1>1, <3>1 DEF BankReports
      <4> QED BY <4>1
    <3>2. CASE Events(y.c, "succeeded") = {}
      <4>1. Polled(h, "underpaid", None) \/ Polled(h, "expired", None)
        BY <1>1, <1>5, <3>2 DEF BankReports
      <4> QED BY <4>1
    <3> QED BY <3>1, <3>2
  <2>2. amount \in Amount \cup {None} /\ (amount # None => CameIn(y.c, amount))
    <3>1. CASE amount = None
      BY <3>1
    <3>2. CASE amount # None
      <4>1. PICK e \in Events(y.c, "succeeded") : amount = e.amount
        BY <2>1, <3>2
      <4>2. e \in events /\ e.c = y.c /\ IsPayment(e)
        BY DEF Events, IsPayment
      <4>3. amount \in Amount
        BY <4>1, <4>2, Types DEF Event
      <4>4. e.charge \in Charges /\ session[y.c].taken[e.charge] = amount
        BY <4>1, <4>2, Parts DEF EventFits
      <4> QED BY <3>2, <4>3, <4>4 DEF CameIn, Taken
    <3> QED BY <3>1, <3>2
  <2> DEFINE x == [at |-> "apply", c |-> y.c, state |-> state, amount |-> amount]
  <2>3. x \in Call /\ x.at = "apply" /\ x.c = y.c /\ x.state = state /\ x.amount = amount
    BY <1>2, <2>1, <2>2, CallPlaces
  <2>4. Goto(h, x)
    BY <1>1, <2>1 DEF Polled
  <2> HIDE DEF x
  <2>5. CallFits(x)
    BY <1>2, <2>2, <2>3 DEF CallFits
  <2> QED BY <1>3, <2>3, <2>4, <2>5, MoveKeeps
<1> QED BY <1>4, <1>5

LEMMA InterruptKeeps ==
  ASSUME CheckoutInv, NEW h \in Handlers, Interrupt(h)
  PROVE  CheckoutInv'
<1>1. interrupts' \in 0..MaxInterrupts
  BY Types, CheckoutAssumption DEF Interrupt
<1> QED BY <1>1, EndKeeps DEF Interrupt

-----------------------------------------------------------------------------
(* The provider moves                                                      *)

(* A session changes, but for what it has taken.                            *)
LEMMA SessionKeeps ==
  ASSUME CheckoutInv, UNCHANGED <<checkout, duePayment, ledger, processed, interrupts>>,
         session' \in [Checkouts -> Session], \A b \in Checkouts : session'[b].taken = session[b].taken,
         \A b \in Checkouts : session'[b].exists => Exists(b),
         events \subseteq events', events' \subseteq Event,
         \A e \in events' \ events : Exists(e.c) /\ ~IsPayment(e),
         call' \in [Handlers -> Call], \A h \in Handlers : CallFits(call'[h])
  PROVE  CheckoutInv'
<1>1. TypeOK'
  BY Types DEF TypeOK
<1>2. \A c \in Checkouts : Taken(c)' = Taken(c) /\ \A g \in Charges : session'[c].taken[g] = session[c].taken[g]
  BY DEF Taken
<1>3. ASSUME NEW c \in Checkouts PROVE RowFits(checkout[c])' /\ SessionFits(c)'
  <2>1. RowFits(checkout[c]) /\ SessionFits(c)
    BY Parts
  <2>2. \A g \in Taken(c) : g \in Charges
    BY DEF Taken
  <2> QED BY <1>2, <2>1, <2>2 DEF RowFits, SessionFits, Exists
<1>4. ASSUME NEW c \in Checkouts PROVE MoneyFits(c)'
  <2>1. MoneyFits(c) /\ \A g \in Taken(c) \cup checkout[c].reviewed : g \in Charges
    BY Parts, Types, RowFields DEF Taken
  <2>2. \A n : CameIn(c, n) => \E g \in Taken(c)' : session'[c].taken[g] = n
    BY <1>2, <2>1 DEF CameIn
  <2>3. \A g \in Charges : Novel(c, g)' => Novel(c, g)
    BY <1>2, <2>1 DEF Novel
  <2> QED BY <1>2, <2>1, <2>2, <2>3 DEF MoneyFits, Noticed, CameIn
<1>5. ASSUME NEW h \in Handlers PROVE CallFits(call[h])'
  <2>1. CallFits(call'[h]) /\ call'[h] \in Call
    OBVIOUS
  <2>2. \A b \in Checkouts : \A n : CameIn(b, n) => \E g \in Taken(b)' : session'[b].taken[g] = n
    BY <1>2 DEF CameIn, Taken
  <2>3. call'[h].at \in {"apply", "short"} => call'[h].c \in Checkouts
    BY <2>1, CallFields
  <2> QED BY <2>1, <2>2, <2>3 DEF CallFits, Exists, CameIn
<1>6. ASSUME NEW e \in events' PROVE EventFits(e)'
  <2>1. e.c \in Checkouts
    BY DEF Event
  <2> QED BY <1>2, <2>1, Parts DEF EventFits, Exists, IsPayment
<1>7. CreditsInv'
  BY Parts DEF CreditsInv, CreditsMatchPayments, PaidBy, Settled
<1>8. PaidInFull'
  <2>1. \A c \in Checkouts : PaidBy(c)' = PaidBy(c) /\ checkout[c].reviewed \subseteq Charges /\ Taken(c) \subseteq Charges
    BY Types, RowFields DEF PaidBy, Taken
  <2> QED BY <1>2, <2>1, Parts DEF PaidInFull
<1> QED BY <1>1, <1>3, <1>4, <1>5, <1>6, <1>7, <1>8 DEF CheckoutInv

LEMMA OpensKeeps ==
  ASSUME CheckoutInv, NEW h \in Handlers, NEW g \in Charges \cup {None}, BankOpens(h, g)
  PROVE  CheckoutInv'
<1>1. PICK y \in Call : y = call[h]
  BY Types
<1>2. y.at = "open" /\ y.c \in Checkouts /\ Exists(y.c) /\ y.reused \in BOOLEAN
  BY <1>1, CallFields, Parts DEF BankOpens, CallFits
<1> DEFINE new == ~session[y.c].exists
           x == [at |-> "opened", c |-> y.c, reused |-> y.reused, charge |-> g, new |-> new]
<1>3. /\ session' = [session EXCEPT ![y.c].exists = TRUE, ![y.c].charge = g] /\ Goto(h, x)
      /\ UNCHANGED <<checkout, duePayment, ledger, events, processed, interrupts>>
  BY <1>1 DEF BankOpens
<1>4. new \in BOOLEAN
  OBVIOUS
<1> HIDE DEF new
<1>5. x \in Call /\ x.at = "opened" /\ x.c = y.c
  BY <1>2, <1>4, CallPlaces
<1> HIDE DEF x
<1>6. CallFits(x)
  BY <1>2, <1>5 DEF CallFits
<1>7. session' \in [Checkouts -> Session] /\ \A b \in Checkouts : session'[b].taken = session[b].taken
  <2>1. session[y.c] \in Session /\ g \in Charges \cup {None}
    BY <1>2, Types
  <2> DEFINE opened == [session[y.c] EXCEPT !.exists = TRUE, !.charge = g]
  <2>2. opened \in Session /\ opened.taken = session[y.c].taken
    BY <2>1 DEF Session
  <2>3. session' = [session EXCEPT ![y.c] = opened]
    BY <1>2, <1>3, Types
  <2> HIDE DEF opened
  <2> QED BY <1>2, <2>2, <2>3, Types
<1>8. \A b \in Checkouts : session'[b].exists => Exists(b)
  <2>1. \A b \in Checkouts \ {y.c} : session'[b] = session[b]
    BY <1>3, Types
  <2> QED BY <1>2, <2>1, Parts DEF SessionFits
<1>9. call' \in [Handlers -> Call] /\ \A k \in Handlers : CallFits(call'[k])
  BY <1>3, <1>5, <1>6, Moves, Parts
<1> QED BY <1>3, <1>7, <1>8, <1>9, Types, SessionKeeps

LEMMA ExpiresKeeps ==
  ASSUME CheckoutInv, NEW c \in Checkouts, BankExpires(c)
  PROVE  CheckoutInv'
<1> DEFINE e == [kind |-> "closed", c |-> c, charge |-> None, amount |-> 0]
<1>1. /\ session[c].exists /\ session' = [session EXCEPT ![c].expired = TRUE] /\ events' = events \cup {e}
      /\ UNCHANGED <<checkout, duePayment, ledger, call, processed, interrupts>>
  BY DEF BankExpires, Emit
<1>2. e \in Event /\ e.c = c /\ ~IsPayment(e)
  BY AmountFacts DEF Event, IsPayment
<1> HIDE DEF e
<1>3. Exists(c)
  BY <1>1, Parts DEF SessionFits
<1>4. session' \in [Checkouts -> Session] /\ \A b \in Checkouts : session'[b].taken = session[b].taken
  BY <1>1, Types DEF Session
<1>5. \A b \in Checkouts : session'[b].exists => Exists(b)
  <2>1. \A b \in Checkouts \ {c} : session'[b] = session[b]
    BY <1>1, Types
  <2> QED BY <1>3, <2>1, Parts DEF SessionFits
<1>6. \A h \in Handlers : CallFits(call'[h])
  BY <1>1, Parts
<1> QED BY <1>1, <1>2, <1>3, <1>4, <1>5, <1>6, Types, SessionKeeps

(* A payment comes in, with an event of its own.                            *)
LEMMA CollectsKeeps ==
  ASSUME CheckoutInv, NEW c \in Checkouts, NEW g \in Charges, NEW amount \in Received, BankCollects(c, g, amount)
  PROVE  CheckoutInv'
<1>1. PICK kind \in {"succeeded", "underpaid"} :
        events' = events \cup {[kind |-> kind, c |-> c, charge |-> g, amount |-> amount]}
  BY DEF BankCollects, Emit
<1> DEFINE e == [kind |-> kind, c |-> c, charge |-> g, amount |-> amount]
<1>2. /\ checkout[c].providerCheckoutId /\ session[c].taken[g] = None /\ session' = [session EXCEPT ![c].taken[g] = amount]
      /\ UNCHANGED <<checkout, duePayment, ledger, call, processed, interrupts>>
  BY DEF BankCollects
<1>3. e \in Event /\ e.c = c /\ e.charge = g /\ e.amount = amount /\ IsPayment(e) /\ events' = events \cup {e}
  BY <1>1, AmountFacts DEF Event, IsPayment
<1> HIDE DEF e
<1>4. Exists(c)
  BY <1>2, Parts DEF RowFits, Exists
<1>5. amount \in Amount /\ amount # None
  BY AmountFacts
<1>6. /\ session' \in [Checkouts -> Session]
      /\ \A b \in Checkouts : session'[b].exists = session[b].exists
      /\ \A b \in Checkouts, f \in Charges : session'[b].taken[f] = IF b = c /\ f = g THEN amount ELSE session[b].taken[f]
  <2>1. session[c] \in Session
    BY Types
  <2> DEFINE paid == [session[c] EXCEPT !.taken[g] = amount]
  <2>2. /\ paid \in Session /\ paid.exists = session[c].exists
        /\ \A f \in Charges : paid.taken[f] = IF f = g THEN amount ELSE session[c].taken[f]
    BY <1>5, <2>1 DEF Session
  <2>3. session' = [session EXCEPT ![c] = paid]
    BY <1>2, Types
  <2> HIDE DEF paid
  <2>4. \A b \in Checkouts : session'[b] = IF b = c THEN paid ELSE session[b]
    BY <2>3, Types
  <2>5. session' \in [Checkouts -> Session]
    BY <2>2, <2>3, Types
  <2> QED BY <2>2, <2>4, <2>5
<1>7. \A b \in Checkouts : Taken(b)' = IF b = c THEN Taken(b) \cup {g} ELSE Taken(b)
  BY <1>2, <1>5, <1>6 DEF Taken
<1>8. \A b \in Checkouts : Taken(b) \subseteq Charges /\ checkout[b].reviewed \subseteq Charges /\ g \notin Taken(c)
  BY <1>2, Types, RowFields DEF Taken
<1>9. \A b \in Checkouts : \A f \in Taken(b) : session'[b].taken[f] = session[b].taken[f] /\ f \in Taken(b)'
  BY <1>6, <1>7, <1>8
<1>10. TypeOK'
  BY <1>2, <1>3, <1>6, Types DEF TypeOK
<1>11. ASSUME NEW b \in Checkouts PROVE RowFits(checkout[b])' /\ SessionFits(b)'
  <2>1. RowFits(checkout[b]) /\ SessionFits(b)
    BY Parts
  <2>2. \A f \in Taken(b)' : session'[b].taken[f] \in Received
    BY <1>6, <1>7, <1>8, <2>1 DEF SessionFits
  <2>3. session'[b].exists \/ Taken(b)' # {} => Exists(b)
    BY <1>4, <1>6, <1>7, <2>1 DEF SessionFits
  <2> QED BY <1>2, <2>1, <2>2, <2>3 DEF RowFits, SessionFits, Exists
<1>12. \A b \in Checkouts : \A n : CameIn(b, n) => \E f \in Taken(b)' : session'[b].taken[f] = n
  BY <1>9 DEF CameIn
<1>13. ASSUME NEW b \in Checkouts PROVE MoneyFits(b)'
  <2>1. MoneyFits(b)
    BY Parts
  <2>2. checkout[b].reviewed \subseteq Taken(b)
    BY <2>1 DEF MoneyFits
  <2>3. \A f \in checkout[b].reviewed : session'[b].taken[f] = session[b].taken[f]
    BY <1>9, <2>2
  <2>4. e \notin events
    BY <1>2, <1>3, <1>5, Parts DEF EventFits
  <2>5. ASSUME NEW f \in Charges, Novel(b, f)'
        PROVE  Noticed(b)' \/ \E d \in events' \ processed' : IsPayment(d) /\ d.c = b /\ d.charge = f
    <3>1. CASE b = c /\ f = g
      BY <1>2, <1>3, <2>4, <3>1, Types
    <3>2. CASE ~(b = c /\ f = g)
      <4>1. f \in Taken(b) /\ session'[b].taken[f] = session[b].taken[f]
        BY <1>6, <1>7, <2>5, <3>2 DEF Novel
      <4>2. Novel(b, f)
        BY <1>2, <2>3, <2>5, <4>1 DEF Novel
      <4> QED BY <1>2, <1>3, <2>1, <4>2 DEF MoneyFits, Noticed
    <3> QED BY <3>1, <3>2
  <2>6. checkout[b].reviewed \subseteq Taken(b)'
    BY <1>9, <2>2
  <2>7. checkout[b].status = "underpaid" /\ checkout[b].receivedKobo # 0 =>
          /\ CameIn(b, checkout[b].receivedKobo)
          /\ checkout[b].needsReview \/ \E f \in checkout[b].reviewed : session'[b].taken[f] = checkout[b].receivedKobo
    BY <2>1, <2>3 DEF MoneyFits
  <2> QED BY <1>2, <1>12, <2>5, <2>6, <2>7 DEF MoneyFits, CameIn, IsPayment
<1>14. ASSUME NEW h \in Handlers PROVE CallFits(call[h])'
  <2>1. CallFits(call[h]) /\ call[h] \in Call
    BY Parts, Types
  <2>2. call[h].at \in {"apply", "short"} => call[h].c \in Checkouts
    BY <2>1, CallFields
  <2> QED BY <1>2, <1>3, <1>12, <2>1, <2>2, SMTT(60) DEF CallFits, Exists, CameIn
<1>15. ASSUME NEW d \in events' PROVE EventFits(d)'
  <2>1. CASE d \in events
    <3>1. EventFits(d) /\ d.c \in Checkouts
      BY <2>1, Parts, Types DEF Event
    <3>2. IsPayment(d) => d.charge \in Taken(d.c)
      BY <2>1, <3>1, Types, AmountFacts DEF EventFits, Taken, Event
    <3> QED BY <1>2, <1>9, <3>1, <3>2 DEF EventFits, Exists, IsPayment
  <2>2. CASE d = e
    BY <1>2, <1>3, <1>4, <1>6, <2>2 DEF EventFits, Exists
  <2> QED BY <1>3, <2>1, <2>2
<1>16. CreditsInv'
  BY <1>2, Parts DEF CreditsInv, CreditsMatchPayments, PaidBy, Settled
<1>17. PaidInFull'
  <2>1. ASSUME NEW b \in Checkouts PROVE PaidBy(b)' = PaidBy(b) /\ checkout[b].reviewed \subseteq Taken(b)
    BY <1>2, Parts DEF PaidBy, MoneyFits
  <2> QED BY <1>2, <1>9, <2>1, Parts DEF PaidInFull
<1> QED BY <1>10, <1>11, <1>13, <1>14, <1>15, <1>16, <1>17 DEF CheckoutInv

-----------------------------------------------------------------------------
(* One row changes: an outcome, an account, an admin's word, or time        *)

(* The status decides the rest.                                             *)
LEMMA TxnFollows ==
  ASSUME NEW r \in Row, RowFits(r)
  PROVE  /\ r.txn = "completed" <=> r.status = "paid"
         /\ r.receipt <=> r.status = "paid"
         /\ r.txn = "failed" <=> r.status = "expired"
         /\ r.status = "pending" => r.txn = "pending"
  BY RowFields DEF RowFits, TxnOf

(* A paid row stays paid by the same money, a flag goes only when an admin  *)
(* takes it away, and an event is done with only if its payment is noticed. *)
LEMMA RowKeeps ==
  ASSUME CheckoutInv, NEW c \in Checkouts, NEW r \in Row, checkout' = [checkout EXCEPT ![c] = r],
         UNCHANGED <<duePayment, ledger, session, events, interrupts>>,
         call' \in [Handlers -> Call],
         \A h \in Handlers : CallFits(call'[h]) \/ (call'[h].at = "open" /\ call'[h].c = c),
         RowFits(r), r.status # "none",
         Exists(c) => r.userId = checkout[c].userId /\ r.dueIds = checkout[c].dueIds,
         r.status = "paid" <=> checkout[c].status = "paid",
         r.status = "paid" => r.receivedKobo = checkout[c].receivedKobo,
         \/ r.reviewed = Taken(c)
         \/ r.reviewed = checkout[c].reviewed /\ (checkout[c].needsReview => r.needsReview \/ r.status = "paid")
                                              /\ (checkout[c].needsReview /\ r.status = "paid" => r.needsReview),
         r.status = "underpaid" /\ r.receivedKobo # 0 =>
            /\ CameIn(c, r.receivedKobo)
            /\ r.needsReview \/ \E f \in r.reviewed : session[c].taken[f] = r.receivedKobo,
         processed \subseteq processed', processed' \subseteq events,
         \A e \in processed' \ processed : e.c = c /\ (r.status = "paid" \/ r.needsReview \/ ~IsPayment(e) \/ ~Novel(c, e.charge))
  PROVE  CheckoutInv'
<1>1. checkout' \in [Checkouts -> Row] /\ checkout'[c] = r /\ \A b \in Checkouts \ {c} : checkout'[b] = checkout[b]
  BY Types
<1>2. TypeOK'
  BY <1>1, Types DEF TypeOK
<1>3. \A b \in Checkouts : Exists(b) => Exists(b)'
  BY <1>1 DEF Exists
<1>4. Exists(c)'
  BY <1>1 DEF Exists
<1>5. \A b \in Checkouts : Taken(b)' = Taken(b) /\ PaidBy(b)' = PaidBy(b)
  BY DEF Taken, PaidBy
<1>6. \A b \in Checkouts : \A n : CameIn(b, n)' <=> CameIn(b, n)
  BY <1>5 DEF CameIn
<1>7. ASSUME NEW b \in Checkouts PROVE RowFits(checkout[b])' /\ SessionFits(b)'
  <2>1. RowFits(checkout'[b])
    BY <1>1, Parts
  <2>2. SessionFits(b)'
    BY <1>3, <1>5, Parts DEF SessionFits
  <2> QED BY <2>1, <2>2 DEF RowFits
<1>8. ASSUME NEW b \in Checkouts PROVE MoneyFits(b)'
  <2>1. MoneyFits(b)
    BY Parts
  <2>2. CASE b # c
    <3>1. checkout'[b] = checkout[b]
      BY <1>1, <2>2
    <3>2. \A g \in Charges : Novel(b, g)' => Novel(b, g)
      BY <1>5, <3>1 DEF Novel
    <3>3. \A e \in events \ processed : e.c = b => e \in events' \ processed'
      BY <2>2
    <3> QED BY <1>5, <1>6, <2>1, <3>1, <3>2, <3>3 DEF MoneyFits, Noticed, IsPayment
  <2>3. CASE b = c
    <3>1. r.reviewed \subseteq Taken(c)
      BY <2>1, <2>3 DEF MoneyFits
    <3>2. ASSUME NEW g \in Charges, Novel(c, g)'
          PROVE  Noticed(c)' \/ \E e \in events \ processed' : IsPayment(e) /\ e.c = c /\ e.charge = g
      <4>1. g \in Taken(c) \ r.reviewed /\ \A f \in r.reviewed : session[c].taken[f] # session[c].taken[g]
        BY <1>1, <1>5, <3>2 DEF Novel
      <4>2. r.reviewed = checkout[c].reviewed
        BY <4>1
      <4>3. Novel(c, g)
        BY <4>1, <4>2 DEF Novel
      <4>4. CASE Noticed(c)
        <5>1. r.status = "paid" \/ r.needsReview
          BY <4>1, <4>4 DEF Noticed
        <5> QED BY <1>1, <5>1 DEF Noticed
      <4>5. CASE ~Noticed(c)
        <5>1. PICK e \in events \ processed : IsPayment(e) /\ e.c = c /\ e.charge = g
          BY <2>1, <2>3, <4>3, <4>5 DEF MoneyFits
        <5>2. CASE e \in processed'
          BY <1>1, <4>3, <5>1, <5>2 DEF Noticed
        <5> QED BY <5>1, <5>2
      <4> QED BY <4>4, <4>5
    <3> QED BY <1>1, <1>5, <1>6, <2>3, <3>1, <3>2 DEF MoneyFits, IsPayment
  <2> QED BY <2>2, <2>3
<1>9. ASSUME NEW h \in Handlers PROVE CallFits(call[h])'
  <2>1. CASE CallFits(call'[h])
    <3>1. call'[h].at \in {"open", "opened", "close", "poll", "apply", "short"} => call'[h].c \in Checkouts
      BY CallFields
    <3> QED BY <1>3, <1>6, <2>1, <3>1 DEF CallFits
  <2>2. CASE call'[h].at = "open" /\ call'[h].c = c
    BY <1>4, <2>2 DEF CallFits
  <2> QED BY <2>1, <2>2
<1>10. ASSUME NEW e \in events' PROVE EventFits(e)'
  BY <1>3, Parts, Types DEF EventFits, IsPayment, Event
<1>11. CreditsInv'
  <2>1. Settled' = Settled
    BY DEF Settled
  <2>2. ASSUME NEW b \in Checkouts, NEW sd \in PaidBy(b)
        PROVE  checkout'[b].status = "paid" /\ checkout'[b].userId = sd[1] /\ sd[2] \in checkout'[b].dueIds
    BY <1>1, Parts DEF CreditsInv, CreditsMatchPayments, Exists
  <2> QED BY <1>5, <2>1, <2>2, Parts DEF CreditsInv, CreditsMatchPayments
<1>12. PaidInFull'
  <2>1. ASSUME NEW b \in Checkouts
        PROVE  /\ checkout'[b].txn = "completed" <=> checkout'[b].status = "paid"
               /\ checkout'[b].receipt <=> checkout'[b].status = "paid"
               /\ checkout'[b].txn = "failed" <=> checkout'[b].status = "expired"
    <3>1. checkout'[b] \in Row /\ RowFits(checkout'[b])
      BY <1>1, Parts
    <3> QED BY <3>1, TxnFollows
  <2>2. ASSUME NEW b \in Checkouts, checkout'[b].status = "paid"
        PROVE  /\ \E g \in Taken(b) : session[b].taken[g] >= Total
               /\ \A d \in checkout'[b].dueIds : duePayment[<<checkout'[b].userId, d>>] # None
               /\ \/ checkout'[b].needsReview
                  \/ \E g \in checkout'[b].reviewed : session[b].taken[g] >= Total
                  \/ /\ checkout'[b].receivedKobo = Total
                     /\ Cardinality(PaidBy(b)) = Cardinality(checkout'[b].dueIds)
    <3>1. checkout[b].status = "paid" /\ checkout'[b].userId = checkout[b].userId /\ checkout'[b].dueIds = checkout[b].dueIds
          /\ checkout'[b].receivedKobo = checkout[b].receivedKobo
      BY <1>1, <2>2 DEF Exists
    <3>2. /\ \E g \in Taken(b) : session[b].taken[g] >= Total
          /\ \A d \in checkout[b].dueIds : duePayment[<<checkout[b].userId, d>>] # None
          /\ \/ checkout[b].needsReview
             \/ \E g \in checkout[b].reviewed : session[b].taken[g] >= Total
             \/ /\ checkout[b].receivedKobo = Total
                /\ Cardinality(PaidBy(b)) = Cardinality(checkout[b].dueIds)
      BY <3>1, Parts DEF PaidInFull
    <3>3. CASE b # c
      BY <1>1, <3>2, <3>3
    <3>4. CASE b = c
      BY <1>1, <2>2, <3>1, <3>2, <3>4
    <3> QED BY <3>3, <3>4
  <2> QED BY <1>5, <2>1, <2>2 DEF PaidInFull
<1> QED BY <1>2, <1>7, <1>8, <1>9, <1>10, <1>11, <1>12 DEF CheckoutInv

(* The handler is done, and so is the event it was processing, if any.      *)
LEMMA Finishes ==
  ASSUME CheckoutInv, NEW h \in Handlers, NEW e \in events \cup {None}, Finish(h, e)
  PROVE  /\ call' \in [Handlers -> Call] /\ \A k \in Handlers : CallFits(call'[k])
         /\ processed \subseteq processed' /\ processed' \subseteq events
         /\ \A d \in processed' \ processed : e # None /\ d = e
<1>1. Goto(h, Idle) /\ processed' = IF e = None THEN processed ELSE processed \cup {e}
  BY DEF Finish
<1>2. CallFits(Idle)
  BY CallPlaces DEF CallFits
<1>3. call' \in [Handlers -> Call] /\ \A k \in Handlers : CallFits(call'[k])
  BY <1>1, <1>2, CallPlaces, Moves, Parts
<1> QED BY <1>1, <1>3, Types

(* An amount recorded as short came in, or is written as 0; the event that  *)
(* says so, if any, is of that amount.                                      *)
LEMMA UnderpaidKeeps ==
  ASSUME CheckoutInv, NEW h \in Handlers, NEW c \in Checkouts, Exists(c), NEW amount \in Amount,
         amount # 0 => CameIn(c, amount),
         NEW e \in events \cup {None}, e # None => e.c = c /\ e.amount = amount,
         MarkUnderpaid(h, c, amount, e), UNCHANGED <<session, events, interrupts>>
  PROVE  CheckoutInv'
<1>1. UNCHANGED <<duePayment, ledger, session, events, interrupts>> /\ Finish(h, e)
  BY DEF MarkUnderpaid
<1>2. checkout[c] \in Row /\ RowFits(checkout[c]) /\ checkout[c].status # "none"
  BY Types, Parts DEF Exists
<1>a. /\ processed \subseteq processed' /\ processed' \subseteq events
      /\ call' \in [Handlers -> Call] /\ \A k \in Handlers : CallFits(call'[k])
      /\ \A d \in processed' \ processed : d.c = c
  BY <1>1, Finishes
<1> DEFINE short == [checkout[c] EXCEPT !.status = "underpaid", !.receivedKobo = amount, !.needsReview = TRUE]
           noted == [checkout[c] EXCEPT !.receivedKobo = amount, !.needsReview = TRUE]
<1>3. CASE checkout[c].status = "pending"
  <2>1. checkout' = [checkout EXCEPT ![c] = short]
    BY <1>3, Types DEF MarkUnderpaid, CanTransitionCheckout, CHECKOUT_TRANSITIONS
  <2>2. /\ short \in Row /\ short.status = "underpaid" /\ short.receivedKobo = amount /\ short.needsReview = TRUE
        /\ short.userId = checkout[c].userId /\ short.dueIds = checkout[c].dueIds /\ short.reviewed = checkout[c].reviewed
        /\ short.txn = checkout[c].txn /\ short.receipt = checkout[c].receipt
    BY <1>2 DEF Row, CheckoutStatus
  <2> HIDE DEF short
  <2>3. RowFits(short)
    BY <1>2, <1>3, <2>2 DEF RowFits, TxnOf
  <2> QED BY <1>1, <1>2, <1>a, <1>3, <2>1, <2>2, <2>3, RowKeeps
<1>4. CASE checkout[c].status \in {"expired", "underpaid"} /\ ~(checkout[c].status = "underpaid" /\ checkout[c].receivedKobo = amount)
  <2>1. checkout' = [checkout EXCEPT ![c] = noted]
    BY <1>4, Types DEF MarkUnderpaid, CanTransitionCheckout, CHECKOUT_TRANSITIONS
  <2>2. /\ noted \in Row /\ noted.status = checkout[c].status /\ noted.receivedKobo = amount /\ noted.needsReview = TRUE
        /\ noted.userId = checkout[c].userId /\ noted.dueIds = checkout[c].dueIds /\ noted.reviewed = checkout[c].reviewed
        /\ noted.txn = checkout[c].txn /\ noted.receipt = checkout[c].receipt
    BY <1>2 DEF Row
  <2> HIDE DEF noted
  <2>3. RowFits(noted)
    BY <1>2, <1>4, <2>2 DEF RowFits
  <2> QED BY <1>1, <1>2, <1>a, <1>4, <2>1, <2>2, <2>3, RowKeeps
<1>5. CASE checkout[c].status = "paid" \/ (checkout[c].status = "underpaid" /\ checkout[c].receivedKobo = amount)
  <2>1. checkout' = [checkout EXCEPT ![c] = checkout[c]]
    BY <1>5, Types DEF MarkUnderpaid, CanTransitionCheckout, CHECKOUT_TRANSITIONS
  <2>2. MoneyFits(c)
    BY Parts
  <2>3. ASSUME e # None, IsPayment(e), checkout[c].status # "paid"
        PROVE  checkout[c].needsReview \/ ~Novel(c, e.charge)
    <3>1. e.charge \in Charges /\ session[c].taken[e.charge] = amount /\ SessionFits(c)
      BY <2>3, Parts DEF EventFits
    <3>2. amount # 0
      BY <2>3, <3>1, AmountFacts, Types DEF SessionFits, Taken
    <3>3. checkout[c].needsReview \/ \E f \in checkout[c].reviewed : session[c].taken[f] = amount
      BY <1>5, <2>2, <2>3, <3>2 DEF MoneyFits
    <3> QED BY <3>1, <3>3 DEF Novel
  <2>4. checkout[c].status = "underpaid" /\ checkout[c].receivedKobo # 0 =>
          /\ CameIn(c, checkout[c].receivedKobo)
          /\ checkout[c].needsReview \/ \E f \in checkout[c].reviewed : session[c].taken[f] = checkout[c].receivedKobo
    BY <2>2 DEF MoneyFits
  <2>5. /\ processed \subseteq processed' /\ processed' \subseteq events
        /\ call' \in [Handlers -> Call] /\ \A k \in Handlers : CallFits(call'[k])
        /\ \A d \in processed' \ processed : e # None /\ d = e
    BY <1>1, Finishes
  <2>6. \A d \in processed' \ processed : d.c = c /\ (\/ checkout[c].status = "paid" \/ checkout[c].needsReview
                                                     \/ ~IsPayment(d) \/ ~Novel(c, d.charge))
    BY <2>3, <2>5
  <2> QED BY <1>1, <1>2, <2>1, <2>4, <2>5, <2>6, RowKeeps
<1>6. checkout[c].status \in {"pending", "paid", "expired", "underpaid"}
  BY <1>2, RowFields
<1> QED BY <1>3, <1>4, <1>5, <1>6

LEMMA ExpireKeeps ==
  ASSUME CheckoutInv, NEW h \in Handlers, NEW c \in Checkouts, Exists(c),
         NEW e \in events \cup {None}, e # None => e.c = c /\ ~IsPayment(e),
         ExpireCheckout(h, c, e), UNCHANGED <<session, events, interrupts>>
  PROVE  CheckoutInv'
<1>1. UNCHANGED <<duePayment, ledger, session, events, interrupts>> /\ Finish(h, e)
  BY DEF ExpireCheckout
<1>2. checkout[c] \in Row /\ RowFits(checkout[c]) /\ checkout[c].status # "none" /\ MoneyFits(c)
  BY Types, Parts DEF Exists
<1>3. /\ processed \subseteq processed' /\ processed' \subseteq events
      /\ call' \in [Handlers -> Call] /\ \A k \in Handlers : CallFits(call'[k])
      /\ \A d \in processed' \ processed : d.c = c /\ ~IsPayment(d)
  BY <1>1, Finishes
<1>4. CASE checkout[c].status = "pending"
  <2> DEFINE r == [checkout[c] EXCEPT !.status = "expired", !.txn = "failed"]
  <2>1. checkout' = [checkout EXCEPT ![c] = r]
    BY <1>2, <1>4, TxnFollows, Types DEF ExpireCheckout, CanTransitionCheckout, CHECKOUT_TRANSITIONS
  <2>2. /\ r \in Row /\ r.status = "expired" /\ r.receivedKobo = checkout[c].receivedKobo /\ r.needsReview = checkout[c].needsReview
        /\ r.userId = checkout[c].userId /\ r.dueIds = checkout[c].dueIds /\ r.reviewed = checkout[c].reviewed
        /\ r.txn = "failed" /\ r.receipt = checkout[c].receipt
    BY <1>2 DEF Row, CheckoutStatus
  <2> HIDE DEF r
  <2>3. RowFits(r)
    BY <1>2, <1>4, <2>2 DEF RowFits, TxnOf
  <2> QED BY <1>1, <1>2, <1>3, <1>4, <2>1, <2>2, <2>3, RowKeeps
<1>5. CASE checkout[c].status # "pending"
  <2>1. checkout' = [checkout EXCEPT ![c] = checkout[c]]
    BY <1>5, Types DEF ExpireCheckout, CanTransitionCheckout, CHECKOUT_TRANSITIONS
  <2>2. checkout[c].status = "underpaid" /\ checkout[c].receivedKobo # 0 =>
          /\ CameIn(c, checkout[c].receivedKobo)
          /\ checkout[c].needsReview \/ \E f \in checkout[c].reviewed : session[c].taken[f] = checkout[c].receivedKobo
    BY <1>2 DEF MoneyFits
  <2> QED BY <1>1, <1>2, <1>3, <2>1, <2>2, RowKeeps
<1> QED BY <1>4, <1>5

(* What a row is about is unchanged, and so is what it says was paid.       *)
LEMMA SameKeeps ==
  ASSUME CheckoutInv, NEW c \in Checkouts, Exists(c), NEW r \in Row, checkout' = [checkout EXCEPT ![c] = r],
         UNCHANGED <<duePayment, ledger, session, events, interrupts>>,
         call' \in [Handlers -> Call], \A h \in Handlers : CallFits(call'[h]),
         r.userId = checkout[c].userId, r.dueIds = checkout[c].dueIds, r.status = checkout[c].status,
         r.txn = checkout[c].txn, r.receipt = checkout[c].receipt, r.receivedKobo = checkout[c].receivedKobo,
         r.reviewed = checkout[c].reviewed, checkout[c].needsReview => r.needsReview,
         processed \subseteq processed', processed' \subseteq events,
         \A e \in processed' \ processed : e.c = c /\ (r.status = "paid" \/ r.needsReview \/ ~IsPayment(e) \/ ~Novel(c, e.charge))
  PROVE  CheckoutInv'
<1>1. RowFits(checkout[c]) /\ MoneyFits(c) /\ checkout[c].status # "none"
  BY Parts DEF Exists
<1>2. RowFits(r)
  BY <1>1 DEF RowFits
<1>3. r.status = "underpaid" /\ r.receivedKobo # 0 =>
        /\ CameIn(c, r.receivedKobo)
        /\ r.needsReview \/ \E f \in r.reviewed : session[c].taken[f] = r.receivedKobo
  BY <1>1 DEF MoneyFits
<1> QED BY <1>1, <1>2, <1>3, RowKeeps

LEMMA RecordKeeps ==
  ASSUME CheckoutInv, NEW h \in Handlers, RecordAccount(h)
  PROVE  CheckoutInv'
<1>1. PICK y \in Call : y = call[h]
  BY Types
<1>2. PICK c \in Checkouts : c = y.c
  BY <1>1, CallFields DEF RecordAccount
<1>3. y.at = "opened" /\ y.charge \in Charges \cup {None} /\ y.new \in BOOLEAN /\ Exists(c) /\ checkout[c] \in Row
  BY <1>1, <1>2, CallFields, Parts, Types DEF RecordAccount, CallFits
<1> DEFINE age == IF y.new THEN "open" ELSE checkout[c].age
           r == [checkout[c] EXCEPT !.providerCheckoutId = TRUE, !.providerChargeId = y.charge, !.age = age]
<1>4. checkout' = [checkout EXCEPT ![c] = r]
  BY <1>1, <1>2, Types DEF RecordAccount
<1>5. age \in Ages
  BY <1>3, RowFields DEF Ages
<1> HIDE DEF age
<1>6. /\ r \in Row /\ r.userId = checkout[c].userId /\ r.dueIds = checkout[c].dueIds /\ r.status = checkout[c].status
      /\ r.txn = checkout[c].txn /\ r.receipt = checkout[c].receipt /\ r.receivedKobo = checkout[c].receivedKobo
      /\ r.reviewed = checkout[c].reviewed /\ r.needsReview = checkout[c].needsReview
  BY <1>3, <1>5 DEF Row
<1> HIDE DEF r
<1>7. CallFits(Idle)
  BY CallPlaces DEF CallFits
<1>8. UNCHANGED <<duePayment, ledger, session, events, processed, interrupts>> /\ Goto(h, Idle)
  BY DEF RecordAccount
<1>9. call' \in [Handlers -> Call] /\ \A k \in Handlers : CallFits(call'[k])
  BY <1>7, <1>8, CallPlaces, Moves, Parts
<1> QED BY <1>3, <1>4, <1>6, <1>8, <1>9, Types, SameKeeps

LEMMA InsertKeeps ==
  ASSUME CheckoutInv, NEW h \in Handlers, NEW c \in Checkouts, InsertCheckout(h, c)
  PROVE  CheckoutInv'
<1>1. PICK y \in Call : y = call[h]
  BY Types
<1>2. y.userId \in Students /\ y.dueIds \in SUBSET Dues
  BY <1>1, CallFields DEF InsertCheckout
<1> DEFINE r == NewRow(y.userId, y.dueIds)
           x == [at |-> "open", c |-> c, reused |-> FALSE]
<1>3. /\ checkout[c].status = "none" /\ checkout' = [checkout EXCEPT ![c] = r] /\ Goto(h, x)
      /\ UNCHANGED <<duePayment, ledger, session, events, processed, interrupts>>
  BY <1>1 DEF InsertCheckout
<1>4. r \in Row
  BY <1>2 DEF Row, NewRow, CheckoutStatus, Ages
<1>5. r.status = "pending" /\ RowFits(r) /\ r.reviewed = {}
  BY <1>2 DEF NewRow, RowFits, TxnOf
<1>6. x \in Call /\ x.at = "open" /\ x.c = c
  BY CallPlaces
<1> HIDE DEF r, x
<1>7. Taken(c) = {} /\ ~Exists(c)
  BY <1>3, Parts DEF SessionFits, Exists
<1>8. call' \in [Handlers -> Call] /\ \A k \in Handlers : CallFits(call'[k]) \/ (call'[k].at = "open" /\ call'[k].c = c)
  BY <1>3, <1>6, Moves, Parts
<1> QED BY <1>3, <1>4, <1>5, <1>7, <1>8, Types, RowKeeps

LEMMA AgeKeeps ==
  ASSUME CheckoutInv, NEW c \in Checkouts, Age(c)
  PROVE  CheckoutInv'
<1>1. PICK age \in Ages : checkout' = [checkout EXCEPT ![c].age = age]
  BY DEF Age, Ages
<1>2. UNCHANGED <<duePayment, ledger, call, session, events, processed, interrupts>> /\ Exists(c) /\ checkout[c] \in Row
  BY Types DEF Age, Exists
<1> DEFINE r == [checkout[c] EXCEPT !.age = age]
<1>3. checkout' = [checkout EXCEPT ![c] = r]
  BY <1>1, Types
<1>4. /\ r \in Row /\ r.userId = checkout[c].userId /\ r.dueIds = checkout[c].dueIds /\ r.status = checkout[c].status
      /\ r.txn = checkout[c].txn /\ r.receipt = checkout[c].receipt /\ r.receivedKobo = checkout[c].receivedKobo
      /\ r.reviewed = checkout[c].reviewed /\ r.needsReview = checkout[c].needsReview
  BY <1>2 DEF Row
<1> HIDE DEF r
<1> QED BY <1>2, <1>3, <1>4, Parts, Types, SameKeeps

LEMMA ResolveKeeps ==
  ASSUME CheckoutInv, NEW c \in Checkouts, ResolveCheckout(c)
  PROVE  CheckoutInv'
<1>1. UNCHANGED <<duePayment, ledger, call, session, events, processed, interrupts>> /\ checkout[c].needsReview
  BY DEF ResolveCheckout
<1>2. checkout[c] \in Row /\ RowFits(checkout[c]) /\ MoneyFits(c) /\ Taken(c) \in SUBSET Charges
  BY Types, Parts DEF Taken
<1> DEFINE r == [checkout[c] EXCEPT !.needsReview = FALSE, !.reviewed = Taken(c)]
<1>3. checkout' = [checkout EXCEPT ![c] = r]
  BY Types DEF ResolveCheckout
<1>4. /\ r \in Row /\ r.userId = checkout[c].userId /\ r.dueIds = checkout[c].dueIds /\ r.status = checkout[c].status
      /\ r.txn = checkout[c].txn /\ r.receipt = checkout[c].receipt /\ r.receivedKobo = checkout[c].receivedKobo
      /\ r.reviewed = Taken(c) /\ r.providerCheckoutId = checkout[c].providerCheckoutId
  BY <1>2 DEF Row
<1> HIDE DEF r
<1>5. RowFits(r)
  BY <1>1, <1>2, <1>4 DEF RowFits
<1>6. r.status = "underpaid" /\ r.receivedKobo # 0 =>
        CameIn(c, r.receivedKobo) /\ \E f \in r.reviewed : session[c].taken[f] = r.receivedKobo
  BY <1>2, <1>4 DEF MoneyFits, CameIn
<1>7. checkout[c].status # "none"
  BY <1>1, <1>2 DEF RowFits
<1> QED BY <1>1, <1>3, <1>4, <1>5, <1>6, <1>7, Parts, Types, RowKeeps

-----------------------------------------------------------------------------
(* Dues are settled                                                        *)

LEMMA DuesAreFinite == IsFiniteSet(Dues)
<1> DEFINE f == [i \in 1..Len(DueOrder) |-> DueOrder[i]]
<1>1. Len(DueOrder) \in Nat /\ Dues = {DueOrder[i] : i \in 1..Len(DueOrder)}
  BY DueOrderAssumption
<1>2. f \in Surjection(1..Len(DueOrder), Dues)
  BY <1>1 DEF Surjection
<1>3. IsFiniteSet(1..Len(DueOrder))
  BY <1>1, FS_Interval
<1> QED BY <1>2, <1>3, FS_Surjection

(* One student's lines: as many as the dues.                                *)
LEMMA LinesCounted ==
  ASSUME NEW s, NEW D \in SUBSET Dues
  PROVE  /\ IsFiniteSet(D) /\ Cardinality(D) \in Nat
         /\ IsFiniteSet({s} \X D) /\ Cardinality({s} \X D) = Cardinality(D)
<1>1. IsFiniteSet(D) /\ Cardinality(D) \in Nat
  BY DuesAreFinite, FS_Subset, FS_CardinalityType
<1>2. IsFiniteSet({s}) /\ Cardinality({s}) = 1
  BY FS_Singleton
<1>3. IsFiniteSet({s} \X D) /\ Cardinality({s} \X D) = Cardinality({s}) * Cardinality(D)
  BY <1>1, <1>2, FS_Product
<1> QED BY <1>1, <1>2, <1>3

(* Due payments and ledger once p has settled the dues D of student s.      *)
PaidWith(p, s, D) == [sd \in Students \X Dues |-> IF sd[1] = s /\ sd[2] \in D THEN p ELSE duePayment[sd]]

CreditedWith(p, s, D) ==
    [keys    |-> ledger.keys \cup {<<IF p = Manual THEN "manual_credit" ELSE "due_payment", <<p, s, d>>>> : d \in D},
     balance |-> ledger.balance + Face * Cardinality(D),
     net     |-> [d \in DueIds |-> IF d \in D THEN ledger.net[d] + Face ELSE ledger.net[d]]]

(* What holds then: types, what was settled before, and the credits.        *)
SettledBy(p, s, D) ==
    /\ duePayment' \in [Students \X Dues -> Payers \cup {None}] /\ ledger' \in LedgerOf(PaymentIds)
    /\ \A sd \in Students \X Dues : duePayment[sd] # None => duePayment'[sd] = duePayment[sd]
    /\ \A d \in D : duePayment'[<<s, d>>] = p
    /\ \A b \in Checkouts : PaidBy(b)' = PaidBy(b) \cup (IF b = p THEN {s} \X D ELSE {})
    /\ IsFiniteSet(Settled')
    /\ ledger'.keys = {<<IF duePayment'[sd] = Manual THEN "manual_credit" ELSE "due_payment",
                         <<duePayment'[sd], sd[1], sd[2]>>>> : sd \in Settled'}
    /\ \A d \in Dues : ledger'.net[d] = Face * Cardinality({sd \in Settled' : sd[2] = d})
    /\ ledger'.balance = Face * Cardinality(Settled')

(* The dues D of student s, none of them settled, are settled by p: one     *)
(* credit each.                                                             *)
LEMMA SettleFacts ==
  ASSUME CheckoutInv, NEW p \in Payers, NEW s \in Students, NEW D \in SUBSET Dues,
         \A d \in D : duePayment[<<s, d>>] = None,
         duePayment' = PaidWith(p, s, D), ledger' = CreditedWith(p, s, D)
  PROVE  SettledBy(p, s, D)
<1> DEFINE Key(q, sd) == <<IF q = Manual THEN "manual_credit" ELSE "due_payment", <<q, sd[1], sd[2]>>>>
           New == {s} \X D
<1>0. /\ duePayment' = [sd \in Students \X Dues |-> IF sd[1] = s /\ sd[2] \in D THEN p ELSE duePayment[sd]]
      /\ ledger' = [keys    |-> ledger.keys \cup {<<IF p = Manual THEN "manual_credit" ELSE "due_payment", <<p, s, d>>>> : d \in D},
                    balance |-> ledger.balance + Face * Cardinality(D),
                    net     |-> [d \in DueIds |-> IF d \in D THEN ledger.net[d] + Face ELSE ledger.net[d]]]
  BY DEF PaidWith, CreditedWith
<1>1. /\ ledger.keys = {Key(duePayment[sd], sd) : sd \in Settled}
      /\ \A d \in Dues : ledger.net[d] = Face * Cardinality({sd \in Settled : sd[2] = d})
      /\ ledger.balance = Face * Cardinality(Settled) /\ IsFiniteSet(Settled)
  BY Parts DEF CreditsInv, CreditsMatchPayments
<1>2. p # None /\ Face \in Nat \ {0}
  BY CheckoutAssumption, AmountFacts DEF Payers
<1>3. \A sd \in Students \X Dues : sd \in New <=> sd[1] = s /\ sd[2] \in D
  OBVIOUS
<1>4. \A sd \in Students \X Dues : duePayment'[sd] = IF sd \in New THEN p ELSE duePayment[sd]
  BY <1>0, <1>3
<1>5. New \subseteq Students \X Dues /\ \A sd \in New : duePayment[sd] = None
  OBVIOUS
<1>6. Settled' = Settled \cup New /\ Settled \cap New = {} /\ Settled \subseteq Students \X Dues
  BY <1>2, <1>4, <1>5 DEF Settled
<1>7. IsFiniteSet(New) /\ Cardinality(New) = Cardinality(D) /\ Cardinality(D) \in Nat /\ Cardinality(Settled) \in Nat
  BY <1>1, LinesCounted, FS_CardinalityType
<1>8. IsFiniteSet(Settled') /\ Cardinality(Settled') = Cardinality(Settled) + Cardinality(D)
  <2>1. IsFiniteSet(Settled \cup New)
        /\ Cardinality(Settled \cup New) = Cardinality(Settled) + Cardinality(New) - Cardinality(Settled \cap New)
    BY <1>1, <1>7, FS_Union
  <2>2. Cardinality(Settled \cap New) = 0
    BY <1>6, FS_EmptySet
  <2> QED BY <1>6, <1>7, <2>1, <2>2
<1>9. duePayment' \in [Students \X Dues -> Payers \cup {None}]
  BY <1>0, Types
<1>10. ledger' \in LedgerOf(PaymentIds)
  <2>1. ledger.keys \in SUBSET ((CREDIT_TYPES \cup DEBIT_TYPES) \X PaymentIds) /\ ledger.balance \in Int /\ ledger.net \in [DueIds -> Int]
    BY Types DEF LedgerOf
  <2>2. {<<IF p = Manual THEN "manual_credit" ELSE "due_payment", <<p, s, d>>>> : d \in D}
          \subseteq (CREDIT_TYPES \cup DEBIT_TYPES) \X PaymentIds
    BY DEF CREDIT_TYPES, PaymentIds
  <2>3. ledger.balance + Face * Cardinality(D) \in Int
    BY <1>2, <1>7, <2>1
  <2>4. [d \in DueIds |-> IF d \in D THEN ledger.net[d] + Face ELSE ledger.net[d]] \in [DueIds -> Int]
    BY <1>2, <2>1
  <2> QED BY <1>0, <2>1, <2>2, <2>3, <2>4 DEF LedgerOf
<1>11. ledger'.keys = {Key(duePayment'[sd], sd) : sd \in Settled'}
  <2>1. ledger'.keys = ledger.keys \cup {Key(p, sd) : sd \in New}
    <3> DEFINE Credits == {<<IF p = Manual THEN "manual_credit" ELSE "due_payment", <<p, s, d>>>> : d \in D}
    <3>1. \A d \in D : <<s, d>> \in New /\ Key(p, <<s, d>>) = <<IF p = Manual THEN "manual_credit" ELSE "due_payment", <<p, s, d>>>>
      OBVIOUS
    <3>2. \A sd \in New : sd[2] \in D /\ sd = <<s, sd[2]>>
      OBVIOUS
    <3>3. ledger'.keys = ledger.keys \cup Credits
      BY <1>0
    <3> HIDE DEF Key, New
    <3>4. \A k \in Credits : \E sd \in New : k = Key(p, sd)
      BY <3>1
    <3>5. \A sd \in New : Key(p, sd) \in Credits
      BY <3>1, <3>2
    <3> HIDE DEF Credits
    <3>6. Credits = {Key(p, sd) : sd \in New}
      BY <3>4, <3>5
    <3> QED BY <3>3, <3>6
  <2>2. \A sd \in Settled : duePayment'[sd] = duePayment[sd]
    BY <1>4, <1>6
  <2>3. \A sd \in New : duePayment'[sd] = p
    BY <1>4, <1>5
  <2> HIDE DEF Key, New
  <2>4. {Key(duePayment'[sd], sd) : sd \in Settled} = {Key(duePayment[sd], sd) : sd \in Settled}
    BY <2>2
  <2>5. {Key(duePayment'[sd], sd) : sd \in New} = {Key(p, sd) : sd \in New}
    BY <2>3
  <2>6. {Key(duePayment'[sd], sd) : sd \in Settled \cup New}
          = {Key(duePayment'[sd], sd) : sd \in Settled} \cup {Key(duePayment'[sd], sd) : sd \in New}
    OBVIOUS
  <2> QED BY <1>1, <1>6, <2>1, <2>4, <2>5, <2>6
<1>12. ASSUME NEW d \in Dues PROVE ledger'.net[d] = Face * Cardinality({sd \in Settled' : sd[2] = d})
  <2> DEFINE Of == {sd \in Settled : sd[2] = d}
  <2>1. IsFiniteSet(Of) /\ Cardinality(Of) \in Nat
    BY <1>1, FS_Subset, FS_CardinalityType
  <2>2. ledger'.net[d] = IF d \in D THEN ledger.net[d] + Face ELSE ledger.net[d]
    BY <1>0 DEF DueIds
  <2>3. ledger.net[d] = Face * Cardinality(Of)
    BY <1>1
  <2>4. CASE d \in D
    <3>1. {sd \in Settled' : sd[2] = d} = Of \cup {<<s, d>>} /\ <<s, d>> \notin Of
      BY <1>6, <2>4
    <3>2. Cardinality(Of \cup {<<s, d>>}) = Cardinality(Of) + 1
      BY <2>1, <3>1, FS_AddElement
    <3> HIDE DEF Of
    <3>3. \A n \in Nat : Face * n + Face = Face * (n + 1)
      BY <1>2
    <3> QED BY <2>1, <2>2, <2>3, <2>4, <3>1, <3>2, <3>3
  <2>5. CASE d \notin D
    <3>1. {sd \in Settled' : sd[2] = d} = Of
      BY <1>6, <2>5
    <3> QED BY <2>2, <2>3, <2>5, <3>1
  <2> QED BY <2>4, <2>5
<1>13. ledger'.balance = Face * Cardinality(Settled')
  <2>1. ledger'.balance = ledger.balance + Face * Cardinality(D)
    BY <1>0
  <2>2. \A m, n \in Nat : Face * m + Face * n = Face * (m + n)
    BY <1>2
  <2> QED BY <1>1, <1>7, <1>8, <2>1, <2>2
<1>14. \A b \in Checkouts : PaidBy(b)' = PaidBy(b) \cup (IF b = p THEN {s} \X D ELSE {})
  <2>1. \A b \in Checkouts : b # None
    BY AmountFacts
  <2> QED BY <1>4, <1>5, <2>1 DEF PaidBy
<1>15. \A sd \in Students \X Dues : duePayment[sd] # None => duePayment'[sd] = duePayment[sd]
  BY <1>4, <1>5
<1>16. \A d \in D : duePayment'[<<s, d>>] = p
  BY <1>4, <1>5
<1> QED BY <1>8, <1>9, <1>10, <1>11, <1>12, <1>13, <1>14, <1>15, <1>16 DEF SettledBy

(* A due that nobody settled has no credit by hand yet: this one counts.    *)
LEMMA ManualIsFresh ==
  ASSUME CheckoutInv, NEW s \in Students, NEW d \in Dues, ManualCredit(s, d)
  PROVE  ledger' = [keys    |-> ledger.keys \cup {<<"manual_credit", <<Manual, s, d>>>>},
                    balance |-> ledger.balance + Face, net |-> [ledger.net EXCEPT ![d] = @ + Face]]
<1>1. duePayment[<<s, d>>] = None /\ ledger' = AppendLedgerEntry(ledger, "manual_credit", <<Manual, s, d>>, d, Face)
  BY DEF ManualCredit
<1>2. <<"manual_credit", <<Manual, s, d>>>> \notin ledger.keys
  <2>1. SUFFICES ASSUME <<"manual_credit", <<Manual, s, d>>>> \in ledger.keys PROVE FALSE
    OBVIOUS
  <2>2. PICK sd \in Settled : <<"manual_credit", <<Manual, s, d>>>> =
          <<IF duePayment[sd] = Manual THEN "manual_credit" ELSE "due_payment", <<duePayment[sd], sd[1], sd[2]>>>>
    BY <2>1, Parts DEF CreditsInv, CreditsMatchPayments
  <2>3. duePayment[sd] = Manual /\ sd[1] = s /\ sd[2] = d /\ sd \in Students \X Dues
    BY <2>2 DEF Settled
  <2>4. sd = <<s, d>>
    BY <2>3
  <2> QED BY <1>1, <2>3, <2>4, AmountFacts
<1> QED BY <1>1, <1>2 DEF AppendLedgerEntry, Signed, CREDIT_TYPES

(* A due that an admin credits by hand.                                     *)
LEMMA ManualKeeps ==
  ASSUME CheckoutInv, NEW s \in Students, NEW d \in Dues, ManualCredit(s, d)
  PROVE  CheckoutInv'
<1>1. /\ duePayment[<<s, d>>] = None /\ duePayment' = [duePayment EXCEPT ![<<s, d>>] = Manual]
      /\ UNCHANGED <<checkout, call, session, events, processed, interrupts>>
  BY DEF ManualCredit
<1>2. duePayment' = PaidWith(Manual, s, {d})
  <2>1. \A sd \in Students \X Dues : sd = <<s, d>> <=> sd[1] = s /\ sd[2] \in {d}
    OBVIOUS
  <2> QED BY <1>1, <2>1, Types DEF PaidWith
<1>3. Cardinality({d}) = 1 /\ Face \in Nat \ {0} /\ ledger.net \in [DueIds -> Int] /\ d \in DueIds
  BY FS_Singleton, CheckoutAssumption, Types DEF LedgerOf, DueIds
<1>4. ledger' = [keys    |-> ledger.keys \cup {<<"manual_credit", <<Manual, s, d>>>>},
                 balance |-> ledger.balance + Face, net |-> [ledger.net EXCEPT ![d] = @ + Face]]
  BY ManualIsFresh
<1>5. ledger' = CreditedWith(Manual, s, {d})
  <2>1. [ledger.net EXCEPT ![d] = @ + Face] = [k \in DueIds |-> IF k \in {d} THEN ledger.net[k] + Face ELSE ledger.net[k]]
    BY <1>3
  <2>2. Face * Cardinality({d}) = Face
    BY <1>3
  <2>3. {<<IF Manual = Manual THEN "manual_credit" ELSE "due_payment", <<Manual, s, k>>>> : k \in {d}} = {<<"manual_credit", <<Manual, s, d>>>>}
    OBVIOUS
  <2> QED BY <1>4, <2>1, <2>2, <2>3 DEF CreditedWith
<1>6. SettledBy(Manual, s, {d})
  <2>1. Manual \in Payers /\ {d} \in SUBSET Dues /\ \A k \in {d} : duePayment[<<s, k>>] = None
    BY <1>1 DEF Payers
  <2> QED BY <1>2, <1>5, <2>1, SettleFacts
<1>7. TypeOK'
  BY <1>1, <1>6, Types DEF TypeOK, SettledBy
<1>8. \A b \in Checkouts : PaidBy(b)' = PaidBy(b)
  <2>1. \A b \in Checkouts : PaidBy(b)' = PaidBy(b) \cup (IF b = Manual THEN {s} \X {d} ELSE {})
    BY <1>6 DEF SettledBy
  <2>2. \A b \in Checkouts : b # Manual
    BY AmountFacts
  <2> QED BY <2>1, <2>2
<1>9. CreditsInv'
  <2>1. \A b \in Checkouts : \A sd \in PaidBy(b) :
          checkout[b].status = "paid" /\ checkout[b].userId = sd[1] /\ sd[2] \in checkout[b].dueIds
    BY Parts DEF CreditsInv, CreditsMatchPayments
  <2> QED BY <1>1, <1>6, <1>8, <2>1 DEF CreditsInv, CreditsMatchPayments, SettledBy
<1>10. \A b \in Checkouts : RowFits(checkout[b])' /\ SessionFits(b)' /\ MoneyFits(b)'
  BY <1>1, Parts DEF RowFits, SessionFits, Exists, Taken, MoneyFits, CameIn, Novel, Noticed
<1>11. \A h \in Handlers : CallFits(call[h])'
  BY <1>1, Parts DEF CallFits, Exists, CameIn, Taken
<1>12. \A e \in events' : EventFits(e)'
  BY <1>1, Parts DEF EventFits, Exists
<1>13. PaidInFull'
  <2>1. ASSUME NEW b \in Checkouts, checkout[b].status = "paid", NEW k \in checkout[b].dueIds
        PROVE  duePayment'[<<checkout[b].userId, k>>] # None
    <3>1. RowFits(checkout[b]) /\ k \in Dues /\ duePayment[<<checkout[b].userId, k>>] # None
      BY <2>1, Parts, Types, RowFields DEF PaidInFull
    <3> QED BY <1>6, <2>1, <3>1 DEF RowFits, SettledBy
  <2>2. \A b \in Checkouts : Taken(b)' = Taken(b)
    BY <1>1 DEF Taken
  <2> QED BY <1>1, <1>8, <2>1, <2>2, Parts DEF PaidInFull
<1> QED BY <1>7, <1>9, <1>10, <1>11, <1>12, <1>13 DEF CheckoutInv

(* A checkout that is not paid has no credit yet: each of its lines counts. *)
LEMMA FreshCredits ==
  ASSUME CheckoutInv, NEW c \in Checkouts, checkout[c].status # "paid", NEW s, NEW D
  PROVE  CreditLines(ledger, c, s, D) = CreditedWith(c, s, D)
<1>1. \A d \in D : <<"due_payment", <<c, s, d>>>> \notin ledger.keys
  <2>1. SUFFICES ASSUME NEW d \in D, <<"due_payment", <<c, s, d>>>> \in ledger.keys PROVE FALSE
    OBVIOUS
  <2>2. PICK sd \in Settled : <<"due_payment", <<c, s, d>>>> =
          <<IF duePayment[sd] = Manual THEN "manual_credit" ELSE "due_payment", <<duePayment[sd], sd[1], sd[2]>>>>
    BY <2>1, Parts DEF CreditsInv, CreditsMatchPayments
  <2>3. sd \in PaidBy(c)
    BY <2>2 DEF Settled, PaidBy
  <2> QED BY <2>3, Parts DEF CreditsInv, CreditsMatchPayments
<1>2. {d \in D : <<"due_payment", <<c, s, d>>>> \notin ledger.keys} = D
  BY <1>1
<1>3. c # Manual
  BY AmountFacts
<1> QED BY <1>2, <1>3 DEF CreditLines, CreditedWith

(* A payment of the total, or more, on a checkout that is not paid.         *)
LEMMA PayKeeps ==
  ASSUME CheckoutInv, NEW h \in Handlers, NEW c \in Checkouts, Exists(c), NEW amount \in Amount, CameIn(c, amount), NEW charge,
         NEW e \in events \cup {None}, e # None => e.c = c,
         FulfilCheckout(h, c, amount, charge, e), UNCHANGED <<session, events, interrupts>>,
         checkout[c].status # "paid", ~(amount < Total)
  PROVE  CheckoutInv'
<1>1. PICK s \in Students : s = checkout[c].userId
  BY Parts DEF RowFits, Exists
<1>2. PICK D \in SUBSET Dues : D = UnpaidLines(c)
  BY Types, RowFields DEF UnpaidLines
<1>3. D \subseteq checkout[c].dueIds /\ \A d \in D : duePayment[<<s, d>>] = None
  BY <1>1, <1>2 DEF UnpaidLines
<1>4. checkout[c] \in Row /\ RowFits(checkout[c])
  BY Types, Parts
<1> DEFINE flag == checkout[c].needsReview \/ Flagged(c, amount)
           r == [checkout[c] EXCEPT !.status = "paid", !.receivedKobo = amount, !.needsReview = flag,
                                    !.txn = "completed", !.receipt = TRUE]
<1>5. /\ duePayment' = PaidWith(c, s, D)
      /\ ledger' = CreditLines(ledger, c, s, D)
      /\ checkout' = [checkout EXCEPT ![c].status = "paid", ![c].receivedKobo = amount,
                                      ![c].needsReview = @ \/ Flagged(c, amount), ![c].txn = "completed", ![c].receipt = TRUE]
      /\ Finish(h, e)
  BY <1>1, <1>2 DEF FulfilCheckout, PaidWith
<1>6. checkout' = [checkout EXCEPT ![c] = r]
  BY <1>5, Types
<1>7. flag \in BOOLEAN
  BY <1>4, RowFields DEF Flagged
<1>8. flag <=> checkout[c].needsReview \/ amount > Total \/ checkout[c].status \in {"expired", "underpaid"} \/ D # checkout[c].dueIds
  BY <1>2 DEF Flagged
<1> HIDE DEF flag
<1>9. /\ r \in Row /\ r.status = "paid" /\ r.receivedKobo = amount /\ r.needsReview = flag /\ r.txn = "completed" /\ r.receipt = TRUE
      /\ r.userId = checkout[c].userId /\ r.dueIds = checkout[c].dueIds /\ r.reviewed = checkout[c].reviewed
  BY <1>4, <1>7 DEF Row, CheckoutStatus
<1> HIDE DEF r
<1>10. checkout' \in [Checkouts -> Row] /\ checkout'[c] = r /\ \A b \in Checkouts \ {c} : checkout'[b] = checkout[b]
  BY <1>6, <1>9, Types
<1>11. ledger' = CreditedWith(c, s, D)
  BY <1>5, FreshCredits
<1>12. SettledBy(c, s, D)
  <2>1. c \in Payers
    BY DEF Payers
  <2> QED BY <1>3, <1>5, <1>11, <2>1, SettleFacts
<1>13. /\ call' \in [Handlers -> Call] /\ \A k \in Handlers : CallFits(call'[k])
       /\ processed \subseteq processed' /\ processed' \subseteq events /\ \A d \in processed' \ processed : d.c = c
  BY <1>5, Finishes
<1>14. TypeOK'
  BY <1>10, <1>12, <1>13, Types DEF TypeOK, SettledBy
<1>15. \A b \in Checkouts : Taken(b)' = Taken(b) /\ (Exists(b) => Exists(b)') /\ \A n : CameIn(b, n)' <=> CameIn(b, n)
  BY <1>9, <1>10 DEF Taken, Exists, CameIn
<1>16. ASSUME NEW b \in Checkouts PROVE RowFits(checkout[b])' /\ SessionFits(b)'
  <2>1. RowFits(r)
    BY <1>1, <1>9 DEF RowFits, TxnOf
  <2>2. RowFits(checkout'[b])
    BY <1>10, <2>1, Parts
  <2>3. SessionFits(b)'
    BY <1>15, Parts DEF SessionFits
  <2> QED BY <2>2, <2>3 DEF RowFits
<1>17. ASSUME NEW b \in Checkouts PROVE MoneyFits(b)'
  <2>1. MoneyFits(b)
    BY Parts
  <2>2. CASE b # c
    <3>1. checkout'[b] = checkout[b]
      BY <1>10, <2>2
    <3>2. \A g \in Charges : Novel(b, g)' => Novel(b, g)
      BY <1>15, <3>1 DEF Novel
    <3>3. \A d \in events \ processed : d.c = b => d \in events' \ processed'
      BY <1>13, <2>2
    <3> QED BY <1>15, <2>1, <3>1, <3>2, <3>3 DEF MoneyFits, Noticed, IsPayment
  <2>3. CASE b = c
    BY <1>9, <1>10, <1>15, <2>1, <2>3 DEF MoneyFits, Noticed
  <2> QED BY <2>2, <2>3
<1>18. ASSUME NEW k \in Handlers PROVE CallFits(call[k])'
  <2>1. CallFits(call'[k]) /\ call'[k] \in Call
    BY <1>13
  <2>2. call'[k].at \in {"open", "opened", "close", "poll", "apply", "short"} => call'[k].c \in Checkouts
    BY <2>1, CallFields
  <2> QED BY <1>15, <2>1, <2>2 DEF CallFits
<1>19. ASSUME NEW d \in events' PROVE EventFits(d)'
  BY <1>15, Parts, Types DEF EventFits, IsPayment, Event
<1>20. PaidBy(c) = {} /\ PaidBy(c)' = {s} \X D /\ \A b \in Checkouts \ {c} : PaidBy(b)' = PaidBy(b)
  <2>1. PaidBy(c) = {}
    BY Parts DEF CreditsInv, CreditsMatchPayments
  <2>2. \A b \in Checkouts : PaidBy(b)' = PaidBy(b) \cup (IF b = c THEN {s} \X D ELSE {})
    BY <1>12 DEF SettledBy
  <2>3. PaidBy(c)' = PaidBy(c) \cup ({s} \X D)
    BY <2>2
  <2>4. \A b \in Checkouts \ {c} : PaidBy(b)' = PaidBy(b)
    BY <2>2
  <2> QED BY <2>1, <2>3, <2>4
<1>21. CreditsInv'
  <2>1. ASSUME NEW b \in Checkouts, NEW sd \in PaidBy(b)'
        PROVE  checkout'[b].status = "paid" /\ checkout'[b].userId = sd[1] /\ sd[2] \in checkout'[b].dueIds
    <3>1. CASE b = c
      BY <1>1, <1>3, <1>9, <1>10, <1>20, <2>1, <3>1
    <3>2. CASE b # c
      BY <1>10, <1>20, <2>1, <3>2, Parts DEF CreditsInv, CreditsMatchPayments
    <3> QED BY <3>1, <3>2
  <2> QED BY <1>12, <2>1 DEF CreditsInv, CreditsMatchPayments, SettledBy
<1>22. PaidInFull'
  <2>1. ASSUME NEW b \in Checkouts
        PROVE  /\ checkout'[b].txn = "completed" <=> checkout'[b].status = "paid"
               /\ checkout'[b].receipt <=> checkout'[b].status = "paid"
               /\ checkout'[b].txn = "failed" <=> checkout'[b].status = "expired"
    <3>1. checkout'[b] \in Row /\ RowFits(checkout[b])'
      BY <1>10, <1>16
    <3>2. RowFits(checkout'[b])
      BY <3>1 DEF RowFits
    <3> QED BY <3>1, <3>2, TxnFollows
  <2>2. /\ \E g \in Taken(c) : session[c].taken[g] >= Total
        /\ \A d \in r.dueIds : duePayment'[<<r.userId, d>>] # None
        /\ r.needsReview \/ (r.receivedKobo = Total /\ Cardinality(PaidBy(c)') = Cardinality(r.dueIds))
    <3>1. amount >= Total /\ (~(amount > Total) => amount = Total)
      <4>1. amount \in Nat /\ Total \in Nat
        BY AmountFacts, CheckoutAssumption
      <4> QED BY <4>1
    <3>2. \E g \in Taken(c) : session[c].taken[g] >= Total
      BY <3>1 DEF CameIn
    <3>3. ASSUME NEW d \in checkout[c].dueIds PROVE duePayment'[<<s, d>>] # None
      <4>1. d \in Dues /\ c # None
        BY <1>4, RowFields, AmountFacts
      <4>2. CASE d \in D
        BY <1>12, <4>1, <4>2 DEF SettledBy
      <4>3. CASE d \notin D
        <5>1. duePayment[<<s, d>>] # None
          BY <1>1, <1>2, <4>3 DEF UnpaidLines
        <5> QED BY <1>12, <4>1, <5>1 DEF SettledBy
      <4> QED BY <4>2, <4>3
    <3>4. ~flag => amount = Total /\ Cardinality({s} \X D) = Cardinality(checkout[c].dueIds)
      BY <1>8, <3>1, LinesCounted
    <3> QED BY <1>1, <1>9, <1>20, <3>2, <3>3, <3>4
  <2>3. ASSUME NEW b \in Checkouts \ {c}, checkout[b].status = "paid", NEW d \in checkout[b].dueIds
        PROVE  duePayment'[<<checkout[b].userId, d>>] # None
    <3>1. RowFits(checkout[b]) /\ d \in Dues /\ duePayment[<<checkout[b].userId, d>>] # None
      BY <2>3, Parts, Types, RowFields DEF PaidInFull
    <3> QED BY <1>12, <2>3, <3>1 DEF RowFits, SettledBy
  <2>4. ASSUME NEW b \in Checkouts, checkout'[b].status = "paid"
        PROVE  /\ \E g \in Taken(b) : session[b].taken[g] >= Total
               /\ \A d \in checkout'[b].dueIds : duePayment'[<<checkout'[b].userId, d>>] # None
               /\ \/ checkout'[b].needsReview
                  \/ \E g \in checkout'[b].reviewed : session[b].taken[g] >= Total
                  \/ /\ checkout'[b].receivedKobo = Total
                     /\ Cardinality(PaidBy(b)') = Cardinality(checkout'[b].dueIds)
    <3>1. CASE b = c
      BY <1>10, <2>2, <3>1
    <3>2. CASE b # c
      <4>1. checkout'[b] = checkout[b] /\ PaidBy(b)' = PaidBy(b)
        BY <1>10, <1>20, <3>2
      <4> QED BY <2>3, <2>4, <3>2, <4>1, Parts DEF PaidInFull
    <3> QED BY <3>1, <3>2
  <2> QED BY <1>15, <2>1, <2>4 DEF PaidInFull
<1> QED BY <1>14, <1>16, <1>17, <1>18, <1>19, <1>21, <1>22 DEF CheckoutInv

(* fulfilCheckout: paid already, short, or paid now.                        *)
LEMMA FulfilKeeps ==
  ASSUME CheckoutInv, NEW h \in Handlers, NEW c \in Checkouts, Exists(c), NEW amount \in Amount, CameIn(c, amount), NEW charge,
         NEW e \in events \cup {None}, e # None => e.c = c /\ e.amount = amount,
         FulfilCheckout(h, c, amount, charge, e), UNCHANGED <<session, events, interrupts>>
  PROVE  CheckoutInv'
<1>1. CASE checkout[c].status = "paid"
  <2> DEFINE flag == checkout[c].needsReview \/ AnotherCharge(c, charge)
             r == [checkout[c] EXCEPT !.needsReview = flag]
  <2>1. checkout' = [checkout EXCEPT ![c] = r] /\ Finish(h, e) /\ UNCHANGED <<duePayment, ledger>>
    BY <1>1, Types DEF FulfilCheckout
  <2>2. flag \in BOOLEAN /\ (checkout[c].needsReview => flag)
    BY Types, RowFields DEF AnotherCharge
  <2> HIDE DEF flag
  <2>3. checkout[c] \in Row
    BY Types
  <2>4. /\ r \in Row /\ r.userId = checkout[c].userId /\ r.dueIds = checkout[c].dueIds /\ r.status = checkout[c].status
        /\ r.txn = checkout[c].txn /\ r.receipt = checkout[c].receipt /\ r.receivedKobo = checkout[c].receivedKobo
        /\ r.reviewed = checkout[c].reviewed /\ r.needsReview = flag
    BY <2>2, <2>3 DEF Row
  <2> HIDE DEF r
  <2>5. /\ call' \in [Handlers -> Call] /\ \A k \in Handlers : CallFits(call'[k])
        /\ processed \subseteq processed' /\ processed' \subseteq events /\ \A d \in processed' \ processed : d.c = c
    BY <2>1, Finishes
  <2> QED BY <1>1, <2>1, <2>2, <2>4, <2>5, SameKeeps
<1>2. CASE checkout[c].status # "paid" /\ amount < Total
  <2> DEFINE x == [at |-> "short", c |-> c, amount |-> amount, event |-> e]
  <2>1. Goto(h, x) /\ UNCHANGED <<checkout, duePayment, ledger, session, events, processed>> /\ interrupts' \in 0..MaxInterrupts
    BY <1>2, Types DEF FulfilCheckout
  <2>2. x \in Call /\ x.at = "short" /\ x.c = c /\ x.amount = amount /\ x.event = e
    BY CallPlaces, Types
  <2> HIDE DEF x
  <2>3. CallFits(x)
    BY <2>2 DEF CallFits
  <2> QED BY <2>1, <2>2, <2>3, MoveKeeps
<1>3. CASE checkout[c].status # "paid" /\ ~(amount < Total)
  BY <1>3, PayKeeps
<1> QED BY <1>1, <1>2, <1>3

LEMMA ProcessKeeps ==
  ASSUME CheckoutInv, NEW h \in Handlers, NEW e \in events, ProcessEvent(h, e)
  PROVE  CheckoutInv'
<1>1. PICK c \in Checkouts : c = e.c
  BY Types DEF Event
<1>2. PICK amount \in Amount : amount = e.amount
  BY Types DEF Event
<1>3. Exists(c) /\ UNCHANGED <<session, events, interrupts>>
  BY <1>1, Parts DEF EventFits, ProcessEvent
<1>4. IsPayment(e) => CameIn(c, amount)
  BY <1>1, <1>2, Parts, AmountFacts DEF EventFits, CameIn, Taken
<1>5. CASE e.kind = "succeeded" /\ FulfilCheckout(h, e.c, e.amount, e.charge, e)
  <2>1. IsPayment(e)
    BY <1>5 DEF IsPayment
  <2>2. PICK charge : charge = e.charge
    OBVIOUS
  <2> QED BY <1>1, <1>2, <1>3, <1>4, <1>5, <2>1, <2>2, FulfilKeeps
<1>6. CASE e.kind = "underpaid" /\ MarkUnderpaid(h, e.c, e.amount, e)
  <2>1. IsPayment(e)
    BY <1>6 DEF IsPayment
  <2> QED BY <1>1, <1>2, <1>3, <1>4, <1>6, <2>1, UnderpaidKeeps
<1>7. CASE e.kind = "closed" /\ ExpireCheckout(h, e.c, e)
  <2>1. ~IsPayment(e)
    BY <1>7 DEF IsPayment
  <2> QED BY <1>1, <1>3, <1>7, <2>1, ExpireKeeps
<1> QED BY <1>5, <1>6, <1>7 DEF ProcessEvent

LEMMA ShortKeeps ==
  ASSUME CheckoutInv, NEW h \in Handlers, FinishShort(h)
  PROVE  CheckoutInv'
<1>1. PICK y \in Call : y = call[h]
  BY Types
<1>2. y.at = "short" /\ CallFits(y)
  BY <1>1, Parts DEF FinishShort
<1>3. PICK c \in Checkouts, amount \in Amount : c = y.c /\ amount = y.amount
  BY <1>2, CallFields
<1>4. PICK e \in events \cup {None} : e = y.event
  BY <1>2 DEF CallFits
<1>5. Exists(c) /\ CameIn(c, amount) /\ (e # None => e.c = c /\ e.amount = amount)
  BY <1>2, <1>3, <1>4 DEF CallFits
<1>6. MarkUnderpaid(h, c, amount, e) /\ UNCHANGED <<session, events, interrupts>>
  BY <1>1, <1>3, <1>4 DEF FinishShort
<1> QED BY <1>5, <1>6, UnderpaidKeeps

LEMMA CloseKeeps ==
  ASSUME CheckoutInv, NEW h \in Handlers, CloseUnopened(h)
  PROVE  CheckoutInv'
<1>1. PICK y \in Call : y = call[h]
  BY Types
<1>2. y.at = "close" /\ CallFits(y)
  BY <1>1, Parts DEF CloseUnopened
<1>3. PICK c \in Checkouts : c = y.c
  BY <1>2, CallFields
<1>4. Exists(c) /\ ExpireCheckout(h, c, None) /\ UNCHANGED <<session, events, interrupts>>
  BY <1>1, <1>2, <1>3 DEF CallFits, CloseUnopened
<1> QED BY <1>4, ExpireKeeps

LEMMA ApplyKeeps ==
  ASSUME CheckoutInv, NEW h \in Handlers, ApplyStatus(h)
  PROVE  CheckoutInv'
<1>1. PICK y \in Call : y = call[h]
  BY Types
<1>2. y.at = "apply" /\ CallFits(y) /\ y.amount \in Amount \cup {None}
  BY <1>1, CallFields, Parts DEF ApplyStatus
<1>3. PICK c \in Checkouts : c = y.c
  BY <1>2, CallFields
<1>4. Exists(c) /\ UNCHANGED <<session, events, interrupts>>
  BY <1>2, <1>3 DEF CallFits, ApplyStatus
<1>5. CASE y.state = "paid" /\ y.amount # None /\ FulfilCheckout(h, c, y.amount, None, None)
  <2>1. PICK amount \in Amount : amount = y.amount
    BY <1>2, <1>5
  <2>2. CameIn(c, amount)
    BY <1>2, <1>3, <1>5, <2>1 DEF CallFits
  <2> QED BY <1>4, <1>5, <2>1, <2>2, FulfilKeeps
<1>6. CASE Goto(h, Idle) /\ UNCHANGED <<checkout, duePayment, ledger, processed>>
  BY <1>4, <1>6, Types, EndKeeps
<1>7. CASE MarkUnderpaid(h, c, 0, None)
  BY <1>4, <1>7, AmountFacts, UnderpaidKeeps
<1>8. CASE ExpireCheckout(h, c, None)
  BY <1>4, <1>8, ExpireKeeps
<1> QED BY <1>1, <1>3, <1>5, <1>6, <1>7, <1>8 DEF ApplyStatus

-----------------------------------------------------------------------------
(* The invariant holds                                                     *)

LEMMA CheckoutStart == Init => CheckoutInv
<1> SUFFICES ASSUME Init PROVE CheckoutInv
  OBVIOUS
<1> USE DEF Init
<1>1. TypeOK
  <2>1. NoRow \in Row
    BY DEF NoRow, Row, Ages
  <2>2. NoSession \in Session
    BY DEF NoSession, Session
  <2>3. EmptyLedger \in LedgerOf(PaymentIds)
    BY DEF EmptyLedger, LedgerOf
  <2>4. 0 \in 0..MaxInterrupts
    BY CheckoutAssumption
  <2> QED BY <2>1, <2>2, <2>3, <2>4, CallPlaces DEF TypeOK
<1>2. ASSUME NEW c \in Checkouts PROVE RowFits(checkout[c]) /\ Taken(c) = {} /\ checkout[c].reviewed = {}
  BY DEF RowFits, NoRow, TxnOf, Taken, NoSession
<1>3. ASSUME NEW c \in Checkouts PROVE SessionFits(c) /\ MoneyFits(c)
  BY <1>2 DEF SessionFits, MoneyFits, Novel, NoSession, NoRow
<1>4. \A h \in Handlers : CallFits(call[h])
  BY CallPlaces DEF CallFits
<1>5. CreditsInv
  <2>1. Settled = {} /\ \A c \in Checkouts : PaidBy(c) = {}
    BY AmountFacts DEF Settled, PaidBy
  <2>2. \A d \in Dues : {sd \in Settled : sd[2] = d} = {}
    BY <2>1
  <2>3. Face * 0 = 0
    BY CheckoutAssumption
  <2> QED BY <2>1, <2>2, <2>3, FS_EmptySet DEF CreditsInv, CreditsMatchPayments, EmptyLedger, DueIds
<1>6. PaidInFull
  BY DEF PaidInFull, NoRow
<1> QED BY <1>1, <1>2, <1>3, <1>4, <1>5, <1>6 DEF CheckoutInv

LEMMA CheckoutStep == CheckoutInv /\ [Next]_vars => CheckoutInv'
<1> SUFFICES ASSUME CheckoutInv, [Next]_vars PROVE CheckoutInv'
  OBVIOUS
<1>1. ASSUME NEW h \in Handlers, Start(h) PROVE CheckoutInv'
  BY <1>1, CreateKeeps, ProcessKeeps, ReconcileKeeps DEF Start
<1>2. ASSUME NEW h \in Handlers, Continue(h) PROVE CheckoutInv'
  BY <1>2, InsertKeeps, ReuseKeeps, RecordKeeps, ShortKeeps, CloseKeeps, ApplyKeeps DEF Continue
<1>3. ASSUME NEW h \in Handlers, BankAnswers(h) PROVE CheckoutInv'
  BY <1>3, OpensKeeps, RefuseKeeps, ReportKeeps DEF BankAnswers
<1>4. ASSUME NEW h \in Handlers, Interrupt(h) PROVE CheckoutInv'
  BY <1>4, InterruptKeeps
<1>5. ASSUME NEW s \in Students, NEW d \in Dues, ManualCredit(s, d) PROVE CheckoutInv'
  BY <1>5, ManualKeeps
<1>6. ASSUME NEW c \in Checkouts, \/ Age(c) \/ BankExpires(c) \/ ResolveCheckout(c)
                                  \/ \E g \in Charges, amount \in Received : BankCollects(c, g, amount)
      PROVE  CheckoutInv'
  BY <1>6, AgeKeeps, ExpiresKeeps, ResolveKeeps, CollectsKeeps
<1>7. CASE UNCHANGED vars
  <2>1. TypeOK'
    BY <1>7, Types DEF vars, TypeOK
  <2>2. \A c \in Checkouts : RowFits(checkout[c])' /\ SessionFits(c)' /\ MoneyFits(c)'
    BY <1>7, Parts DEF vars, RowFits, SessionFits, Exists, Taken, MoneyFits, CameIn, Novel, Noticed
  <2>3. \A h \in Handlers : CallFits(call[h])'
    BY <1>7, Parts DEF vars, CallFits, Exists, CameIn, Taken
  <2>4. \A e \in events' : EventFits(e)'
    BY <1>7, Parts DEF vars, EventFits, Exists
  <2>5. CreditsInv' /\ PaidInFull'
    <3>1. Settled' = Settled /\ \A c \in Checkouts : PaidBy(c)' = PaidBy(c) /\ Taken(c)' = Taken(c)
      BY <1>7 DEF vars, Settled, PaidBy, Taken
    <3>2. CreditsInv'
      BY <1>7, <3>1, Parts DEF vars, CreditsInv, CreditsMatchPayments
    <3>3. PaidInFull'
      BY <1>7, <3>1, Parts DEF vars, PaidInFull
    <3> QED BY <3>2, <3>3
  <2> QED BY <2>1, <2>2, <2>3, <2>4, <2>5 DEF CheckoutInv
<1> QED BY <1>1, <1>2, <1>3, <1>4, <1>5, <1>6, <1>7 DEF Next

LEMMA CheckoutAlways == Spec => []CheckoutInv
BY CheckoutStart, CheckoutStep, PTL DEF Spec

(* TypeOK: rows, due payments, ledger, handlers, sessions and events are    *)
(* what they are declared to be, and only stored events are processed.      *)
THEOREM CheckoutTypeCorrect == Spec => []TypeOK
<1>1. CheckoutInv => TypeOK
  BY DEF CheckoutInv
<1> QED BY <1>1, CheckoutAlways, PTL

(* PaymentsAddUp: each settled due is credited once, by the one that        *)
(* settled it, and a paid checkout got its whole total, whatever is         *)
(* delivered twice, late, or by a webhook and a poll at once                *)
(* (fulfilCheckout).                                                        *)
THEOREM PaymentsAlwaysAddUp == Spec => []PaymentsAddUp
<1>1. CheckoutInv => PaymentsAddUp
  BY DEF CheckoutInv, CreditsInv, PaymentsAddUp
<1> QED BY <1>1, CheckoutAlways, PTL

(* MoneyIsNoticed: when nothing runs and the events of a checkout have been *)
(* processed, money that came in for it made it paid or is in front of an   *)
(* admin, unless it passed for the replay of one an admin had dealt with    *)
(* (markUnderpaid, fulfilCheckout).                                         *)
THEOREM MoneyAlwaysNoticed == Spec => []MoneyIsNoticed
<1>1. CheckoutInv => MoneyIsNoticed
  <2> SUFFICES ASSUME CheckoutInv, NEW c \in Checkouts, Quiet(c),
                      NEW g \in Taken(c) \ checkout[c].reviewed,
                      \A f \in checkout[c].reviewed : session[c].taken[f] # session[c].taken[g]
               PROVE  checkout[c].status = "paid" \/ checkout[c].needsReview
    BY DEF MoneyIsNoticed
  <2>1. g \in Charges /\ Novel(c, g)
    BY DEF Novel, Taken
  <2>2. Noticed(c) \/ \E e \in events \ processed : IsPayment(e) /\ e.c = c /\ e.charge = g
    BY <2>1, Parts DEF MoneyFits
  <2>3. \A e \in events : e.c = c => e \in processed
    BY DEF Quiet
  <2> QED BY <2>2, <2>3 DEF Noticed
<1> QED BY <1>1, CheckoutAlways, PTL

-----------------------------------------------------------------------------
(* One open account per due                                                *)

(* What most steps do: no checkout comes to be open.                        *)
Narrows ==
    \A b \in Checkouts : checkout'[b].status = "pending" /\ checkout'[b].age = "open" =>
        /\ checkout[b].status = "pending" /\ checkout[b].age = "open"
        /\ checkout'[b].userId = checkout[b].userId /\ checkout'[b].dueIds = checkout[b].dueIds

LEMMA NarrowsOpenTwice ==
  ASSUME Narrows, NEW b \in Checkouts, NEW c \in Checkouts, OpenTwice(b, c)' PROVE OpenTwice(b, c)
  BY DEF Narrows, OpenTwice

(* A handler moves on to x, which opens an account in an open window, again *)
(* or not at all, and the windows stay as they are.                         *)
LEMMA WindowMoves ==
  ASSUME CheckoutInv, WindowInv, NEW h \in Handlers, NEW x \in Call, Goto(h, x),
         FirstAttempt(x) => checkout[x.c].age = "open",
         \A b \in Checkouts :
            /\ checkout'[b].age = checkout[b].age
            /\ checkout'[b].userId = checkout[b].userId /\ checkout'[b].dueIds = checkout[b].dueIds
            /\ checkout'[b].status = "pending" => checkout[b].status = "pending"
  PROVE  WindowInv' /\ Narrows
<1>1. call' \in [Handlers -> Call] /\ call'[h] = x /\ \A k \in Handlers \ {h} : call'[k] = call[k]
  BY Moves
<1>2. ASSUME NEW k \in Handlers, FirstAttempt(call'[k])
      PROVE  checkout'[call'[k].c].age = "open"
  <2>1. call'[k].c \in Checkouts
    BY <1>1, <1>2, CallFields DEF FirstAttempt
  <2>2. checkout[call'[k].c].age = "open"
    BY <1>1, <1>2 DEF WindowInv
  <2> QED BY <2>1, <2>2
<1>3. WindowInv'
  BY <1>2 DEF WindowInv, FirstAttempt
<1>4. Narrows
  BY DEF Narrows
<1> QED BY <1>3, <1>4

(* Outcomes leave the windows alone and end no handler in one.              *)
LEMMA WindowOutcomes ==
  ASSUME CheckoutInv, WindowInv, NEW h \in Handlers, NEW c \in Checkouts, NEW amount \in Amount, NEW charge, NEW e \in Event \cup {None},
         FulfilCheckout(h, c, amount, charge, e) \/ MarkUnderpaid(h, c, amount, e) \/ ExpireCheckout(h, c, e)
  PROVE  WindowInv' /\ Narrows
<1>1. \A b \in Checkouts :
            /\ checkout'[b].age = checkout[b].age
            /\ checkout'[b].userId = checkout[b].userId /\ checkout'[b].dueIds = checkout[b].dueIds
            /\ checkout'[b].status = "pending" => checkout[b].status = "pending"
  <2>1. \A b \in Checkouts : checkout[b] \in Row
    BY Types
  <2>2. CASE FulfilCheckout(h, c, amount, charge, e)
    <3>1. CASE checkout[c].status = "paid"
      <4>1. checkout' = [checkout EXCEPT ![c].needsReview = @ \/ AnotherCharge(c, charge)]
        BY <2>2, <3>1 DEF FulfilCheckout
      <4> QED BY <2>1, <4>1, Types DEF Row
    <3>2. CASE checkout[c].status # "paid" /\ amount < Total
      BY <2>2, <3>2 DEF FulfilCheckout
    <3>3. CASE checkout[c].status # "paid" /\ ~(amount < Total)
      <4>1. checkout' = [checkout EXCEPT ![c].status = "paid", ![c].receivedKobo = amount,
                                         ![c].needsReview = @ \/ Flagged(c, amount), ![c].txn = "completed", ![c].receipt = TRUE]
        BY <2>2, <3>3 DEF FulfilCheckout
      <4> QED BY <2>1, <4>1, Types DEF Row
    <3> QED BY <3>1, <3>2, <3>3
  <2>3. CASE MarkUnderpaid(h, c, amount, e)
    BY <2>1, <2>3, Types DEF MarkUnderpaid, Row
  <2>4. CASE ExpireCheckout(h, c, e)
    BY <2>1, <2>4, Types DEF ExpireCheckout, Row
  <2> QED BY <2>2, <2>3, <2>4
<1> DEFINE x == [at |-> "short", c |-> c, amount |-> amount, event |-> e]
<1>2. Goto(h, Idle) \/ Goto(h, x)
  BY DEF FulfilCheckout, MarkUnderpaid, ExpireCheckout, Finish
<1>3. x \in Call /\ x.at = "short"
  BY CallPlaces
<1> HIDE DEF x
<1>4. Idle \in Call /\ ~FirstAttempt(Idle) /\ ~FirstAttempt(x)
  BY <1>3, CallPlaces DEF FirstAttempt, Idle
<1> QED BY <1>1, <1>2, <1>3, <1>4, WindowMoves

LEMMA WindowProcess ==
  ASSUME CheckoutInv, WindowInv, NEW h \in Handlers, NEW e \in events, ProcessEvent(h, e)
  PROVE  WindowInv' /\ Narrows
<1>1. PICK c \in Checkouts, amount \in Amount, charge \in Charges \cup {None} : c = e.c /\ amount = e.amount /\ charge = e.charge
  BY Types DEF Event
<1>2. e \in Event
  BY Types
<1> QED BY <1>1, <1>2, WindowOutcomes DEF ProcessEvent

(* A handler ends an outcome at what it holds in hand.                      *)
LEMMA WindowEnds ==
  ASSUME CheckoutInv, WindowInv, NEW h \in Handlers, FinishShort(h) \/ CloseUnopened(h) \/ ApplyStatus(h)
  PROVE  WindowInv' /\ Narrows
<1>1. PICK y \in Call : y = call[h]
  BY Types
<1>2. y.at \in {"short", "close", "apply"}
  BY <1>1 DEF FinishShort, CloseUnopened, ApplyStatus
<1>3. PICK c \in Checkouts : c = y.c
  BY <1>2, CallFields
<1>4. CASE FinishShort(h)
  <2>1. y.at = "short"
    BY <1>1, <1>4 DEF FinishShort
  <2>2. PICK amount \in Amount, e \in Event \cup {None} : amount = y.amount /\ e = y.event
    BY <2>1, CallFields
  <2>3. MarkUnderpaid(h, c, amount, e)
    BY <1>1, <1>3, <1>4, <2>2 DEF FinishShort
  <2> QED BY <2>3, WindowOutcomes
<1>5. CASE CloseUnopened(h)
  <2>1. ExpireCheckout(h, c, None)
    BY <1>1, <1>3, <1>5 DEF CloseUnopened
  <2> QED BY <2>1, AmountFacts, WindowOutcomes
<1>6. CASE ApplyStatus(h)
  <2>1. y.at = "apply" /\ y.amount \in Amount \cup {None}
    BY <1>1, <1>6, CallFields DEF ApplyStatus
  <2>2. CASE y.amount # None /\ FulfilCheckout(h, c, y.amount, None, None)
    <3>1. PICK amount \in Amount : amount = y.amount
      BY <2>1, <2>2
    <3> QED BY <2>2, <3>1, WindowOutcomes
  <2>3. CASE Goto(h, Idle) /\ UNCHANGED checkout
    BY <2>3, CallPlaces, WindowMoves DEF FirstAttempt, Idle
  <2>4. CASE MarkUnderpaid(h, c, 0, None)
    BY <2>4, AmountFacts, WindowOutcomes
  <2>5. CASE ExpireCheckout(h, c, None)
    BY <2>5, AmountFacts, WindowOutcomes
  <2> QED BY <1>1, <1>3, <1>6, <2>2, <2>3, <2>4, <2>5 DEF ApplyStatus
<1> QED BY <1>4, <1>5, <1>6

(* The advisory lock: no open checkout of the student shares a due.         *)
LEMMA WindowInsert ==
  ASSUME CheckoutInv, WindowInv, NEW h \in Handlers, NEW c \in Checkouts, InsertCheckout(h, c)
  PROVE  WindowInv' /\ \A a, b \in Checkouts : OpenTwice(a, b)' => OpenTwice(a, b)
<1>1. PICK y \in Call : y = call[h]
  BY Types
<1> DEFINE r == NewRow(y.userId, y.dueIds)
           x == [at |-> "open", c |-> c, reused |-> FALSE]
<1>2. checkout' = [checkout EXCEPT ![c] = r] /\ Goto(h, x) /\ OpenFor(y.userId, y.dueIds) = {}
  BY <1>1 DEF InsertCheckout
<1>3. r.userId = y.userId /\ r.dueIds = y.dueIds /\ r.age = "open"
  BY DEF NewRow
<1>4. x \in Call /\ x.at = "open" /\ x.c = c
  BY CallPlaces
<1> HIDE DEF r, x
<1>5. checkout'[c] = r /\ \A b \in Checkouts \ {c} : checkout'[b] = checkout[b]
  BY <1>2, Types
<1>6. call' \in [Handlers -> Call] /\ call'[h] = x /\ \A k \in Handlers \ {h} : call'[k] = call[k]
  BY <1>2, <1>4, Moves
<1>7. ASSUME NEW k \in Handlers, FirstAttempt(call'[k])
      PROVE  checkout'[call'[k].c].age = "open"
  <2>1. call'[k].c \in Checkouts
    BY <1>6, <1>7, CallFields DEF FirstAttempt
  <2>2. call'[k].c # c => checkout[call'[k].c].age = "open"
    BY <1>4, <1>6, <1>7 DEF WindowInv
  <2> QED BY <1>3, <1>5, <2>1, <2>2
<1>8. ASSUME NEW b \in Checkouts \ {c}, checkout[b].userId = r.userId, checkout[b].status = "pending", checkout[b].age = "open"
      PROVE  checkout[b].dueIds \cap r.dueIds = {}
  BY <1>2, <1>3, <1>8 DEF OpenFor
<1>9. ASSUME NEW a \in Checkouts, NEW b \in Checkouts, OpenTwice(a, b)' PROVE OpenTwice(a, b)
  <2>0. /\ a # b /\ checkout'[a].userId = checkout'[b].userId
        /\ checkout'[a].status = "pending" /\ checkout'[b].status = "pending"
        /\ checkout'[a].age = "open" /\ checkout'[b].age = "open"
        /\ checkout'[a].dueIds \cap checkout'[b].dueIds # {}
    BY <1>9 DEF OpenTwice
  <2>1. CASE a = c
    BY <1>5, <1>8, <2>0, <2>1
  <2>2. CASE b = c
    BY <1>5, <1>8, <2>0, <2>2
  <2>3. CASE a # c /\ b # c
    BY <1>5, <2>0, <2>3 DEF OpenTwice
  <2> QED BY <2>1, <2>2, <2>3
<1>10. WindowInv'
  BY <1>7 DEF WindowInv, FirstAttempt
<1> QED BY <1>9, <1>10

(* The provider's expiry opens the window of c again.                       *)
Reopens(h, c) ==
    /\ RecordAccount(h)
    /\ call[h].new /\ call[h].reused /\ call[h].c = c
    /\ checkout[c].age # "open"

LEMMA WindowRecord ==
  ASSUME CheckoutInv, WindowInv, NEW h \in Handlers, RecordAccount(h)
  PROVE  /\ WindowInv'
         /\ \A a, b \in Checkouts : OpenTwice(a, b)' => OpenTwice(a, b) \/ Reopens(h, a) \/ Reopens(h, b)
<1>1. PICK y \in Call : y = call[h]
  BY Types
<1>2. y.at = "opened" /\ Goto(h, Idle)
  BY <1>1 DEF RecordAccount
<1>3. PICK c \in Checkouts : c = y.c
  BY <1>2, CallFields
<1>4. \A b \in Checkouts : checkout[b] \in Row
  BY Types
<1>5. checkout' = [checkout EXCEPT ![c].providerCheckoutId = TRUE, ![c].providerChargeId = y.charge,
                                   ![c].age = IF y.new THEN "open" ELSE @]
  BY <1>1, <1>3 DEF RecordAccount
<1>6. /\ \A b \in Checkouts \ {c} : checkout'[b] = checkout[b]
      /\ checkout'[c].age = IF y.new THEN "open" ELSE checkout[c].age
      /\ checkout'[c].userId = checkout[c].userId /\ checkout'[c].dueIds = checkout[c].dueIds
      /\ checkout'[c].status = checkout[c].status
  BY <1>4, <1>5, Types DEF Row
<1>7. call' \in [Handlers -> Call] /\ call'[h] = Idle /\ \A k \in Handlers \ {h} : call'[k] = call[k]
  BY <1>2, CallPlaces, Moves
<1>8. ASSUME NEW k \in Handlers, FirstAttempt(call'[k])
      PROVE  checkout'[call'[k].c].age = "open"
  <2>1. call'[k].c \in Checkouts
    BY <1>7, <1>8, CallFields DEF FirstAttempt
  <2>2. k # h
    BY <1>7, <1>8 DEF FirstAttempt, Idle
  <2>3. checkout[call'[k].c].age = "open"
    BY <1>7, <1>8, <2>2 DEF WindowInv
  <2> QED BY <1>6, <2>1, <2>3
<1>9. WindowInv'
  BY <1>8 DEF WindowInv, FirstAttempt
<1>10. CASE checkout[c].age = "open" \/ ~y.new
  <2>1. Narrows
    BY <1>6, <1>10 DEF Narrows
  <2> QED BY <1>9, <2>1, NarrowsOpenTwice
<1>11. CASE checkout[c].age # "open" /\ y.new
  <2>1. y.reused
    BY <1>1, <1>2, <1>3, <1>11 DEF WindowInv, FirstAttempt
  <2>2. Reopens(h, c)
    BY <1>1, <1>3, <1>11, <2>1 DEF Reopens
  <2>3. ASSUME NEW a \in Checkouts \ {c}, NEW b \in Checkouts \ {c}, OpenTwice(a, b)' PROVE OpenTwice(a, b)
    BY <1>6, <2>3 DEF OpenTwice
  <2> QED BY <1>9, <2>2, <2>3
<1> QED BY <1>10, <1>11

(* Time closes no window in which a first attempt opens the account.        *)
LEMMA WindowAge ==
  ASSUME CheckoutInv, WindowInv, NEW c \in Checkouts, Age(c)
  PROVE  WindowInv' /\ Narrows
<1>1. PICK age \in {"past", "late"} : checkout' = [checkout EXCEPT ![c].age = age]
  BY DEF Age
<1>2. \A b \in Checkouts : checkout[b] \in Row
  BY Types
<1>3. /\ checkout'[c].age = age
      /\ \A b \in Checkouts \ {c} : checkout'[b] = checkout[b]
  BY <1>1, <1>2, Types DEF Row
<1>4. (\A h \in Opening(c) : call[h].reused) /\ call' = call
  BY DEF Age
<1>5. ASSUME NEW h \in Handlers, FirstAttempt(call[h]) PROVE checkout'[call[h].c].age = "open"
  <2>1. call[h].c \in Checkouts /\ checkout[call[h].c].age = "open"
    BY <1>5, CallFields, Types DEF WindowInv, FirstAttempt
  <2>2. call[h].c # c
    BY <1>4, <1>5 DEF Opening, FirstAttempt
  <2> QED BY <1>3, <2>1, <2>2
<1>6. WindowInv'
  BY <1>4, <1>5 DEF WindowInv, FirstAttempt
<1>7. Narrows
  BY <1>3 DEF Narrows
<1> QED BY <1>6, <1>7

LEMMA WindowResolve ==
  ASSUME CheckoutInv, WindowInv, NEW c \in Checkouts, ResolveCheckout(c)
  PROVE  WindowInv' /\ Narrows
<1>1. \A b \in Checkouts : checkout[b] \in Row
  BY Types
<1>2. call' = call /\ \A b \in Checkouts :
        /\ checkout'[b].age = checkout[b].age /\ checkout'[b].status = checkout[b].status
        /\ checkout'[b].userId = checkout[b].userId /\ checkout'[b].dueIds = checkout[b].dueIds
  BY <1>1, Types DEF ResolveCheckout, Row
<1>3. ASSUME NEW h \in Handlers, FirstAttempt(call[h]) PROVE checkout'[call[h].c].age = "open"
  <2>1. call[h].c \in Checkouts /\ checkout[call[h].c].age = "open"
    BY <1>3, CallFields, Types DEF WindowInv, FirstAttempt
  <2> QED BY <1>2, <2>1
<1>4. WindowInv'
  BY <1>2, <1>3 DEF WindowInv, FirstAttempt
<1>5. Narrows
  BY <1>2 DEF Narrows
<1> QED BY <1>4, <1>5

(* The other handlers' steps, which leave the checkouts alone.              *)
LEMMA WindowStart ==
  ASSUME CheckoutInv, WindowInv, NEW h \in Handlers, Start(h)
  PROVE  WindowInv' /\ Narrows
<1>1. ASSUME NEW s \in Students, NEW ds \in SUBSET Dues \ {{}}, CreateCheckout(h, s, ds) PROVE WindowInv' /\ Narrows
  <2> DEFINE x == [at |-> "create", userId |-> s, dueIds |-> ds]
  <2>1. x \in Call /\ x.at = "create" /\ Goto(h, x) /\ UNCHANGED checkout
    BY <1>1, CallPlaces DEF CreateCheckout
  <2> HIDE DEF x
  <2> QED BY <2>1, WindowMoves DEF FirstAttempt
<1>2. ASSUME NEW c \in Checkouts, NEW byJob \in BOOLEAN, StartReconcile(h, c, byJob) PROVE WindowInv' /\ Narrows
  <2> DEFINE late == byJob /\ checkout[c].age = "late"
             poll == [at |-> "poll", c |-> c, late |-> late]
             close == [at |-> "close", c |-> c]
  <2>1. late \in BOOLEAN /\ (Goto(h, poll) \/ Goto(h, close)) /\ UNCHANGED checkout
    BY <1>2 DEF StartReconcile
  <2> HIDE DEF late
  <2>2. poll \in Call /\ poll.at = "poll" /\ close \in Call /\ close.at = "close"
    BY <2>1, CallPlaces
  <2> HIDE DEF poll, close
  <2> QED BY <2>1, <2>2, WindowMoves DEF FirstAttempt
<1> QED BY <1>1, <1>2, WindowProcess DEF Start

LEMMA WindowReuse ==
  ASSUME CheckoutInv, WindowInv, NEW h \in Handlers, ReuseCheckout(h)
  PROVE  WindowInv' /\ Narrows
<1>1. UNCHANGED checkout
  BY DEF ReuseCheckout
<1>2. CASE Goto(h, Idle)
  BY <1>1, <1>2, CallPlaces, WindowMoves DEF FirstAttempt, Idle
<1>3. CASE ~Goto(h, Idle)
  <2>1. PICK c \in OpenFor(call[h].userId, call[h].dueIds) : Goto(h, [at |-> "open", c |-> c, reused |-> TRUE])
    BY <1>3 DEF ReuseCheckout
  <2> DEFINE x == [at |-> "open", c |-> c, reused |-> TRUE]
  <2>2. c \in Checkouts /\ checkout[c].age = "open"
    BY DEF OpenFor
  <2>3. x \in Call /\ x.c = c /\ Goto(h, x)
    BY <2>1, <2>2, CallPlaces
  <2> HIDE DEF x
  <2> QED BY <1>1, <2>2, <2>3, WindowMoves DEF FirstAttempt
<1> QED BY <1>2, <1>3

LEMMA WindowAnswers ==
  ASSUME CheckoutInv, WindowInv, NEW h \in Handlers, BankAnswers(h)
  PROVE  WindowInv' /\ Narrows
<1>1. PICK y \in Call : y = call[h]
  BY Types
<1>2. ASSUME NEW g \in Charges \cup {None}, BankOpens(h, g) PROVE WindowInv' /\ Narrows
  <2>1. y.at = "open" /\ y.c \in Checkouts /\ y.reused \in BOOLEAN
    BY <1>1, <1>2, CallFields DEF BankOpens
  <2> DEFINE new == ~session[y.c].exists
             x == [at |-> "opened", c |-> y.c, reused |-> y.reused, charge |-> g, new |-> new]
  <2>2. Goto(h, x) /\ UNCHANGED checkout /\ new \in BOOLEAN
    BY <1>1, <1>2 DEF BankOpens
  <2> HIDE DEF new
  <2>3. x \in Call /\ x.c = y.c /\ x.reused = y.reused
    BY <2>1, <2>2, CallPlaces
  <2>4. ~y.reused => checkout[y.c].age = "open"
    BY <1>1, <2>1 DEF WindowInv, FirstAttempt
  <2> HIDE DEF x
  <2> QED BY <2>2, <2>3, <2>4, WindowMoves DEF FirstAttempt
<1>3. CASE BankRefusesOpening(h)
  <2> DEFINE x == [at |-> "close", c |-> y.c]
  <2>1. y.c \in Checkouts /\ Goto(h, x) /\ UNCHANGED checkout
    BY <1>1, <1>3, CallFields DEF BankRefusesOpening
  <2>2. x \in Call /\ x.at = "close"
    BY <2>1, CallPlaces
  <2> HIDE DEF x
  <2> QED BY <2>1, <2>2, WindowMoves DEF FirstAttempt
<1>4. CASE BankReports(h)
  <2>1. UNCHANGED checkout /\ \A b \in Handlers \ {h} : call'[b] = call[b]
    BY <1>4, Types DEF BankReports, Polled, Goto
  <2>2. call'[h].at \in {"idle", "apply"}
    BY <1>4, Types DEF BankReports, Polled, Goto, Idle
  <2>3. WindowInv'
    BY <2>1, <2>2 DEF WindowInv, FirstAttempt
  <2>4. Narrows
    BY <2>1 DEF Narrows
  <2> QED BY <2>3, <2>4
<1> QED BY <1>2, <1>3, <1>4 DEF BankAnswers

(* A step opens a due twice only by opening a window again.                 *)
LEMMA WindowStep ==
  ASSUME CheckoutInv, WindowInv, [Next]_vars
  PROVE  /\ WindowInv'
         /\ \A a, b \in Checkouts :
               OpenTwice(a, b)' => OpenTwice(a, b) \/ \E h \in Handlers : Reopens(h, a) \/ Reopens(h, b)
<1> DEFINE Goal == /\ WindowInv'
                   /\ \A a, b \in Checkouts :
                         OpenTwice(a, b)' => OpenTwice(a, b) \/ \E h \in Handlers : Reopens(h, a) \/ Reopens(h, b)
<1>0. WindowInv' /\ Narrows => Goal
  BY NarrowsOpenTwice
<1>1. ASSUME NEW h \in Handlers, Continue(h) PROVE Goal
  <2>1. ASSUME NEW c \in Checkouts, InsertCheckout(h, c) PROVE Goal
    BY <2>1, WindowInsert
  <2>2. CASE RecordAccount(h)
    BY <2>2, WindowRecord
  <2>3. CASE ReuseCheckout(h)
    BY <1>0, <2>3, WindowReuse
  <2>4. CASE FinishShort(h) \/ CloseUnopened(h) \/ ApplyStatus(h)
    BY <1>0, <2>4, WindowEnds
  <2> QED BY <1>1, <2>1, <2>2, <2>3, <2>4 DEF Continue
<1>2. ASSUME NEW h \in Handlers, Interrupt(h) PROVE Goal
  <2>1. Goto(h, Idle) /\ UNCHANGED checkout
    BY <1>2 DEF Interrupt
  <2> QED BY <1>0, <2>1, CallPlaces, WindowMoves DEF FirstAttempt, Idle
<1>3. ASSUME checkout' = checkout, call' = call PROVE Goal
  BY <1>3, <1>0 DEF WindowInv, FirstAttempt, Narrows
<1>4. ASSUME NEW s \in Students, NEW d \in Dues, ManualCredit(s, d) PROVE Goal
  BY <1>3, <1>4 DEF ManualCredit
<1>5. ASSUME NEW c \in Checkouts, BankExpires(c) \/ \E g \in Charges, amount \in Received : BankCollects(c, g, amount)
      PROVE  Goal
  BY <1>3, <1>5 DEF BankExpires, BankCollects
<1>6. CASE UNCHANGED vars
  BY <1>3, <1>6 DEF vars
<1>7. ASSUME NEW c \in Checkouts, Age(c) \/ ResolveCheckout(c) PROVE Goal
  BY <1>0, <1>7, WindowAge, WindowResolve
<1>8. ASSUME NEW h \in Handlers, Start(h) \/ BankAnswers(h) PROVE Goal
  BY <1>0, <1>8, WindowStart, WindowAnswers
<1> QED BY <1>1, <1>2, <1>4, <1>5, <1>6, <1>7, <1>8 DEF Next

(* OneOpenCheckout: a student's due comes to be open in two checkouts only  *)
(* when a retry that outlasted its window opens one of them again, whatever *)
(* is asked for in two tabs, reused or interrupted (createCheckout).        *)
THEOREM OneAccountPerDue == Spec => OneOpenCheckout
<1> DEFINE Once == \A b, c \in Checkouts :
              ~OpenTwice(b, c) /\ OpenTwice(b, c)' =>
                  \E h \in Handlers :
                      /\ RecordAccount(h)
                      /\ call[h].new /\ call[h].reused /\ call[h].c \in {b, c}
                      /\ checkout[call[h].c].age # "open"
<1>1. Init => WindowInv
  BY CallPlaces DEF Init, WindowInv, FirstAttempt, Idle
<1>2. CheckoutInv /\ WindowInv /\ [Next]_vars => WindowInv'
  BY WindowStep
<1>3. CheckoutInv /\ WindowInv /\ [Next]_vars => Once
  BY WindowStep DEF Reopens
<1>4. CheckoutInv /\ WindowInv /\ [Next]_vars => [Once]_vars
  BY <1>3
<1> QED BY <1>1, <1>2, <1>4, CheckoutAlways, PTL DEF Spec, OneOpenCheckout

-----------------------------------------------------------------------------
(* The refinement                                                          *)

(* What CollectionLifecycle sees of the state.                              *)
Statuses == [c \in Checkouts |-> checkout[c].status]
PayersOf == [c \in Checkouts |-> checkout[c].userId]
LinesOf == [c \in Checkouts |-> checkout[c].dueIds]
InFull == {c \in Checkouts : \E g \in Taken(c) : session[c].taken[g] >= Total}
InReview == {c \in Checkouts : checkout[c].needsReview}
Credited == [d \in Dues |-> ledger.net[d]]

(* A step it allows.                                                        *)
Allowed == [Collection!CollectionNext]_(Collection!collectionVars)

(* A step in which it sees nothing.                                         *)
LEMMA Unseen ==
  ASSUME UNCHANGED <<Statuses, PayersOf, LinesOf, InFull, InReview, duePayment, ledger>>
  PROVE  Allowed
  BY DEF Allowed, Collection!collectionVars, Statuses, PayersOf, LinesOf, InFull, InReview

(* What it sees of a step that writes one row.                              *)
LEMMA RowSeen ==
  ASSUME CheckoutInv, NEW c \in Checkouts, NEW r \in Row, checkout' = [checkout EXCEPT ![c] = r], UNCHANGED session
  PROVE  /\ Statuses' = [Statuses EXCEPT ![c] = r.status]
         /\ PayersOf' = [PayersOf EXCEPT ![c] = r.userId]
         /\ LinesOf' = [LinesOf EXCEPT ![c] = r.dueIds]
         /\ InFull' = InFull
         /\ InReview' = IF r.needsReview THEN InReview \cup {c} ELSE InReview \ {c}
<1>1. checkout'[c] = r /\ \A b \in Checkouts \ {c} : checkout'[b] = checkout[b]
  BY Types
<1>2. Statuses' = [Statuses EXCEPT ![c] = r.status]
  <2>1. \A b \in Checkouts : checkout'[b].status = [Statuses EXCEPT ![c] = r.status][b]
    BY <1>1 DEF Statuses
  <2>2. Statuses' = [b \in Checkouts |-> checkout'[b].status]
    BY DEF Statuses
  <2> DEFINE W == [Statuses EXCEPT ![c] = r.status]
  <2>3. W = [b \in Checkouts |-> W[b]]
    BY DEF Statuses
  <2> HIDE DEF W
  <2> QED BY <2>1, <2>2, <2>3 DEF W
<1>3. PayersOf' = [PayersOf EXCEPT ![c] = r.userId]
  <2>1. \A b \in Checkouts : checkout'[b].userId = [PayersOf EXCEPT ![c] = r.userId][b]
    BY <1>1 DEF PayersOf
  <2>2. PayersOf' = [b \in Checkouts |-> checkout'[b].userId]
    BY DEF PayersOf
  <2> DEFINE W == [PayersOf EXCEPT ![c] = r.userId]
  <2>3. W = [b \in Checkouts |-> W[b]]
    BY DEF PayersOf
  <2> HIDE DEF W
  <2> QED BY <2>1, <2>2, <2>3 DEF W
<1>4. LinesOf' = [LinesOf EXCEPT ![c] = r.dueIds]
  <2>1. \A b \in Checkouts : checkout'[b].dueIds = [LinesOf EXCEPT ![c] = r.dueIds][b]
    BY <1>1 DEF LinesOf
  <2>2. LinesOf' = [b \in Checkouts |-> checkout'[b].dueIds]
    BY DEF LinesOf
  <2> DEFINE W == [LinesOf EXCEPT ![c] = r.dueIds]
  <2>3. W = [b \in Checkouts |-> W[b]]
    BY DEF LinesOf
  <2> HIDE DEF W
  <2> QED BY <2>1, <2>2, <2>3 DEF W
<1>5. InFull' = InFull
  BY DEF InFull, Taken
<1>6. InReview' = IF r.needsReview THEN InReview \cup {c} ELSE InReview \ {c}
  BY <1>1 DEF InReview
<1> QED BY <1>2, <1>3, <1>4, <1>5, <1>6

(* Not what the row is about and how it stands: the flag at most.           *)
LEMMA FlagSeen ==
  ASSUME CheckoutInv, NEW c \in Checkouts, NEW r \in Row, checkout' = [checkout EXCEPT ![c] = r],
         UNCHANGED <<duePayment, ledger, session>>,
         r.status = checkout[c].status, r.userId = checkout[c].userId, r.dueIds = checkout[c].dueIds
  PROVE  /\ UNCHANGED <<Statuses, PayersOf, LinesOf, InFull, duePayment, ledger>>
         /\ InReview' = IF r.needsReview THEN InReview \cup {c} ELSE InReview \ {c}
         /\ r.needsReview = checkout[c].needsReview => Allowed
<1>1. /\ Statuses' = [Statuses EXCEPT ![c] = r.status]
      /\ PayersOf' = [PayersOf EXCEPT ![c] = r.userId]
      /\ LinesOf' = [LinesOf EXCEPT ![c] = r.dueIds]
      /\ InFull' = InFull
      /\ InReview' = IF r.needsReview THEN InReview \cup {c} ELSE InReview \ {c}
  BY RowSeen
<1>2. Statuses' = Statuses /\ PayersOf' = PayersOf /\ LinesOf' = LinesOf
  BY <1>1 DEF Statuses, PayersOf, LinesOf
<1>3. ASSUME r.needsReview = checkout[c].needsReview PROVE InReview' = InReview
  BY <1>1, <1>3 DEF InReview
<1> QED BY <1>1, <1>2, <1>3, Unseen

(* A row that it is over about gets the flag.                               *)
LEMMA FlagAllowed ==
  ASSUME CheckoutInv, NEW c \in Checkouts, NEW r \in Row, checkout' = [checkout EXCEPT ![c] = r],
         UNCHANGED <<duePayment, ledger, session>>,
         r.status = checkout[c].status, r.userId = checkout[c].userId, r.dueIds = checkout[c].dueIds,
         r.status \in {"expired", "underpaid", "paid"}, r.needsReview
  PROVE  Allowed
<1>1. /\ UNCHANGED <<Statuses, PayersOf, LinesOf, InFull, duePayment, ledger>>
      /\ InReview' = InReview \cup {c}
  BY FlagSeen
<1>2. Statuses[c] \in {"expired", "underpaid", "paid"}
  BY DEF Statuses
<1>3. Collection!Flag(c)
  BY <1>1, <1>2 DEF Collection!Flag, Statuses, PayersOf, LinesOf, InFull, InReview
<1> QED BY <1>3 DEF Allowed, Collection!CollectionNext

(* A handler moves on, or the clock does.                                   *)
LEMMA SilentAllowed ==
  ASSUME UNCHANGED <<checkout, duePayment, ledger, session>>
  PROVE  Allowed
<1>1. UNCHANGED <<Statuses, PayersOf, LinesOf, InFull, InReview>>
  BY DEF Statuses, PayersOf, LinesOf, InFull, InReview, Taken
<1> QED BY <1>1, Unseen

LEMMA InsertAllowed ==
  ASSUME CheckoutInv, NEW h \in Handlers, NEW c \in Checkouts, InsertCheckout(h, c)
  PROVE  Allowed
<1>1. PICK y \in Call : y = call[h]
  BY Types
<1>2. y.userId \in Students /\ y.dueIds \in SUBSET Dues
  BY <1>1, CallFields DEF InsertCheckout
<1>3. PICK s \in Students, ds \in SUBSET Dues : s = y.userId /\ ds = y.dueIds
  BY <1>2
<1> DEFINE r == NewRow(s, ds)
<1>4. checkout[c].status = "none" /\ checkout' = [checkout EXCEPT ![c] = r] /\ UNCHANGED <<duePayment, ledger, session>>
  BY <1>1, <1>3 DEF InsertCheckout
<1>5. r \in Row /\ r.status = "pending" /\ r.userId = s /\ r.dueIds = ds /\ r.needsReview = FALSE
  BY DEF Row, NewRow, CheckoutStatus, Ages
<1> HIDE DEF r
<1>6. c \notin InReview /\ Statuses[c] = "none"
  BY <1>4, Parts DEF InReview, RowFits, Statuses
<1>7. /\ Statuses' = [Statuses EXCEPT ![c] = "pending"]
      /\ PayersOf' = [PayersOf EXCEPT ![c] = s]
      /\ LinesOf' = [LinesOf EXCEPT ![c] = ds]
      /\ InFull' = InFull /\ InReview' = InReview
  <2>1. InReview \ {c} = InReview
    BY <1>6
  <2>2. /\ Statuses' = [Statuses EXCEPT ![c] = r.status] /\ PayersOf' = [PayersOf EXCEPT ![c] = r.userId]
        /\ LinesOf' = [LinesOf EXCEPT ![c] = r.dueIds] /\ InFull' = InFull
        /\ InReview' = IF r.needsReview THEN InReview \cup {c} ELSE InReview \ {c}
    BY <1>4, <1>5, RowSeen
  <2> QED BY <1>5, <2>1, <2>2
<1>8. Collection!Open(c, s, ds)
  BY <1>4, <1>6, <1>7 DEF Collection!Open, Statuses, PayersOf, LinesOf, InFull, InReview
<1> QED BY <1>8 DEF Allowed, Collection!CollectionNext

LEMMA RecordAllowed ==
  ASSUME CheckoutInv, NEW h \in Handlers, RecordAccount(h)
  PROVE  Allowed
<1>1. PICK y \in Call : y = call[h]
  BY Types
<1>2. PICK c \in Checkouts : c = y.c
  BY <1>1, CallFields DEF RecordAccount
<1>3. y.charge \in Charges \cup {None} /\ y.new \in BOOLEAN /\ checkout[c] \in Row
  BY <1>1, CallFields, Types DEF RecordAccount
<1> DEFINE age == IF y.new THEN "open" ELSE checkout[c].age
           r == [checkout[c] EXCEPT !.providerCheckoutId = TRUE, !.providerChargeId = y.charge, !.age = age]
<1>4. checkout' = [checkout EXCEPT ![c] = r] /\ UNCHANGED <<duePayment, ledger, session>>
  BY <1>1, <1>2, Types DEF RecordAccount
<1>5. age \in Ages
  BY <1>3, RowFields DEF Ages
<1> HIDE DEF age
<1>6. /\ r \in Row /\ r.userId = checkout[c].userId /\ r.dueIds = checkout[c].dueIds /\ r.status = checkout[c].status
      /\ r.needsReview = checkout[c].needsReview
  BY <1>3, <1>5 DEF Row
<1> HIDE DEF r
<1> QED BY <1>4, <1>6, FlagSeen

LEMMA AgeAllowed ==
  ASSUME CheckoutInv, NEW c \in Checkouts, Age(c)
  PROVE  Allowed
<1>1. PICK age \in Ages : checkout' = [checkout EXCEPT ![c].age = age]
  BY DEF Age, Ages
<1>2. UNCHANGED <<duePayment, ledger, session>> /\ checkout[c] \in Row
  BY Types DEF Age
<1> DEFINE r == [checkout[c] EXCEPT !.age = age]
<1>3. checkout' = [checkout EXCEPT ![c] = r]
  BY <1>1, Types
<1>4. /\ r \in Row /\ r.userId = checkout[c].userId /\ r.dueIds = checkout[c].dueIds /\ r.status = checkout[c].status
      /\ r.needsReview = checkout[c].needsReview
  BY <1>2 DEF Row
<1> HIDE DEF r
<1> QED BY <1>2, <1>3, <1>4, FlagSeen

LEMMA ResolveAllowed ==
  ASSUME CheckoutInv, NEW c \in Checkouts, ResolveCheckout(c)
  PROVE  Allowed
<1>1. UNCHANGED <<duePayment, ledger, session>> /\ checkout[c].needsReview
  BY DEF ResolveCheckout
<1>2. checkout[c] \in Row /\ Taken(c) \in SUBSET Charges
  BY Types DEF Taken
<1> DEFINE r == [checkout[c] EXCEPT !.needsReview = FALSE, !.reviewed = Taken(c)]
<1>3. checkout' = [checkout EXCEPT ![c] = r]
  BY Types DEF ResolveCheckout
<1>4. /\ r \in Row /\ r.userId = checkout[c].userId /\ r.dueIds = checkout[c].dueIds /\ r.status = checkout[c].status
      /\ r.needsReview = FALSE
  BY <1>2 DEF Row
<1> HIDE DEF r
<1>5. UNCHANGED <<Statuses, PayersOf, LinesOf, InFull, duePayment, ledger>> /\ InReview' = InReview \ {c}
  BY <1>1, <1>3, <1>4, FlagSeen
<1>6. c \in InReview
  BY <1>1 DEF InReview
<1>7. Collection!Resolve(c)
  BY <1>5, <1>6 DEF Collection!Resolve, Statuses, PayersOf, LinesOf, InFull, InReview
<1> QED BY <1>7 DEF Allowed, Collection!CollectionNext

(* A pending checkout closes.                                               *)
CloseSeen(c, to) ==
    /\ Statuses[c] = "pending" /\ Statuses' = [Statuses EXCEPT ![c] = to]
    /\ UNCHANGED <<PayersOf, LinesOf, InFull, duePayment, ledger>>

LEMMA MovesSeen ==
  ASSUME CheckoutInv, NEW c \in Checkouts, NEW r \in Row, checkout' = [checkout EXCEPT ![c] = r],
         UNCHANGED <<duePayment, ledger, session>>, checkout[c].status = "pending",
         r.userId = checkout[c].userId, r.dueIds = checkout[c].dueIds
  PROVE  /\ CloseSeen(c, r.status)
         /\ r.needsReview => InReview' = InReview \cup {c}
         /\ r.needsReview = checkout[c].needsReview => InReview' = InReview
<1>1. /\ Statuses' = [Statuses EXCEPT ![c] = r.status]
      /\ PayersOf' = [PayersOf EXCEPT ![c] = r.userId]
      /\ LinesOf' = [LinesOf EXCEPT ![c] = r.dueIds]
      /\ InFull' = InFull
      /\ InReview' = IF r.needsReview THEN InReview \cup {c} ELSE InReview \ {c}
  BY RowSeen
<1>2. PayersOf' = PayersOf /\ LinesOf' = LinesOf
  BY <1>1 DEF PayersOf, LinesOf
<1>3. ASSUME r.needsReview = checkout[c].needsReview PROVE InReview' = InReview
  BY <1>1, <1>3 DEF InReview
<1>4. Statuses[c] = "pending"
  BY DEF Statuses
<1> QED BY <1>1, <1>2, <1>3, <1>4 DEF CloseSeen

LEMMA CloseAllowed ==
  ASSUME NEW c \in Checkouts, NEW to \in {"expired", "underpaid"}, CloseSeen(c, to),
         InReview' = IF to = "underpaid" THEN InReview \cup {c} ELSE InReview
  PROVE  Allowed
<1>1. Collection!CanTransitionCheckout("pending", to) /\ to \in Collection!CheckoutStatus /\ to # "paid"
  BY DEF Collection!CanTransitionCheckout, Collection!CHECKOUT_TRANSITIONS, Collection!CheckoutStatus
<1>2. Collection!Close(c, to)
  BY <1>1 DEF CloseSeen, Collection!Close, Statuses, PayersOf, LinesOf, InFull, InReview
<1> QED BY <1>1, <1>2 DEF Allowed, Collection!CollectionNext

(* markUnderpaid closes a pending checkout and flags one that is over.      *)
LEMMA UnderpaidAllowed ==
  ASSUME CheckoutInv, NEW h \in Handlers, NEW c \in Checkouts, Exists(c), NEW amount \in Amount, NEW e,
         MarkUnderpaid(h, c, amount, e), UNCHANGED session
  PROVE  Allowed
<1>1. UNCHANGED <<duePayment, ledger, session>>
  BY DEF MarkUnderpaid
<1>2. checkout[c] \in Row /\ checkout[c].status # "none"
  BY Types DEF Exists
<1> DEFINE short == [checkout[c] EXCEPT !.status = "underpaid", !.receivedKobo = amount, !.needsReview = TRUE]
           noted == [checkout[c] EXCEPT !.receivedKobo = amount, !.needsReview = TRUE]
<1>3. CASE checkout[c].status = "pending"
  <2>1. checkout' = [checkout EXCEPT ![c] = short]
    BY <1>3, Types DEF MarkUnderpaid, CanTransitionCheckout, CHECKOUT_TRANSITIONS
  <2>2. /\ short \in Row /\ short.status = "underpaid" /\ short.needsReview = TRUE
        /\ short.userId = checkout[c].userId /\ short.dueIds = checkout[c].dueIds
    BY <1>2 DEF Row, CheckoutStatus
  <2> HIDE DEF short
  <2>3. CloseSeen(c, "underpaid") /\ InReview' = InReview \cup {c}
    BY <1>1, <1>3, <2>1, <2>2, MovesSeen
  <2> QED BY <2>3, CloseAllowed
<1>4. CASE checkout[c].status \in {"expired", "underpaid"} /\ ~(checkout[c].status = "underpaid" /\ checkout[c].receivedKobo = amount)
  <2>1. checkout' = [checkout EXCEPT ![c] = noted]
    BY <1>4, Types DEF MarkUnderpaid, CanTransitionCheckout, CHECKOUT_TRANSITIONS
  <2>2. /\ noted \in Row /\ noted.status = checkout[c].status /\ noted.needsReview = TRUE
        /\ noted.userId = checkout[c].userId /\ noted.dueIds = checkout[c].dueIds
    BY <1>2 DEF Row
  <2> HIDE DEF noted
  <2> QED BY <1>1, <1>4, <2>1, <2>2, FlagAllowed
<1>5. CASE checkout[c].status = "paid" \/ (checkout[c].status = "underpaid" /\ checkout[c].receivedKobo = amount)
  <2>1. checkout' = checkout
    BY <1>5 DEF MarkUnderpaid, CanTransitionCheckout, CHECKOUT_TRANSITIONS
  <2> QED BY <1>1, <2>1, SilentAllowed
<1>6. checkout[c].status \in {"pending", "paid", "expired", "underpaid"}
  BY <1>2, RowFields
<1> QED BY <1>3, <1>4, <1>5, <1>6

(* expireCheckout closes a pending checkout.                                *)
LEMMA ExpireAllowed ==
  ASSUME CheckoutInv, NEW h \in Handlers, NEW c \in Checkouts, NEW e, ExpireCheckout(h, c, e), UNCHANGED session
  PROVE  Allowed
<1>1. UNCHANGED <<duePayment, ledger, session>>
  BY DEF ExpireCheckout
<1>2. checkout[c] \in Row /\ RowFits(checkout[c])
  BY Types, Parts
<1>3. CASE checkout[c].status = "pending"
  <2> DEFINE r == [checkout[c] EXCEPT !.status = "expired", !.txn = "failed"]
  <2>1. checkout' = [checkout EXCEPT ![c] = r]
    BY <1>2, <1>3, TxnFollows, Types DEF ExpireCheckout, CanTransitionCheckout, CHECKOUT_TRANSITIONS
  <2>2. /\ r \in Row /\ r.status = "expired" /\ r.needsReview = checkout[c].needsReview
        /\ r.userId = checkout[c].userId /\ r.dueIds = checkout[c].dueIds
    BY <1>2 DEF Row, CheckoutStatus
  <2> HIDE DEF r
  <2>3. CloseSeen(c, "expired") /\ InReview' = InReview
    BY <1>1, <1>3, <2>1, <2>2, MovesSeen
  <2> QED BY <2>3, CloseAllowed
<1>4. CASE checkout[c].status # "pending"
  <2>1. checkout' = checkout
    BY <1>4 DEF ExpireCheckout, CanTransitionCheckout, CHECKOUT_TRANSITIONS
  <2> QED BY <1>1, <2>1, SilentAllowed
<1> QED BY <1>3, <1>4

(* It counts as this module does.                                           *)
LEMMA SameCount ==
  ASSUME NEW S
  PROVE  Collection!Cardinality(S) = Cardinality(S)
  BY DEF Collection!Cardinality, Cardinality

(* The lines a payment settles are those CollectionLifecycle finds owed.    *)
LEMMA OwedAreUnpaid ==
  ASSUME NEW c \in Checkouts
  PROVE  Collection!Owed(c) = UnpaidLines(c)
  BY DEF Collection!Owed, UnpaidLines

(* What it sees of a payment of the total or more.                          *)
LEMMA PayAllowed ==
  ASSUME CheckoutInv, NEW h \in Handlers, NEW c \in Checkouts, Exists(c), NEW amount \in Amount, CameIn(c, amount), NEW charge, NEW e,
         FulfilCheckout(h, c, amount, charge, e), UNCHANGED session,
         checkout[c].status # "paid", ~(amount < Total)
  PROVE  Allowed
<1>1. PICK s \in Students : s = checkout[c].userId
  BY Parts DEF RowFits, Exists
<1>2. PICK D \in SUBSET Dues : D = UnpaidLines(c)
  BY Types, RowFields DEF UnpaidLines
<1>3. checkout[c] \in Row
  BY Types
<1> DEFINE flag == checkout[c].needsReview \/ Flagged(c, amount)
           r == [checkout[c] EXCEPT !.status = "paid", !.receivedKobo = amount, !.needsReview = flag,
                                    !.txn = "completed", !.receipt = TRUE]
<1>4. /\ CanTransitionCheckout(checkout[c].status, "paid")
      /\ duePayment' = PaidWith(c, s, D)
      /\ ledger' = CreditLines(ledger, c, s, D)
      /\ checkout' = [checkout EXCEPT ![c].status = "paid", ![c].receivedKobo = amount,
                                      ![c].needsReview = @ \/ Flagged(c, amount), ![c].txn = "completed", ![c].receipt = TRUE]
  BY <1>1, <1>2 DEF FulfilCheckout, PaidWith
<1>5. checkout' = [checkout EXCEPT ![c] = r]
  BY <1>4, Types
<1>6. flag \in BOOLEAN
  BY <1>3, RowFields DEF Flagged
<1>7. ~flag => checkout[c].status \notin {"expired", "underpaid"} /\ D = checkout[c].dueIds /\ ~checkout[c].needsReview
  BY <1>2 DEF Flagged
<1> HIDE DEF flag
<1>8. r \in Row /\ r.status = "paid" /\ r.needsReview = flag /\ r.userId = checkout[c].userId /\ r.dueIds = checkout[c].dueIds
  BY <1>3, <1>6 DEF Row, CheckoutStatus
<1> HIDE DEF r
<1>9. /\ Statuses' = [Statuses EXCEPT ![c] = "paid"] /\ PayersOf' = PayersOf /\ LinesOf' = LinesOf /\ InFull' = InFull
      /\ InReview' = IF flag THEN InReview \cup {c} ELSE InReview \ {c}
  <2>1. /\ Statuses' = [Statuses EXCEPT ![c] = r.status]
        /\ PayersOf' = [PayersOf EXCEPT ![c] = r.userId]
        /\ LinesOf' = [LinesOf EXCEPT ![c] = r.dueIds]
        /\ InFull' = InFull
        /\ InReview' = IF r.needsReview THEN InReview \cup {c} ELSE InReview \ {c}
    BY <1>5, <1>8, RowSeen
  <2>2. PayersOf' = PayersOf /\ LinesOf' = LinesOf
    BY <1>8, <2>1 DEF PayersOf, LinesOf
  <2> QED BY <1>8, <2>1, <2>2
<1>10. \/ InReview' = InReview \cup {c}
       \/ checkout[c].status = "pending" /\ D = checkout[c].dueIds /\ InReview' = InReview
  <2>1. checkout[c].status \in {"pending", "paid", "expired", "underpaid"}
    BY <1>3, RowFields DEF Exists
  <2>2. ASSUME ~flag PROVE InReview \ {c} = InReview
    BY <1>7, <2>2 DEF InReview
  <2> QED BY <1>7, <1>9, <2>1, <2>2
<1>11. c \in InFull
  <2>1. amount >= Total
    <3>1. amount \in Nat /\ Total \in Nat
      BY AmountFacts, CheckoutAssumption
    <3> QED BY <3>1
  <2> QED BY <2>1 DEF CameIn, InFull
<1>12. ledger' = CreditedWith(c, s, D)
  BY <1>4, FreshCredits
<1>13. /\ Credited' = [d \in Dues |-> IF d \in D THEN Credited[d] + Face ELSE Credited[d]]
       /\ ledger'.balance = ledger.balance + Face * Cardinality(D)
  BY <1>12 DEF Credited, CreditedWith, DueIds
<1>14. Collection!CanTransitionCheckout(checkout[c].status, "paid")
  BY <1>4 DEF CanTransitionCheckout, CHECKOUT_TRANSITIONS, Collection!CanTransitionCheckout, Collection!CHECKOUT_TRANSITIONS
<1>15. Collection!Owed(c) = D
  BY <1>2, OwedAreUnpaid
<1>16. Collection!Pay(c)
  <2>1. Statuses[c] = checkout[c].status /\ PayersOf[c] = s /\ LinesOf[c] = checkout[c].dueIds
    BY <1>1 DEF Statuses, PayersOf, LinesOf
  <2>2. duePayment' = [sd \in Students \X Dues |-> IF sd[1] = s /\ sd[2] \in D THEN c ELSE duePayment[sd]]
    BY <1>4 DEF PaidWith
  <2>3. Collection!Pay(c) <=>
          /\ Collection!CanTransitionCheckout(Statuses[c], "paid") /\ c \in InFull
          /\ Statuses' = [Statuses EXCEPT ![c] = "paid"]
          /\ duePayment' = [sd \in Students \X Dues |->
                              IF sd[1] = PayersOf[c] /\ sd[2] \in Collection!Owed(c) THEN c ELSE duePayment[sd]]
          /\ Credited' = [d \in Dues |-> IF d \in Collection!Owed(c) THEN Credited[d] + Face ELSE Credited[d]]
          /\ ledger'.balance = ledger.balance + Face * Cardinality(Collection!Owed(c))
          /\ \/ InReview' = InReview \cup {c}
             \/ Statuses[c] = "pending" /\ Collection!Owed(c) = LinesOf[c] /\ InReview' = InReview
          /\ PayersOf' = PayersOf /\ LinesOf' = LinesOf /\ InFull' = InFull
    BY SameCount DEF Collection!Pay, Statuses, PayersOf, LinesOf, InFull, InReview, Credited
  <2>4. duePayment' = [sd \in Students \X Dues |->
                        IF sd[1] = PayersOf[c] /\ sd[2] \in Collection!Owed(c) THEN c ELSE duePayment[sd]]
    <3>1. \A sd \in Students \X Dues :
            duePayment'[sd] = IF sd[1] = PayersOf[c] /\ sd[2] \in Collection!Owed(c) THEN c ELSE duePayment[sd]
      BY <1>15, <2>1, <2>2
    <3>2. duePayment' = [sd \in Students \X Dues |-> duePayment'[sd]]
      BY <2>2
    <3> QED BY <3>1, <3>2
  <2>5. Credited' = [d \in Dues |-> IF d \in Collection!Owed(c) THEN Credited[d] + Face ELSE Credited[d]]
    <3>1. \A d \in Dues : Credited'[d] = IF d \in Collection!Owed(c) THEN Credited[d] + Face ELSE Credited[d]
      BY <1>13, <1>15
    <3>2. Credited' = [d \in Dues |-> Credited'[d]]
      BY <1>13
    <3> QED BY <3>1, <3>2
  <2>6. ledger'.balance = ledger.balance + Face * Cardinality(Collection!Owed(c))
    BY <1>13, <1>15
  <2>7. \/ InReview' = InReview \cup {c}
        \/ Statuses[c] = "pending" /\ Collection!Owed(c) = LinesOf[c] /\ InReview' = InReview
    BY <1>10, <1>15, <2>1
  <2> QED BY <1>9, <1>11, <1>14, <2>1, <2>3, <2>4, <2>5, <2>6, <2>7
<1> QED BY <1>16 DEF Allowed, Collection!CollectionNext

(* fulfilCheckout: paid already, short, or paid now.                        *)
LEMMA FulfilAllowed ==
  ASSUME CheckoutInv, NEW h \in Handlers, NEW c \in Checkouts, Exists(c), NEW amount \in Amount, CameIn(c, amount), NEW charge, NEW e,
         FulfilCheckout(h, c, amount, charge, e), UNCHANGED session
  PROVE  Allowed
<1>1. CASE checkout[c].status = "paid"
  <2> DEFINE flag == checkout[c].needsReview \/ AnotherCharge(c, charge)
             r == [checkout[c] EXCEPT !.needsReview = flag]
  <2>1. checkout' = [checkout EXCEPT ![c] = r] /\ UNCHANGED <<duePayment, ledger>>
    BY <1>1, Types DEF FulfilCheckout
  <2>2. flag \in BOOLEAN /\ (checkout[c].needsReview => flag)
    BY Types, RowFields DEF AnotherCharge
  <2> HIDE DEF flag
  <2>3. checkout[c] \in Row /\ checkout[c].needsReview \in BOOLEAN
    BY Types, RowFields
  <2>4. /\ r \in Row /\ r.userId = checkout[c].userId /\ r.dueIds = checkout[c].dueIds /\ r.status = checkout[c].status
        /\ r.needsReview = flag
    BY <2>2, <2>3 DEF Row
  <2> HIDE DEF r
  <2>5. CASE flag
    BY <1>1, <2>1, <2>4, <2>5, FlagAllowed
  <2>6. CASE ~flag
    <3>1. r.needsReview = checkout[c].needsReview
      BY <2>2, <2>3, <2>4, <2>6
    <3> QED BY <2>1, <2>4, <3>1, FlagSeen
  <2> QED BY <2>5, <2>6
<1>2. CASE checkout[c].status # "paid" /\ amount < Total
  BY <1>2, SilentAllowed DEF FulfilCheckout
<1>3. CASE checkout[c].status # "paid" /\ ~(amount < Total)
  BY <1>3, PayAllowed
<1> QED BY <1>1, <1>2, <1>3

LEMMA ManualAllowed ==
  ASSUME CheckoutInv, NEW s \in Students, NEW d \in Dues, ManualCredit(s, d)
  PROVE  Allowed
<1>1. /\ duePayment[<<s, d>>] = None /\ duePayment' = [duePayment EXCEPT ![<<s, d>>] = Manual]
      /\ UNCHANGED <<checkout, session>>
  BY DEF ManualCredit
<1>2. UNCHANGED <<Statuses, PayersOf, LinesOf, InFull, InReview>>
  BY <1>1 DEF Statuses, PayersOf, LinesOf, InFull, InReview, Taken
<1>3. ledger' = [keys    |-> ledger.keys \cup {<<"manual_credit", <<Manual, s, d>>>>},
                 balance |-> ledger.balance + Face, net |-> [ledger.net EXCEPT ![d] = @ + Face]]
  BY ManualIsFresh
<1>4. ledger.net \in [DueIds -> Int] /\ d \in DueIds /\ Dues \subseteq DueIds
  BY Types DEF LedgerOf, DueIds
<1>5. Credited' = [Credited EXCEPT ![d] = @ + Face] /\ ledger'.balance = ledger.balance + Face
  <2> DEFINE W == [Credited EXCEPT ![d] = @ + Face]
  <2>1. \A k \in Dues : ledger'.net[k] = W[k]
    BY <1>3, <1>4 DEF Credited
  <2>2. Credited' = [k \in Dues |-> ledger'.net[k]] /\ W = [k \in Dues |-> W[k]]
    BY DEF Credited
  <2> HIDE DEF W
  <2>3. Credited' = W
    BY <2>1, <2>2
  <2> QED BY <1>3, <2>3 DEF W
<1>6. Collection!Credit(s, d)
  BY <1>1, <1>2, <1>5 DEF Collection!Credit, Statuses, PayersOf, LinesOf, InFull, InReview, Credited
<1> QED BY <1>6 DEF Allowed, Collection!CollectionNext

(* A payment of the total funds a checkout, any other one is unseen.        *)
LEMMA CollectsAllowed ==
  ASSUME CheckoutInv, NEW c \in Checkouts, NEW g \in Charges, NEW amount \in Received, BankCollects(c, g, amount)
  PROVE  Allowed
<1>1. /\ checkout[c].providerCheckoutId /\ session[c].taken[g] = None /\ session' = [session EXCEPT ![c].taken[g] = amount]
      /\ UNCHANGED <<checkout, duePayment, ledger>>
  BY DEF BankCollects
<1>2. Statuses[c] # "none"
  BY <1>1, Parts DEF RowFits, Statuses
<1>3. amount # None /\ amount \in Nat /\ Total \in Nat
  BY AmountFacts, CheckoutAssumption
<1>4. \A b \in Checkouts, f \in Charges : session'[b].taken[f] = IF b = c /\ f = g THEN amount ELSE session[b].taken[f]
  BY <1>1, Types DEF Session
<1>5. \A b \in Checkouts : Taken(b)' = IF b = c THEN Taken(b) \cup {g} ELSE Taken(b)
  BY <1>1, <1>3, <1>4 DEF Taken
<1>6. \A b \in Checkouts : Taken(b) \subseteq Charges /\ g \notin Taken(c)
  BY <1>1 DEF Taken
<1>7. ASSUME NEW b \in Checkouts PROVE b \in InFull' <=> b \in InFull \/ (b = c /\ amount >= Total)
  <2>1. \A f \in Taken(b) : f \in Taken(b)' /\ session'[b].taken[f] = session[b].taken[f]
    BY <1>4, <1>5, <1>6
  <2>2. CASE b = c
    <3>1. Taken(b)' = Taken(b) \cup {g} /\ session'[b].taken[g] = amount
      BY <1>4, <1>5, <2>2
    <3> QED BY <2>1, <2>2, <3>1 DEF InFull
  <2>3. CASE b # c
    <3>1. Taken(b)' = Taken(b)
      BY <1>5, <2>3
    <3> QED BY <2>1, <2>3, <3>1 DEF InFull
  <2> QED BY <2>2, <2>3
<1>8. InFull \subseteq Checkouts /\ InFull' \subseteq Checkouts
  BY DEF InFull
<1>9. UNCHANGED <<Statuses, PayersOf, LinesOf, InReview>>
  BY <1>1 DEF Statuses, PayersOf, LinesOf, InReview
<1>10. CASE amount >= Total
  <2>1. InFull' = InFull \cup {c}
    BY <1>7, <1>8, <1>10
  <2>2. Collection!Fund(c)
    BY <1>1, <1>2, <1>9, <2>1 DEF Collection!Fund, Statuses, PayersOf, LinesOf, InFull, InReview
  <2> QED BY <2>2 DEF Allowed, Collection!CollectionNext
<1>11. CASE ~(amount >= Total)
  <2>1. InFull' = InFull
    BY <1>7, <1>8, <1>11
  <2> QED BY <1>1, <1>9, <2>1, Unseen
<1> QED BY <1>10, <1>11

(* A session that takes nothing more.                                       *)
LEMMA SessionAllowed ==
  ASSUME UNCHANGED <<checkout, duePayment, ledger>>, \A b \in Checkouts : session'[b].taken = session[b].taken
  PROVE  Allowed
<1>1. UNCHANGED <<Statuses, PayersOf, LinesOf, InReview>>
  BY DEF Statuses, PayersOf, LinesOf, InReview
<1>2. InFull' = InFull
  BY DEF InFull, Taken
<1> QED BY <1>1, <1>2, Unseen

LEMMA ProcessAllowed ==
  ASSUME CheckoutInv, NEW h \in Handlers, NEW e \in events, ProcessEvent(h, e)
  PROVE  Allowed
<1>1. PICK c \in Checkouts, amount \in Amount : c = e.c /\ amount = e.amount
  BY Types DEF Event
<1>2. Exists(c) /\ UNCHANGED session
  BY <1>1, Parts DEF EventFits, ProcessEvent
<1>3. IsPayment(e) => CameIn(c, amount)
  BY <1>1, Parts, AmountFacts DEF EventFits, CameIn, Taken
<1>4. CASE e.kind = "succeeded" /\ FulfilCheckout(h, e.c, e.amount, e.charge, e)
  <2>1. IsPayment(e)
    BY <1>4 DEF IsPayment
  <2>2. PICK charge : charge = e.charge
    OBVIOUS
  <2> QED BY <1>1, <1>2, <1>3, <1>4, <2>1, <2>2, FulfilAllowed
<1>5. CASE e.kind = "underpaid" /\ MarkUnderpaid(h, e.c, e.amount, e)
  BY <1>1, <1>2, <1>5, UnderpaidAllowed
<1>6. CASE e.kind = "closed" /\ ExpireCheckout(h, e.c, e)
  BY <1>1, <1>2, <1>6, ExpireAllowed
<1> QED BY <1>4, <1>5, <1>6 DEF ProcessEvent

(* The later half of a short payment, of a refused opening, and of a poll.  *)
LEMMA AnswerAllowed ==
  ASSUME CheckoutInv, NEW h \in Handlers, FinishShort(h) \/ CloseUnopened(h) \/ ApplyStatus(h)
  PROVE  Allowed
<1>1. PICK y \in Call : y = call[h]
  BY Types
<1>2. y.at \in {"short", "close", "apply"} /\ CallFits(y) /\ UNCHANGED session
  BY <1>1, Parts DEF FinishShort, CloseUnopened, ApplyStatus
<1>3. PICK c \in Checkouts : c = y.c
  BY <1>2, CallFields
<1>4. Exists(c)
  BY <1>2, <1>3 DEF CallFits
<1>5. CASE FinishShort(h)
  <2>1. y.at = "short" /\ MarkUnderpaid(h, c, y.amount, y.event)
    BY <1>1, <1>3, <1>5 DEF FinishShort
  <2>2. PICK amount \in Amount : amount = y.amount
    BY <2>1, CallFields
  <2>3. PICK e : e = y.event
    OBVIOUS
  <2> QED BY <1>2, <1>4, <2>1, <2>2, <2>3, UnderpaidAllowed
<1>6. CASE CloseUnopened(h)
  BY <1>1, <1>2, <1>3, <1>6, ExpireAllowed DEF CloseUnopened
<1>7. CASE ApplyStatus(h)
  <2>1. CASE y.state = "paid" /\ y.amount # None /\ FulfilCheckout(h, c, y.amount, None, None)
    <3>1. y.at = "apply"
      BY <1>1, <1>7 DEF ApplyStatus
    <3>2. PICK amount \in Amount : amount = y.amount
      BY <2>1, <3>1, CallFields
    <3>3. CameIn(c, amount)
      BY <1>2, <1>3, <2>1, <3>1, <3>2 DEF CallFits
    <3> QED BY <1>2, <1>4, <2>1, <3>2, <3>3, FulfilAllowed
  <2>2. CASE UNCHANGED <<checkout, duePayment, ledger>>
    BY <1>2, <2>2, SilentAllowed
  <2>3. CASE MarkUnderpaid(h, c, 0, None)
    BY <1>2, <1>4, <2>3, AmountFacts, UnderpaidAllowed
  <2>4. CASE ExpireCheckout(h, c, None)
    BY <1>2, <2>4, ExpireAllowed
  <2> QED BY <1>1, <1>3, <1>7, <2>1, <2>2, <2>3, <2>4 DEF ApplyStatus
<1> QED BY <1>5, <1>6, <1>7

LEMMA CollectionStep == CheckoutInv /\ [Next]_vars => [Collection!CollectionNext]_(Collection!collectionVars)
<1> SUFFICES ASSUME CheckoutInv, [Next]_vars PROVE Allowed
  BY DEF Allowed
<1>1. ASSUME NEW h \in Handlers, Start(h) PROVE Allowed
  <2>1. ASSUME NEW s \in Students, NEW ds \in SUBSET Dues \ {{}}, CreateCheckout(h, s, ds) PROVE Allowed
    BY <2>1, SilentAllowed DEF CreateCheckout
  <2>2. ASSUME NEW c \in Checkouts, NEW byJob \in BOOLEAN, StartReconcile(h, c, byJob) PROVE Allowed
    BY <2>2, SilentAllowed DEF StartReconcile
  <2> QED BY <1>1, <2>1, <2>2, ProcessAllowed DEF Start
<1>2. ASSUME NEW h \in Handlers, Continue(h) PROVE Allowed
  <2>1. CASE ReuseCheckout(h)
    BY <2>1, SilentAllowed DEF ReuseCheckout
  <2> QED BY <1>2, <2>1, InsertAllowed, RecordAllowed, AnswerAllowed DEF Continue
<1>3. ASSUME NEW h \in Handlers, BankAnswers(h) PROVE Allowed
  <2>1. ASSUME NEW g \in Charges \cup {None}, BankOpens(h, g) PROVE Allowed
    <3>1. UNCHANGED <<checkout, duePayment, ledger>> /\ \A b \in Checkouts : session'[b].taken = session[b].taken
      BY <2>1, Types DEF BankOpens, Session
    <3> QED BY <3>1, SessionAllowed
  <2>2. CASE BankRefusesOpening(h) \/ BankReports(h)
    BY <2>2, SilentAllowed DEF BankRefusesOpening, BankReports
  <2> QED BY <1>3, <2>1, <2>2 DEF BankAnswers
<1>4. ASSUME NEW h \in Handlers, Interrupt(h) PROVE Allowed
  BY <1>4, SilentAllowed DEF Interrupt
<1>5. ASSUME NEW c \in Checkouts, BankExpires(c) PROVE Allowed
  <2>1. UNCHANGED <<checkout, duePayment, ledger>> /\ \A b \in Checkouts : session'[b].taken = session[b].taken
    BY <1>5, Types DEF BankExpires, Session
  <2> QED BY <2>1, SessionAllowed
<1>6. CASE UNCHANGED vars
  BY <1>6, SilentAllowed DEF vars
<1> QED BY <1>1, <1>2, <1>3, <1>4, <1>5, <1>6, ManualAllowed, AgeAllowed, ResolveAllowed, CollectsAllowed DEF Next

(* An empty space is an initial state of CollectionLifecycle.               *)
LEMMA CollectionStart == Init => Collection!CollectionInit
<1> SUFFICES ASSUME Init PROVE Collection!CollectionInit
  OBVIOUS
<1>1. \A c \in Checkouts : ~checkout[c].needsReview /\ Taken(c) = {}
  BY DEF Init, NoRow, Taken, NoSession
<1>2. InFull = {} /\ InReview = {}
  BY <1>1 DEF InFull, InReview
<1>3. Statuses = [c \in Checkouts |-> "none"] /\ PayersOf = [c \in Checkouts |-> None] /\ LinesOf = [c \in Checkouts |-> {}]
  BY DEF Init, NoRow, Statuses, PayersOf, LinesOf
<1>4. Credited = [d \in Dues |-> 0] /\ ledger.balance = 0
  BY DEF Init, EmptyLedger, Credited, DueIds
<1> QED BY <1>2, <1>3, <1>4 DEF Init, Collection!CollectionInit, Statuses, PayersOf, LinesOf, InFull, InReview, Credited

(* ImplementsCollection: whatever the handlers, the provider, the job and   *)
(* the clock do, payers, admins and the space see the lifecycle of          *)
(* CollectionLifecycle (checkout.service.ts).                               *)
THEOREM CollectionRefinement == Spec => ImplementsCollection
BY CheckoutAlways, CollectionStart, CollectionStep, PTL DEF Spec, ImplementsCollection, Collection!CollectionSpec
=============================================================================
