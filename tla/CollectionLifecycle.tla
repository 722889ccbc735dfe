------------------------ MODULE CollectionLifecycle -------------------------
(***************************************************************************)
(* What the checkout service promises about one space's dues, with no      *)
(* handlers, provider, webhooks, polls or clocks: a checkout that got its  *)
(* whole total settles, at one stroke, those of its lines that are still   *)
(* owed, and credits each to the space once; whatever an admin must see is *)
(* flagged in that same stroke; and what is settled stays settled.         *)
(***************************************************************************)
EXTENDS Integers, FiniteSets, StateMachine

CONSTANTS Students, Dues, Checkouts,
          None,      \* nobody has settled the due
          Manual,    \* an admin has, by hand
          Face       \* the face amount of a line

VARIABLES status,    \* [Checkouts -> status], "none" before it is opened
          payer,     \* [Checkouts -> student]
          lines,     \* [Checkouts -> SUBSET Dues], what it is meant to pay
          funded,    \* the checkouts that got their whole total in one payment
          review,    \* the checkouts in front of an admin
          settled,   \* [Students \X Dues -> who settled it]
          credited,  \* [Dues -> Int], what the space was credited for each due
          balance

collectionVars == <<status, payer, lines, funded, review, settled, credited, balance>>

(* The lines of c that its payer still owes.                                *)
Owed(c) == {d \in lines[c] : settled[<<payer[c], d>>] = None}

CollectionInit ==
    /\ status = [c \in Checkouts |-> "none"]
    /\ payer = [c \in Checkouts |-> None]
    /\ lines = [c \in Checkouts |-> {}]
    /\ funded = {} /\ review = {}
    /\ settled = [sd \in Students \X Dues |-> None]
    /\ credited = [d \in Dues |-> 0]
    /\ balance = 0

Open(c, s, ds) ==
    /\ status[c] = "none"
    /\ status' = [status EXCEPT ![c] = "pending"]
    /\ payer' = [payer EXCEPT ![c] = s]
    /\ lines' = [lines EXCEPT ![c] = ds]
    /\ UNCHANGED <<funded, review, settled, credited, balance>>

(* The whole total arrives, in any status: in time, late or once more.      *)
Fund(c) ==
    /\ status[c] # "none"
    /\ funded' = funded \cup {c}
    /\ UNCHANGED <<status, payer, lines, review, settled, credited, balance>>

(* It expires, or is found short, which an admin must see.                  *)
Close(c, to) ==
    /\ CanTransitionCheckout(status[c], to)
    /\ to # "paid"
    /\ status' = [status EXCEPT ![c] = to]
    /\ review' = IF to = "underpaid" THEN review \cup {c} ELSE review
    /\ UNCHANGED <<payer, lines, funded, settled, credited, balance>>

(* Nobody needs to look at it only if it was still open and every line was  *)
(* still owed.                                                              *)
Pay(c) ==
    /\ CanTransitionCheckout(status[c], "paid")
    /\ c \in funded
    /\ status' = [status EXCEPT ![c] = "paid"]
    /\ settled' = [sd \in Students \X Dues |->
                     IF sd[1] = payer[c] /\ sd[2] \in Owed(c) THEN c ELSE settled[sd]]
    /\ credited' = [d \in Dues |-> IF d \in Owed(c) THEN credited[d] + Face ELSE credited[d]]
    /\ balance' = balance + Face * Cardinality(Owed(c))
    /\ \/ review' = review \cup {c}
       \/ status[c] = "pending" /\ Owed(c) = lines[c] /\ UNCHANGED review
    /\ UNCHANGED <<payer, lines, funded>>

(* More money on a checkout that is over.                                   *)
Flag(c) ==
    /\ status[c] \in {"expired", "underpaid", "paid"}
    /\ review' = review \cup {c}
    /\ UNCHANGED <<status, payer, lines, funded, settled, credited, balance>>

(* An admin has dealt with it.                                              *)
Resolve(c) ==
    /\ c \in review
    /\ review' = review \ {c}
    /\ UNCHANGED <<status, payer, lines, funded, settled, credited, balance>>

(* An admin credits a due that was paid in some other way.                  *)
Credit(s, d) ==
    /\ settled[<<s, d>>] = None
    /\ settled' = [settled EXCEPT ![<<s, d>>] = Manual]
    /\ credited' = [credited EXCEPT ![d] = @ + Face]
    /\ balance' = balance + Face
    /\ UNCHANGED <<status, payer, lines, funded, review>>

CollectionNext ==
    \/ \E c \in Checkouts :
          \/ \E s \in Students, ds \in SUBSET Dues : Open(c, s, ds)
          \/ \E to \in CheckoutStatus : Close(c, to)
          \/ Fund(c) \/ Pay(c) \/ Flag(c) \/ Resolve(c)
    \/ \E s \in Students, d \in Dues : Credit(s, d)

CollectionSpec == CollectionInit /\ [][CollectionNext]_collectionVars
=============================================================================
