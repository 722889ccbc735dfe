--------------------------- MODULE Beneficiaries ---------------------------
(***************************************************************************)
(* The bank accounts one space can withdraw to:                            *)
(* services/beneficiary.service.ts, its routes in routes/payouts.ts and    *)
(* resolveTarget of services/withdrawal.service.ts.                        *)
(*                                                                         *)
(* A payout destination belongs to one Connect account of the provider, the *)
(* current lead's.  registerPayoutDestination carries a key made of the    *)
(* Connect account and the bank account, so the destination is that pair,  *)
(* whoever asks and however often.  Every call of the provider is an await *)
(* during which the book may change.                                       *)
(***************************************************************************)
EXTENDS Naturals, FiniteSets

CONSTANTS Cashiers,           \* handlers of reps
          Banks,              \* bank accounts: a bank code and an account number
          Leads,              \* the Connect accounts of those who lead in turn
          Entries,            \* ids of rows, 1..N, each used once
          None,               \* SQL's null
          MAX_BENEFICIARIES

ASSUME BeneficiariesAssumption ==
    /\ MAX_BENEFICIARIES \in Nat \ {0}
    /\ IsFiniteSet(Entries) /\ Entries = 1..Cardinality(Entries) /\ 1 \in Entries
    /\ None \notin Entries \cup Leads \cup (Leads \X Banks)

VARIABLES book,      \* the payout_beneficiaries table
          lead,      \* the Connect account of the space's lead
          payout,    \* the withdrawal in flight, if there is one
          bcall      \* the handlers

beneficiaryVars == <<book, lead, payout, bcall>>

-----------------------------------------------------------------------------
(* A destination: the Connect account it is on, the bank account it pays.   *)
Destinations == Leads \X Banks

(* The row's own copy of its destination and of the account it is on.       *)
Entry == [bank : Banks, bachsDestinationId : Destinations \cup {None}, bachsAccountId : Leads \cup {None}]

(* The account saved before there were beneficiaries, carried over by the   *)
(* migration without a destination.                                         *)
CarriedOver(bank) == [bank |-> bank, bachsDestinationId |-> None, bachsAccountId |-> None]

Blank(state) == [state |-> state]

(* Where a withdrawal goes, fixed when it is created.                       *)
Target == [beneficiaryId : Entries \cup {None}, bank : Banks, destinationId : Destinations,
           providerAccountId : Leads]

CashierCall ==
    [at : {"idle"}]
    \cup [at : {"register", "insert"}, bank : Banks, on : Leads]
    \cup [at : {"delete"}, id : Entries]
    \cup [at : {"redirect"}, id : Entries, bank : Banks, on : Leads]
    \cup [at : {"create"}, target : Target]

Closed == [at |-> "idle"]

Saved == {i \in Entries : book[i] \in Entry}

BeneficiariesTypeOK ==
    /\ book \in [Entries -> Entry \cup {Blank("unused"), Blank("removed")}]
    /\ lead \in Leads
    /\ payout \in Target \cup {Blank("none")}
    /\ payout # Blank("none") => payout.beneficiaryId \in Saved \cup {None}
    /\ bcall \in [Cashiers -> CashierCall]

BeneficiariesInit ==
    /\ LET empty == [i \in Entries |-> Blank("unused")] IN
         book \in {empty} \cup {[empty EXCEPT ![1] = CarriedOver(bank)] : bank \in Banks}
    /\ lead \in Leads
    /\ payout = Blank("none")
    /\ bcall = [h \in Cashiers |-> Closed]

CashierTo(h, next) == bcall' = [bcall EXCEPT ![h] = next]

Serves(h, next) == bcall[h] = Closed /\ CashierTo(h, next)

-----------------------------------------------------------------------------
(* addBeneficiary                                                           *)

(* findDuplicateOrAssertRoom: the row of this bank account, or nothing when *)
(* the list has room, or a refusal.                                         *)
Duplicate(bank) == {i \in Saved : book[i].bank = bank}

HasRoom == Cardinality(Saved) < MAX_BENEFICIARIES

(* The check before the provider is asked, outside the lock.  The caller is *)
(* the lead, whose Connect account is read here.  (A duplicate ends here:   *)
(* refreshLabel writes nothing but the label, which is not modelled.)       *)
AddBeneficiary(h, bank) ==
    /\ Duplicate(bank) = {} /\ HasRoom
    /\ Serves(h, [at |-> "register", bank |-> bank, on |-> lead])
    /\ UNCHANGED <<book, lead, payout>>

(* Name enquiry and registration answered.                                  *)
RegisterPayoutDestination(h) ==
    /\ bcall[h].at = "register"
    /\ CashierTo(h, [bcall[h] EXCEPT !.at = "insert"])
    /\ UNCHANGED <<book, lead, payout>>

NewEntry(c) == [bank |-> c.bank, bachsDestinationId |-> <<c.on, c.bank>>, bachsAccountId |-> c.on]

(* Ids are given out in order.                                              *)
IsNew(i) == book[i] = Blank("unused") /\ \A j \in Entries : book[j] = Blank("unused") => i <= j

\* Mutant: only the room is checked again under the lock.
InsertBeneficiary_Twice(h) ==
    /\ bcall[h].at = "insert" /\ HasRoom
    /\ \E i \in Entries : IsNew(i) /\ book' = [book EXCEPT ![i] = NewEntry(bcall[h])]
    /\ CashierTo(h, Closed)
    /\ UNCHANGED <<lead, payout>>

\* Mutant: the room is not counted again under the lock.
InsertBeneficiary_NoRoom(h) ==
    /\ bcall[h].at = "insert"
    /\ Duplicate(bcall[h].bank) = {}
    /\ \E i \in Entries : IsNew(i) /\ book' = [book EXCEPT ![i] = NewEntry(bcall[h])]
    /\ CashierTo(h, Closed)
    /\ UNCHANGED <<lead, payout>>

(* The transaction under the space's lock: checked again, then inserted.    *)
InsertBeneficiary(h) ==
    /\ bcall[h].at = "insert"
    /\ IF Duplicate(bcall[h].bank) = {} /\ HasRoom
       THEN \E i \in Entries : IsNew(i) /\ book' = [book EXCEPT ![i] = NewEntry(bcall[h])]
       ELSE UNCHANGED book
    /\ CashierTo(h, Closed)
    /\ UNCHANGED <<lead, payout>>

-----------------------------------------------------------------------------
(* removeBeneficiary: a read, then a delete by id.                          *)
RemoveBeneficiary(h, i) ==
    /\ i \in Saved
    /\ Serves(h, [at |-> "delete", id |-> i])
    /\ UNCHANGED <<book, lead, payout>>

(* The withdrawal in flight keeps its destination; its beneficiaryId is set *)
(* to null by the foreign key.                                              *)
Deleted(i) ==
    /\ book' = [book EXCEPT ![i] = Blank("removed")]
    /\ payout' = IF payout # Blank("none") /\ payout.beneficiaryId = i
                 THEN [payout EXCEPT !.beneficiaryId = None] ELSE payout

\* Mutant: a delete that takes the withdrawal in flight with it.
DeleteBeneficiary_Cascades(h) ==
    /\ bcall[h].at = "delete"
    /\ book' = [book EXCEPT ![bcall[h].id] = Blank("removed")]
    /\ payout' = IF payout # Blank("none") /\ payout.beneficiaryId = bcall[h].id THEN Blank("none") ELSE payout
    /\ CashierTo(h, Closed)
    /\ UNCHANGED lead

DeleteBeneficiary(h) ==
    /\ bcall[h].at = "delete"
    /\ IF bcall[h].id \in Saved THEN Deleted(bcall[h].id) ELSE UNCHANGED <<book, payout>>
    /\ CashierTo(h, Closed)
    /\ UNCHANGED lead

-----------------------------------------------------------------------------
(* resolveTarget, destinationFor, oneOffDestination                         *)

Towards(i, bank, destination, on) ==
    [at |-> "create", target |-> [beneficiaryId |-> i, bank |-> bank, destinationId |-> destination,
                                  providerAccountId |-> on]]

\* Mutant: the stored destination, whichever account it is on.
Reusable_Any(i) == book[i].bachsDestinationId # None

(* There is a stored destination and it is on the account that pays.        *)
Reusable(i) == book[i].bachsDestinationId # None /\ book[i].bachsAccountId = lead

(* The lead and the row are read; the account to pay from is that lead's.   *)
ResolveTarget(h, i) ==
    /\ i \in Saved
    /\ Serves(h, IF Reusable(i) THEN Towards(i, book[i].bank, book[i].bachsDestinationId, lead)
                 ELSE [at |-> "redirect", id |-> i, bank |-> book[i].bank, on |-> lead])
    /\ UNCHANGED <<book, lead, payout>>

(* Registered again on the current lead's account, and stored: an update by *)
(* id, so the request fails when the row was removed.                       *)
DestinationFor(h) ==
    /\ bcall[h].at = "redirect"
    /\ LET c == bcall[h] IN
         IF c.id \in Saved
         THEN /\ book' = [book EXCEPT ![c.id].bachsDestinationId = <<c.on, c.bank>>,
                                      ![c.id].bachsAccountId = c.on]
              /\ CashierTo(h, Towards(c.id, c.bank, <<c.on, c.bank>>, c.on))
         ELSE CashierTo(h, Closed) /\ UNCHANGED book
    /\ UNCHANGED <<lead, payout>>

OneOffDestination(h, bank) ==
    /\ Serves(h, Towards(None, bank, <<lead, bank>>, lead))
    /\ UNCHANGED <<book, lead, payout>>

\* Mutant: a row removed meanwhile is not noticed.
CreatePayout_Removed(h) ==
    /\ bcall[h].at = "create"
    /\ payout' = IF payout = Blank("none") THEN bcall[h].target ELSE payout
    /\ CashierTo(h, Closed)
    /\ UNCHANGED <<book, lead>>

(* The transaction of requestWithdrawal: refused when a withdrawal is in    *)
(* flight, or by the foreign key when the row is gone.                      *)
CreatePayout(h) ==
    /\ bcall[h].at = "create"
    /\ LET t == bcall[h].target IN
         payout' = IF payout = Blank("none") /\ t.beneficiaryId \in Saved \cup {None} THEN t ELSE payout
    /\ CashierTo(h, Closed)
    /\ UNCHANGED <<book, lead>>

PayoutEnds ==
    /\ payout # Blank("none")
    /\ payout' = Blank("none")
    /\ UNCHANGED <<book, lead, bcall>>

(* The lead's seat passes to another rep.                                   *)
LeadChanges ==
    /\ lead' \in Leads \ {lead}
    /\ UNCHANGED <<book, payout, bcall>>

(* The provider refuses, or the process dies.                               *)
CashierInterrupt(h) ==
    /\ bcall[h] # Closed
    /\ CashierTo(h, Closed)
    /\ UNCHANGED <<book, lead, payout>>

BeneficiariesNext ==
    \/ \E h \in Cashiers, i \in Entries : RemoveBeneficiary(h, i) \/ ResolveTarget(h, i)
    \/ \E h \in Cashiers, bank \in Banks : AddBeneficiary(h, bank) \/ OneOffDestination(h, bank)
    \/ \E h \in Cashiers :
          \/ RegisterPayoutDestination(h) \/ InsertBeneficiary(h)
          \/ DeleteBeneficiary(h) \/ DestinationFor(h) \/ CreatePayout(h) \/ CashierInterrupt(h)
    \/ PayoutEnds \/ LeadChanges

BeneficiariesSpec == BeneficiariesInit /\ [][BeneficiariesNext]_beneficiaryVars

-----------------------------------------------------------------------------
(* Concurrent adds of one bank account leave one row: the check before the  *)
(* provider is asked is stale by the time of the insert.                    *)
SavedOnce == \A i, j \in Saved : book[i].bank = book[j].bank => i = j

(* ... and concurrent adds of different accounts keep to MAX_BENEFICIARIES. *)
WithinTheLimit == Cardinality(Saved) <= MAX_BENEFICIARIES

(* A withdrawal pays the bank account it names out of the account it is     *)
(* debited from: across changes of lead, removals and the interleaving of   *)
(* two withdrawals that both register a destination.                        *)
PaidWhereItSays ==
    payout # Blank("none") => payout.destinationId = <<payout.providerAccountId, payout.bank>>

(* "a later edit or removal of the beneficiary can't redirect it"           *)
(* (schema.prisma): while a withdrawal is in flight, no step but its end    *)
(* changes where it goes.                                                   *)
InFlightKeepsItsTarget ==
    [][payout # Blank("none") /\ ~PayoutEnds =>
         /\ payout' # Blank("none")
         /\ payout'.destinationId = payout.destinationId
         /\ payout'.providerAccountId = payout.providerAccountId]_beneficiaryVars

(* The list of saved accounts has no account twice and not too many, and a  *)
(* withdrawal goes to the account its row names, through the destination of *)
(* the lead it debits (beneficiary.service.ts).                             *)
AccountsAreRight ==
    /\ SavedOnce
    /\ WithinTheLimit
    /\ PaidWhereItSays
============================================================================
