-------------------------------- MODULE Dues --------------------------------
(***************************************************************************)
(* One due of one space, from its draft to its roster, with the people who *)
(* come and go: routes/repDues.ts, the joining and leaving of              *)
(* routes/spaces.ts, the members and co-reps of routes/circle.ts, and what *)
(* createCheckout and guestPay.ts ask of a due.                            *)
(*                                                                         *)
(* Handlers read with one await and write with a later one; dcall[h] holds *)
(* what was read.  Whether the lead's KYC lets the space collect and       *)
(* whether the space is archived only refuse requests, and a refused       *)
(* request changes nothing: every request may be refused.  How a checkout  *)
(* is paid is the subject of Checkout; here one is opened and may settle.  *)
(***************************************************************************)
EXTENDS Naturals, FiniteSets

CONSTANTS Clerks,    \* handlers of reps, students and guests
          People,    \* everyone but the lead
          Outsiders, \* the people who begin as guest payers, without an account
          Candidates, \* the people who may be made co-reps (a bound)
          Lead, Nobody,
          Faces      \* amounts a rep may set

ASSUME DuesAssumption ==
    /\ Lead \notin People /\ Nobody \notin People \cup {Lead}
    /\ Outsiders \subseteq People /\ Candidates \subseteq People
    /\ Faces \subseteq Nat \ {0} /\ Faces # {}

VARIABLES due,       \* the row of the dues table
          members,   \* who has joined, the lead apart
          coReps,
          guests,    \* users with isGuest
          pay,       \* each person's checkout or payment for the due
          dcall,     \* the handlers
          log        \* history, for the properties

duesVars == <<due, members, coReps, guests, pay, dcall, log>>

-----------------------------------------------------------------------------
Due == [status : {"none", "draft", "active", "closed", "deleted"},
        amount : Faces, allowGuests : BOOLEAN,
        assignedRepId : People \cup {Lead, Nobody},
        reminded : BOOLEAN]                 \* lastRemindedAt is within 24 hours

(* No row, not yet or no longer; its other fields mean nothing.             *)
NoRow(status) == [status |-> status, amount |-> CHOOSE f \in Faces : TRUE, allowGuests |-> FALSE,
                  assignedRepId |-> Nobody, reminded |-> FALSE]

(* amount is the face of the checkout's line, copied when it was opened.    *)
Pay == [state : {"open", "paid"}, amount : Faces] \cup [state : {"none"}]

NoPay == [state |-> "none"]

Paid == {p \in People : pay[p].state = "paid"}

(* Reads that were overtaken: the payments an edit had counted, the amount  *)
(* an open checkout had copied (open) when the due was edited, the draft a  *)
(* publication had read, the co-rep an assignment had read, the membership  *)
(* or rep role that a change of the team had read.                          *)
Windows == {"amount", "open", "reopen", "assign", "team"}

(* claims: reminders claimed since the cooldown last ran out.               *)
Log == [overtaken : SUBSET Windows, claims : 0..2]

(* Where a handler stands:                                                  *)
(* create     about to insert the due                                       *)
(* count      PATCH, about to count the payments; update, about to write    *)
(* kyc        publish, about to ask whether the space collects; then publish*)
(* close, delete, reassign   about to write                                 *)
(* remind     about to claim the reminder                                   *)
(* leave      about to count the leaver's dues; drop, about to delete the   *)
(*            membership                                                    *)
(* rep        about to make p a co-rep                                      *)
(* checkout   createCheckout, its reads done                                *)
DueCall ==
    [at : {"idle", "kyc", "publish", "close", "delete", "remind"}]
    \cup [at : {"create"}, assignee : People \cup {Lead}, publish : BOOLEAN, allowGuests : BOOLEAN]
    \cup [at : {"count", "update"}, amount : Faces \cup {0}, allowGuests : {"same", "yes", "no"}]
    \cup [at : {"reassign"}, to : People]
    \cup [at : {"leave", "drop", "rep"}, p : People]
    \cup [at : {"checkout"}, p : People, amount : Faces]

Free == [at |-> "idle"]

DuesTypeOK ==
    /\ due \in Due
    /\ members \subseteq People /\ coReps \subseteq People /\ guests \subseteq People
    /\ pay \in [People -> Pay]
    /\ dcall \in [Clerks -> DueCall]
    /\ log \in Log
    /\ members \cap guests = {}

DuesInit ==
    /\ due = NoRow("none")
    /\ members = {} /\ coReps = {}
    /\ guests = Outsiders
    /\ pay = [p \in People |-> NoPay]
    /\ dcall = [h \in Clerks |-> Free]
    /\ log = [overtaken |-> {}, claims |-> 0]

DueGoto(h, next) == dcall' = [dcall EXCEPT ![h] = next]

(* A request arrives.  Once a read was overtaken, the handlers that are     *)
(* running finish and no other begins (the bound on this module).           *)
Arrives(h, next) ==
    /\ dcall[h] = Free /\ log.overtaken = {}
    /\ DueGoto(h, next)

(* history: w was overtaken if another handler is at one of places.         *)
Overtakes(h, w, places) ==
    IF \E g \in Clerks \ {h} : dcall[g].at \in places
    THEN log' = [log EXCEPT !.overtaken = @ \cup {w}]
    ELSE UNCHANGED log

Exists == due.status \notin {"none", "deleted"}
-----------------------------------------------------------------------------
(* The due, by its reps                                                    *)

(* POST /dues: a rep assigns it to themselves, and the lead to a co-rep;    *)
CreateDue(h) ==
    /\ due.status = "none"
    /\ \E a \in coReps \cup {Lead}, publish, guest \in BOOLEAN :
          Arrives(h, [at |-> "create", assignee |-> a, publish |-> publish, allowGuests |-> guest])
    /\ UNCHANGED <<due, members, coReps, guests, pay, log>>

(* POST /assistant/confirm: a rep's own, a draft for members;               *)
ConfirmCreateDue(h) ==
    /\ due.status = "none"
    /\ \E a \in coReps \cup {Lead} : 
          Arrives(h, [at |-> "create", assignee |-> a, publish |-> FALSE, allowGuests |-> FALSE])
    /\ UNCHANGED <<due, members, coReps, guests, pay, log>>

InsertDue(h) ==
    /\ dcall[h].at = "create"
    /\ due.status = "none"
    /\ \E f \in Faces :
          due' = [status |-> IF dcall[h].publish THEN "active" ELSE "draft", amount |-> f,
                  allowGuests |-> dcall[h].allowGuests,
                  assignedRepId |-> dcall[h].assignee, reminded |-> FALSE]
    /\ DueGoto(h, Free)
    /\ UNCHANGED <<members, coReps, guests, pay, log>>

(* PATCH /dues/:dueId: the row is read (an amount of 0 and a "same" are not *)
(* in the body);                                                            *)
PatchDue(h) ==
    /\ Exists /\ due.status # "closed"
    /\ \E f \in Faces \cup {0}, guest \in {"same", "yes", "no"} :
          Arrives(h, [at |-> IF f \notin {0, due.amount} THEN "count" ELSE "update",
                      amount |-> f, allowGuests |-> guest])
    /\ UNCHANGED <<due, members, coReps, guests, pay, log>>

\* Mutant: the payments of members are counted.
CountPayments_Members(h) ==
    /\ dcall[h].at = "count"
    /\ DueGoto(h, IF Paid \cap members = {} THEN [dcall[h] EXCEPT !.at = "update"] ELSE Free)
    /\ UNCHANGED <<due, members, coReps, guests, pay, log>>

(* a new amount needs a due nobody has paid;                                *)
CountPayments(h) ==
    /\ dcall[h].at = "count"
    /\ DueGoto(h, IF Paid = {} THEN [dcall[h] EXCEPT !.at = "update"] ELSE Free)
    /\ UNCHANGED <<due, members, coReps, guests, pay, log>>

(* and the fields are written, closed by now or not; a deleted row throws.  *)
UpdateDue(h) ==
    /\ dcall[h].at = "update"
    /\ due' = IF Exists
              THEN [due EXCEPT !.amount = IF dcall[h].amount = 0 THEN @ ELSE dcall[h].amount,
                               !.allowGuests = IF dcall[h].allowGuests = "same" THEN @ ELSE dcall[h].allowGuests = "yes"]
              ELSE due
    /\ log' = IF /\ due'.amount # due.amount
                 /\ (\E p \in People : pay[p].state = "open") \/ (\E g \in Clerks : dcall[g].at = "checkout")
              THEN [log EXCEPT !.overtaken = @ \cup {"open"}] ELSE log
    /\ DueGoto(h, Free)
    /\ UNCHANGED <<members, coReps, guests, pay>>

\* Mutant: any due but an active one can be published.
PublishDue_Again(h) ==
    /\ Exists /\ due.status # "active"
    /\ Arrives(h, [at |-> "kyc"])
    /\ UNCHANGED <<due, members, coReps, guests, pay, log>>

(* POST /dues/:dueId/publish: a draft,                                      *)
PublishDue(h) ==
    /\ due.status = "draft"
    /\ Arrives(h, [at |-> "kyc"])
    /\ UNCHANGED <<due, members, coReps, guests, pay, log>>

(* of a space that may collect (assertCanCollect),                          *)
AssertCanCollect(h) ==
    /\ dcall[h].at = "kyc"
    /\ \E next \in {Free, [at |-> "publish"]} : DueGoto(h, next)
    /\ UNCHANGED <<due, members, coReps, guests, pay, log>>

(* becomes active, whatever it is by then.                                  *)
WritePublished(h) ==
    /\ dcall[h].at = "publish"
    /\ due' = IF Exists THEN [due EXCEPT !.status = "active"] ELSE due
    /\ DueGoto(h, Free)
    /\ UNCHANGED <<members, coReps, guests, pay, log>>

(* POST /dues/:dueId/close                                                  *)
CloseDue(h) ==
    /\ due.status = "active"
    /\ Arrives(h, [at |-> "close"])
    /\ UNCHANGED <<due, members, coReps, guests, pay, log>>

WriteClosed(h) ==
    /\ dcall[h].at = "close"
    /\ due' = IF Exists THEN [due EXCEPT !.status = "closed"] ELSE due
    /\ Overtakes(h, "reopen", {"kyc", "publish"})
    /\ DueGoto(h, Free)
    /\ UNCHANGED <<members, coReps, guests, pay>>

(* DELETE /dues/:dueId: a draft;                                            *)
DeleteDue(h) ==
    /\ due.status = "draft"
    /\ Arrives(h, [at |-> "delete"])
    /\ UNCHANGED <<due, members, coReps, guests, pay, log>>

\* Mutant: no checkout or payment restricts the deletion.
DeleteRow_Cascades(h) ==
    /\ dcall[h].at = "delete"
    /\ due' = IF Exists THEN NoRow("deleted") ELSE due
    /\ DueGoto(h, Free)
    /\ UNCHANGED <<members, coReps, guests, pay, log>>

(* the keys of checkout_items and due_payments restrict the deletion, of    *)
(* whatever it is by then.                                                  *)
DeleteRow(h) ==
    /\ dcall[h].at = "delete"
    /\ due' = IF Exists /\ \A p \in People : pay[p] = NoPay THEN NoRow("deleted") ELSE due
    /\ DueGoto(h, Free)
    /\ UNCHANGED <<members, coReps, guests, pay, log>>

(* POST /dues/:dueId/reassign, the lead's: to another co-rep.               *)
ReassignDue(h, to) ==
    /\ Exists /\ to \in coReps /\ due.assignedRepId # to
    /\ Arrives(h, [at |-> "reassign", to |-> to])
    /\ UNCHANGED <<due, members, coReps, guests, pay, log>>

WriteAssignment(h) ==
    /\ dcall[h].at = "reassign"
    /\ due' = IF Exists THEN [due EXCEPT !.assignedRepId = dcall[h].to] ELSE due
    /\ DueGoto(h, Free)
    /\ UNCHANGED <<members, coReps, guests, pay, log>>

(* POST /dues/:dueId/remind                                                 *)
RemindDue(h) ==
    /\ Exists
    /\ Arrives(h, [at |-> "remind"])
    /\ UNCHANGED <<due, members, coReps, guests, pay, log>>

(* history: a reminder was claimed.                                         *)
Claimed == log' = [log EXCEPT !.claims = IF @ < 2 THEN @ + 1 ELSE @]

\* Mutant: the cooldown is checked when the due is read, and not by the update.
ClaimReminder_Unconditional(h) ==
    /\ dcall[h].at = "remind"
    /\ IF Exists THEN due' = [due EXCEPT !.reminded = TRUE] /\ Claimed ELSE UNCHANGED <<due, log>>
    /\ DueGoto(h, Free)
    /\ UNCHANGED <<members, coReps, guests, pay>>

(* The conditional update; whoever loses it answers REMINDER_COOLDOWN.      *)
ClaimReminder(h) ==
    /\ dcall[h].at = "remind"
    /\ IF Exists /\ ~due.reminded THEN due' = [due EXCEPT !.reminded = TRUE] /\ Claimed ELSE UNCHANGED <<due, log>>
    /\ DueGoto(h, Free)
    /\ UNCHANGED <<members, coReps, guests, pay>>

(* REMIND_COOLDOWN_MS passes.                                               *)
CooldownPasses ==
    /\ due.reminded
    /\ due' = [due EXCEPT !.reminded = FALSE]
    /\ log' = [log EXCEPT !.claims = 0]
    /\ UNCHANGED <<members, coReps, guests, pay, dcall>>

-----------------------------------------------------------------------------
(* The people                                                              *)

\* Mutant: a guest's row joins like an account.
JoinSpace_Guest(p) ==
    /\ p \notin members
    /\ log.overtaken = {}
    /\ members' = members \cup {p}
    /\ UNCHANGED <<due, coReps, guests, pay, dcall, log>>

(* POST /spaces/:spaceId/join: anyone with an account; the unique           *)
(* membership settles two requests.                                         *)
JoinSpace(p) ==
    /\ p \notin members \cup guests
    /\ log.overtaken = {}
    /\ members' = members \cup {p}
    /\ UNCHANGED <<due, coReps, guests, pay, dcall, log>>

(* POST /assistant/confirm with an invite code.                             *)
ConfirmJoinDepartment(p) == JoinSpace(p)

(* A guest registers with the e-mail they paid with (Sessions).             *)
ClaimGuest(p) ==
    /\ p \in guests
    /\ log.overtaken = {}
    /\ guests' = guests \ {p}
    /\ UNCHANGED <<due, members, coReps, pay, dcall, log>>

(* DELETE /spaces/:spaceId/membership: not a rep,                           *)
LeaveSpace(h, p) ==
    /\ p \in members \ coReps
    /\ Arrives(h, [at |-> "leave", p |-> p])
    /\ UNCHANGED <<due, members, coReps, guests, pay, log>>

(* with no active due unpaid;                                               *)
CountOutstanding(h) ==
    LET p == dcall[h].p IN
    /\ dcall[h].at = "leave"
    /\ DueGoto(h, IF due.status = "active" /\ p \notin Paid THEN Free ELSE [dcall[h] EXCEPT !.at = "drop"])
    /\ UNCHANGED <<due, members, coReps, guests, pay, log>>

\* Mutant: a rep's membership can be removed.
RemoveMember_Rep(h, p) ==
    /\ p \in members
    /\ Arrives(h, [at |-> "drop", p |-> p])
    /\ UNCHANGED <<due, members, coReps, guests, pay, log>>

(* DELETE /members/:userId, the lead's: not a rep;                          *)
RemoveMember(h, p) ==
    /\ p \in members \ coReps
    /\ Arrives(h, [at |-> "drop", p |-> p])
    /\ UNCHANGED <<due, members, coReps, guests, pay, log>>

(* the membership goes, and a second deletion of it throws.                 *)
DeleteMembership(h) ==
    /\ dcall[h].at = "drop"
    /\ members' = members \ {dcall[h].p}
    /\ Overtakes(h, "team", {"rep"})
    /\ DueGoto(h, Free)
    /\ UNCHANGED <<due, coReps, guests, pay>>

(* POST /reps: a member who is no rep,                                      *)
AddCoRep(h, p) ==
    /\ p \in (members \cap Candidates) \ coReps
    /\ Arrives(h, [at |-> "rep", p |-> p])
    /\ UNCHANGED <<due, members, coReps, guests, pay, log>>

WriteCoRep(h) ==
    /\ dcall[h].at = "rep"
    /\ coReps' = coReps \cup {dcall[h].p}
    /\ Overtakes(h, "team", {"leave", "drop"})
    /\ DueGoto(h, Free)
    /\ UNCHANGED <<due, members, guests, pay>>

\* Mutant: the assignment outlives the role.
RemoveCoRep_KeepsDues(p) ==
    /\ p \in coReps /\ log.overtaken = {}
    /\ coReps' = coReps \ {p}
    /\ log' = IF \E g \in Clerks : dcall[g].at \in {"create", "reassign"}
              THEN [log EXCEPT !.overtaken = @ \cup {"assign"}] ELSE log
    /\ UNCHANGED <<due, members, guests, pay, dcall>>

(* DELETE /reps/:userId: the role and the assignments go in one             *)
(* transaction.                                                             *)
RemoveCoRep(p) ==
    /\ p \in coReps /\ log.overtaken = {}
    /\ coReps' = coReps \ {p}
    /\ due' = IF due.assignedRepId = p THEN [due EXCEPT !.assignedRepId = Nobody] ELSE due
    /\ log' = IF \E g \in Clerks : dcall[g].at \in {"create", "reassign"}
              THEN [log EXCEPT !.overtaken = @ \cup {"assign"}] ELSE log
    /\ UNCHANGED <<members, guests, pay, dcall>>

(* POST /dues/pay: the due is active and unpaid, the payer a member;        *)
OpenCheckout(h, p) ==
    /\ due.status = "active"
    /\ p \in members \ Paid
    /\ Arrives(h, [at |-> "checkout", p |-> p, amount |-> due.amount])
    /\ UNCHANGED <<due, members, coReps, guests, pay, log>>

(* POST /public/dues/:dueId/checkout: a guest, where guests are allowed.    *)
GuestCheckout(h, p) ==
    /\ due.status = "active" /\ due.allowGuests
    /\ p \in guests \ Paid
    /\ Arrives(h, [at |-> "checkout", p |-> p, amount |-> due.amount])
    /\ UNCHANGED <<due, members, coReps, guests, pay, log>>

(* The open checkout is used again; or one is inserted with the amount that *)
(* was read, in place of one that lapsed, and its line's key needs the due. *)
(* (One for a due that was paid meanwhile is the subject of Checkout.)      *)
InsertItem(h) ==
    LET p == dcall[h].p IN
    /\ dcall[h].at = "checkout"
    /\ \/ (pay[p].state # "none" \/ ~Exists) /\ UNCHANGED pay
       \/ /\ Exists /\ p \notin Paid
          /\ pay' = [pay EXCEPT ![p] = [state |-> "open", amount |-> dcall[h].amount]]
    /\ DueGoto(h, Free)
    /\ UNCHANGED <<due, members, coReps, guests, log>>

(* fulfilCheckout: it is paid, whatever the due has become.                 *)
Settles(p) ==
    /\ pay[p].state = "open" /\ log.overtaken = {}
    /\ pay' = [pay EXCEPT ![p].state = "paid"]
    /\ log' = IF \E g \in Clerks : dcall[g].at = "update" /\ dcall[g].amount \notin {0, due.amount}
              THEN [log EXCEPT !.overtaken = @ \cup {"amount"}] ELSE log
    /\ UNCHANGED <<due, members, coReps, guests, dcall>>

(* The process dies in a handler.                                           *)
DueInterrupt(h) ==
    /\ dcall[h] # Free
    /\ DueGoto(h, Free)
    /\ UNCHANGED <<due, members, coReps, guests, pay, log>>

-----------------------------------------------------------------------------
DuesNext ==
    \/ \E h \in Clerks :
          \/ CreateDue(h) \/ ConfirmCreateDue(h) \/ InsertDue(h) \/ PatchDue(h) \/ CountPayments(h) \/ UpdateDue(h)
          \/ PublishDue(h) \/ AssertCanCollect(h) \/ WritePublished(h) \/ CloseDue(h) \/ WriteClosed(h)
          \/ DeleteDue(h) \/ DeleteRow(h) \/ WriteAssignment(h) \/ RemindDue(h) \/ ClaimReminder(h)
          \/ CountOutstanding(h) \/ DeleteMembership(h) \/ WriteCoRep(h) \/ InsertItem(h) \/ DueInterrupt(h)
          \/ \E p \in People : \/ ReassignDue(h, p) \/ LeaveSpace(h, p) \/ RemoveMember(h, p)
                               \/ AddCoRep(h, p) \/ OpenCheckout(h, p) \/ GuestCheckout(h, p)
    \/ \E p \in People : JoinSpace(p) \/ ConfirmJoinDepartment(p) \/ ClaimGuest(p) \/ RemoveCoRep(p) \/ Settles(p)
    \/ CooldownPasses

DuesSpec == DuesInit /\ [][DuesNext]_duesVars
-----------------------------------------------------------------------------
(* The roster (GET /dues/:dueId/collections and its export)                *)

(* The lead is a member, and never pays here.                               *)
MemberCount == Cardinality(members) + 1

\* Mutant: guests are counted with the members.
PaidCount_Everyone == Cardinality(Paid)

PaidCount == Cardinality(Paid \ guests)

(* totals.unpaid                                                            *)
UnpaidTotal == IF PaidCount > MemberCount THEN 0 ELSE MemberCount - PaidCount

(* buildRoster: the members, paid or unpaid.                                *)
Roster(filter) ==
    CASE filter = "paid" -> members \cap Paid
      [] filter = "unpaid" -> (members \ Paid) \cup {Lead}
      [] filter = "all" -> members \cup {Lead}

-----------------------------------------------------------------------------
(* Properties                                                              *)

(* A due with an open checkout or a payment is published and on file,       *)
(* whichever of publishing, closing, editing, deleting and paying overlap   *)
(* (repDues.ts: only drafts are deleted, only active dues are paid).        *)
MoneyIsOnAPublishedDue == (\E p \in People : pay[p] # NoPay) => due.status \in {"active", "closed"}

(* "amount is immutable once any payment exists" (PATCH /dues/:dueId): who  *)
(* has paid has paid what the due asks.  Two orders of the steps excepted:  *)
(* a payment that lands after an edit has counted none, and an edit while a *)
(* checkout is open, which keeps the amount it copied, so that payers of    *)
(* one due pay different amounts.                                           *)
PaidTheAmount ==
    log.overtaken \cap {"amount", "open"} = {} => \A p \in Paid : pay[p].amount = due.amount

(* "Only a draft due can be published": a closed due does not open again,   *)
(* in every order of the steps but one: a publication that read the draft,  *)
(* while another published it and closed it.                                *)
ClosedIsFinal ==
    [][due.status = "closed" /\ "reopen" \notin log.overtaken => due'.status # "active"]_duesVars

(* "Their due assignments end with the role" (DELETE /reps/:userId): a due  *)
(* is assigned to a rep of the space, unless the role ended after an        *)
(* assignment had checked it.                                               *)
AssigneeIsRep ==
    Exists /\ "assign" \notin log.overtaken => due.assignedRepId \in coReps \cup {Lead, Nobody}

(* "Removing membership alone would leave a rep with powers over a space    *)
(* they're no longer in" (DELETE /members/:userId): co-reps are members,    *)
(* unless one request changed the role after the other had checked it.      *)
RepsAreMembers == "team" \notin log.overtaken => coReps \subseteq members

(* "One blast per due per 24h", however many reps press the button at once. *)
RemindedOncePerDay == log.claims <= 1

(* The totals say what the roster lists, as long as everyone with an        *)
(* account who paid is a member still.                                      *)
TotalsMatchRoster ==
    Paid \ guests \subseteq members =>
        /\ PaidCount = Cardinality(Roster("paid"))
        /\ UnpaidTotal = Cardinality(Roster("unpaid"))

(* A due asks everybody the same and once a day, is run by a rep of the     *)
(* space, keeps the money paid on it, and its totals are those of the       *)
(* roster (repDues.ts, circle.ts).                                          *)
DueIsHonest ==
    /\ MoneyIsOnAPublishedDue
    /\ PaidTheAmount
    /\ TotalsMatchRoster
    /\ AssigneeIsRep
    /\ RepsAreMembers
    /\ RemindedOncePerDay
=============================================================================
