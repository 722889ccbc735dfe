------------------------------- MODULE Ledger -------------------------------
(***************************************************************************)
(* The append-only ledger of one space (services/ledger.service.ts).  The  *)
(* balance is never stored: every read is a SUM over the rows.  A ledger   *)
(* is kept here as what those queries return: the unique keys written so   *)
(* far, the SUM over all rows, and the SUM per due (GROUP BY "dueId").     *)
(***************************************************************************)
EXTENDS Integers, Sequences

CONSTANTS Dues,      \* the dues of the space
          NoDue,     \* the null dueId: whole-balance withdrawals
          DueOrder   \* the dues as getDueAvailability sorts them: those the
                     \* lead holds first, then co-reps', oldest first in each

ASSUME DueOrderAssumption ==
    /\ NoDue \notin Dues
    /\ DueOrder \in Seq(Dues)
    /\ Dues = {DueOrder[i] : i \in 1..Len(DueOrder)}
    /\ \A i, j \in 1..Len(DueOrder) : DueOrder[i] = DueOrder[j] => i = j

DueIds == Dues \cup {NoDue}

CREDIT_TYPES == {"due_payment", "manual_credit", "payout_reversal"}
DEBIT_TYPES == {"payout", "payout_fee", "refund"}

(* Ledgers whose entries are keyed by the given ids.                        *)
LedgerOf(ids) == [keys    : SUBSET ((CREDIT_TYPES \cup DEBIT_TYPES) \X ids),
                  balance : Int,
                  net     : [DueIds -> Int]]

EmptyLedger == [keys |-> {}, balance |-> 0, net |-> [d \in DueIds |-> 0]]

Signed(type, amount) == IF type \in CREDIT_TYPES THEN amount ELSE -amount

(* Append one entry; a replayed (type, id) key changes nothing (ON CONFLICT *)
(* DO NOTHING).  Callers pass a positive amount: anything else throws and   *)
(* rolls the caller's transaction back.                                     *)
AppendLedgerEntry(l, type, id, due, amount) ==
    IF <<type, id>> \in l.keys
    THEN l
    ELSE [keys    |-> l.keys \cup {<<type, id>>},
          balance |-> l.balance + Signed(type, amount),
          net     |-> [l.net EXCEPT ![due] = @ + Signed(type, amount)]]

AtLeast0(n) == IF n > 0 THEN n ELSE 0

(* What the money that moved without a due, and every due below zero, must  *)
(* still take from the dues (the loop before the second pass).              *)
Deficit(net) ==
    LET below[i \in 0..Len(DueOrder)] ==
            IF i = 0 THEN AtLeast0(-net[NoDue])
                     ELSE below[i - 1] + AtLeast0(-net[DueOrder[i]])
    IN  below[Len(DueOrder)]

(* getDueAvailability: walk the dues in order; each gives up what is left   *)
(* of the deficit, as far as its own money goes, and keeps the rest.        *)
GetDueAvailability(net) ==
    LET left[i \in 0..Len(DueOrder)] ==
            IF i = 0 THEN Deficit(net)
                     ELSE AtLeast0(left[i - 1] - AtLeast0(net[DueOrder[i]]))
        at(d) == CHOOSE i \in 1..Len(DueOrder) : DueOrder[i] = d
    IN  [d \in Dues |-> AtLeast0(AtLeast0(net[d]) - left[at(d) - 1])]
=============================================================================
