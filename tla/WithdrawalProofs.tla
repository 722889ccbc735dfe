-------------------------- MODULE WithdrawalProofs --------------------------
(***************************************************************************)
(* Theorems about Withdrawal, for any number of payouts, dues, handlers,   *)
(* amounts and interruptions.                                              *)
(*                                                                         *)
(* The second half is about sums: what getDueAvailability makes of a       *)
(* ledger's sums per due, what a space is owed, and what the rep's         *)
(* provider account holds, for any finite number of payouts.               *)
(***************************************************************************)
EXTENDS Withdrawal, SumProofs

LedgerIds == Payouts \cup DuePayments

-----------------------------------------------------------------------------
(* The operators the actions are built from                                *)

(* AppendLedgerEntry keeps a ledger well formed.                            *)
LEMMA AppendType ==
    ASSUME NEW l \in LedgerOf(LedgerIds),
           NEW type \in CREDIT_TYPES \cup DEBIT_TYPES,
           NEW id \in LedgerIds, NEW due \in DueIds, NEW amount \in Int
    PROVE  AppendLedgerEntry(l, type, id, due, amount) \in LedgerOf(LedgerIds)
<1>1. Signed(type, amount) \in Int
  BY DEF Signed
<1>2. CASE <<type, id>> \in l.keys
  BY <1>2 DEF AppendLedgerEntry
<1>3. CASE <<type, id>> \notin l.keys
  BY <1>1, <1>3 DEF AppendLedgerEntry, LedgerOf
<1> QED BY <1>2, <1>3

(* A withdrawal's debit keeps a ledger well formed.                         *)
LEMMA DebitType ==
    ASSUME NEW l \in LedgerOf(LedgerIds), NEW p \in Payouts, NEW due \in DueIds,
           NEW gross \in Nat, NEW fee \in Nat
    PROVE  Debit(l, p, due, gross, fee) \in LedgerOf(LedgerIds)
<1> p \in LedgerIds /\ {"payout", "payout_fee"} \subseteq CREDIT_TYPES \cup DEBIT_TYPES
  BY DEF LedgerIds, DEBIT_TYPES
<1> DEFINE sent == AppendLedgerEntry(l, "payout", p, due, gross - fee)
<1>1. gross - fee \in Int /\ fee \in Int
  OBVIOUS
<1>2. sent \in LedgerOf(LedgerIds)
  BY <1>1, AppendType
<1> HIDE DEF sent
<1>3. AppendLedgerEntry(sent, "payout_fee", p, due, fee) \in LedgerOf(LedgerIds)
  BY <1>1, <1>2, AppendType
<1> QED BY <1>2, <1>3 DEF Debit, sent

(* So does the credit that gives it back.                                   *)
LEMMA RestoreType ==
    ASSUME TypeOK, NEW p \in Payouts
    PROVE  RestoreBalance(ledger, p) \in LedgerOf(LedgerIds)
<1>1. payout[p].dueId \in DueIds /\ payout[p].amount \in Int
  BY DEF TypeOK, Row
<1>2. p \in LedgerIds /\ "payout_reversal" \in CREDIT_TYPES \cup DEBIT_TYPES
  BY DEF LedgerIds, CREDIT_TYPES
<1>3. ledger \in LedgerOf(LedgerIds)
  BY DEF TypeOK, LedgerIds
<1> QED BY <1>1, <1>2, <1>3, AppendType DEF RestoreBalance

(* The places a handler can be sent to are well-formed calls.               *)
LEMMA CallTypes ==
    ASSUME NEW p \in Payouts
    PROVE  /\ Idle \in Call
           /\ \A step \in CallSteps : At(step, p) \in Call
           /\ \A step \in CallSteps, a \in Int : AtAmount(step, p, a) \in Call
           /\ \A s \in BankState : Answered(p, s) \in Call
           /\ \A s : After(s, p) \in Call
           /\ \A s : After(s, p).at # "idle" => After(s, p).p \in Payouts
<1>1. Idle \in Call
  BY DEF Idle, Call, CallSteps, BankState
<1>2. \A step \in CallSteps, a \in Int : AtAmount(step, p, a) \in Call
  BY DEF AtAmount, Call, BankState
<1>3. \A step \in CallSteps : At(step, p) \in Call
  BY DEF At, Call, BankState
<1>4. \A s \in BankState : Answered(p, s) \in Call
  BY DEF Answered, Call, CallSteps
<1>5. \A s : After(s, p) \in Call
  BY <1>1, <1>3 DEF After, CallSteps
<1>6. \A s : After(s, p).at # "idle" => After(s, p).p \in Payouts
  BY DEF After, At, Idle
<1> QED BY <1>1, <1>2, <1>3, <1>4, <1>5, <1>6

(* Updating one handler keeps the table of calls well formed.               *)
LEMMA CallUpdate ==
    ASSUME TypeOK, NEW h \in Handlers, NEW c \in Call,
           c.at # "idle" => c.p \in Payouts,
           call' = [call EXCEPT ![h] = c]
    PROVE  /\ call' \in [Handlers -> Call]
           /\ \A g \in Handlers : call'[g].at # "idle" => call'[g].p \in Payouts
  BY DEF TypeOK

(* The type invariant.                                                      *)
LEMMA TypeStep == TypeOK /\ [Next]_vars => TypeOK'
<1> SUFFICES ASSUME TypeOK, [Next]_vars PROVE TypeOK'
  OBVIOUS
<1> USE DEF CallSteps
<1>1. ASSUME NEW dp \in DuePayments, NEW d \in Dues, DuePaid(dp, d)
      PROVE  TypeOK'
  <2>1. ledger' \in LedgerOf(LedgerIds)
    <3>1. /\ ledger \in LedgerOf(LedgerIds) /\ dp \in LedgerIds /\ d \in DueIds /\ Face \in Int
          /\ "due_payment" \in CREDIT_TYPES \cup DEBIT_TYPES
      BY WithdrawalAssumption DEF TypeOK, LedgerIds, DueIds, CREDIT_TYPES
    <3> QED BY <1>1, <3>1, AppendType DEF DuePaid
  <2> QED BY <1>1, <2>1, WithdrawalAssumption DEF DuePaid, TypeOK, LedgerIds
<1>2. ASSUME NEW h \in Handlers, NEW p \in Payouts, NEW gross \in Amounts, NEW fee \in Fees,
             NEW due \in DueIds, NEW needsApproval \in BOOLEAN,
             RequestWithdrawal(h, p, gross, fee, due, needsApproval)
      PROVE  TypeOK'
  <2>1. gross \in Nat /\ fee \in Nat
    BY WithdrawalAssumption
  <2>2. ledger' \in LedgerOf(LedgerIds)
    BY <1>2, <2>1, DebitType DEF RequestWithdrawal, TypeOK, LedgerIds
  <2>3. payout' \in [Payouts -> Row]
    <3> DEFINE st == IF needsApproval THEN "awaiting_approval" ELSE "pending"
    <3>1. st \in PayoutStatus
      BY DEF PayoutStatus
    <3>2. payout' = [payout EXCEPT ![p] = NewRow(st, gross, fee, due)]
      BY <1>2 DEF RequestWithdrawal
    <3> HIDE DEF st
    <3>3. NewRow(st, gross, fee, due) \in Row
      BY <2>1, <3>1 DEF NewRow, Row
    <3> QED BY <3>2, <3>3 DEF TypeOK
  <2>4. /\ call' \in [Handlers -> Call]
        /\ \A g \in Handlers : call'[g].at # "idle" => call'[g].p \in Payouts
    BY <1>2, CallTypes, CallUpdate DEF RequestWithdrawal, Goto, Return, At, Idle
  <2> QED BY <1>2, <2>2, <2>3, <2>4 DEF RequestWithdrawal, TypeOK, LedgerIds

<1>3. ASSUME NEW h \in Handlers, NEW p \in Payouts, ReleaseApproved(h, p)
      PROVE  TypeOK'
  <2>1. /\ call' \in [Handlers -> Call]
        /\ \A g \in Handlers : call'[g].at # "idle" => call'[g].p \in Payouts
    BY <1>3, CallTypes, CallUpdate DEF ReleaseApproved, Goto, At
  <2>2. payout' \in [Payouts -> Row]
    BY <1>3 DEF ReleaseApproved, TypeOK, Row, PayoutStatus
  <2> QED BY <1>3, <2>1, <2>2 DEF ReleaseApproved, TypeOK
<1>4. ASSUME NEW h \in Handlers, NEW p \in Payouts, CancelPayout(h, p)
      PROVE  TypeOK'
  <2>1. ledger' \in LedgerOf(LedgerIds)
    BY <1>4, RestoreType DEF CancelPayout
  <2>2. payout' \in [Payouts -> Row]
    BY <1>4, ZenonT(60) DEF CancelPayout, TypeOK, Row, PayoutStatus
  <2> QED BY <1>4, <2>1, <2>2 DEF CancelPayout, TypeOK, LedgerIds
<1>5. ASSUME NEW h \in Handlers, DispatchPayout(h)
      PROVE  TypeOK'
  <2>1. call[h].p \in Payouts /\ call[h] \in Call
    BY <1>5 DEF DispatchPayout, TypeOK
  <2>2. /\ call' \in [Handlers -> Call]
        /\ \A g \in Handlers : call'[g].at # "idle" => call'[g].p \in Payouts
    BY <1>5, <2>1, CallTypes, CallUpdate DEF DispatchPayout, Goto, Return, At, Idle
  <2> QED BY <1>5, <2>1, <2>2 DEF DispatchPayout, TypeOK
<1>6. ASSUME NEW h \in Handlers, RecordDispatch(h)
      PROVE  TypeOK'
  <2>1. call[h].p \in Payouts /\ call[h] \in Call
    BY <1>6 DEF RecordDispatch, TypeOK
  <2>2. /\ call' \in [Handlers -> Call]
        /\ \A g \in Handlers : call'[g].at # "idle" => call'[g].p \in Payouts
    BY <1>6, <2>1, CallTypes, CallUpdate DEF RecordDispatch
  <2>3. payout' \in [Payouts -> Row]
    <3>1. bank[call[h].p].fee \in Nat
      BY <2>1 DEF TypeOK, BankRecord
    <3> QED BY <1>6, <2>1, <3>1 DEF RecordDispatch, TypeOK, Row, PayoutStatus
  <2> QED BY <1>6, <2>1, <2>2, <2>3 DEF RecordDispatch, TypeOK
<1>7. ASSUME NEW h \in Handlers, CompletePayout(h)
      PROVE  TypeOK'
  <2>1. call[h].p \in Payouts /\ call[h] \in Call
    BY <1>7 DEF CompletePayout, TypeOK
  <2>2. /\ call' \in [Handlers -> Call]
        /\ \A g \in Handlers : call'[g].at # "idle" => call'[g].p \in Payouts
    BY <1>7, <2>1, CallTypes, CallUpdate DEF CompletePayout, Goto, Return, At, Idle
  <2>3. payout' \in [Payouts -> Row]
    <3>1. bank[call[h].p].fee \in Nat
      BY <2>1 DEF TypeOK, BankRecord
    <3> QED BY <1>7, <2>1, <3>1 DEF CompletePayout, TypeOK, Row, PayoutStatus
  <2> QED BY <1>7, <2>1, <2>2, <2>3 DEF CompletePayout, TypeOK
<1>8. ASSUME NEW h \in Handlers, FailPayout(h)
      PROVE  TypeOK'
  <2>1. call[h].p \in Payouts /\ call[h] \in Call
    BY <1>8 DEF FailPayout, TypeOK
  <2>2. /\ call' \in [Handlers -> Call]
        /\ \A g \in Handlers : call'[g].at # "idle" => call'[g].p \in Payouts
    BY <1>8, <2>1, CallTypes, CallUpdate DEF FailPayout, Return, AtAmount, Idle, TypeOK, Row
  <2>3. payout' \in [Payouts -> Row]
    BY <1>8, <2>1 DEF FailPayout, FailedStatus, TypeOK, Row, PayoutStatus
  <2>4. ledger' \in LedgerOf(LedgerIds)
    BY <1>8, <2>1, RestoreType DEF FailPayout, TypeOK, LedgerIds
  <2> QED BY <1>8, <2>1, <2>2, <2>3, <2>4 DEF FailPayout, TypeOK, LedgerIds
<1>9. ASSUME NEW h \in Handlers, SettleWithdrawalFee(h)
      PROVE  TypeOK'
  <2>1. call[h].p \in Payouts /\ call[h] \in Call
    BY <1>9 DEF SettleWithdrawalFee, TypeOK
  <2>2. /\ call' \in [Handlers -> Call]
        /\ \A g \in Handlers : call'[g].at # "idle" => call'[g].p \in Payouts
    BY <1>9, <2>1, CallTypes, CallUpdate DEF SettleWithdrawalFee, FeeShare, Return, AtAmount, Idle, TypeOK, Row
  <2> QED BY <1>9, <2>1, <2>2 DEF SettleWithdrawalFee, TypeOK
<1>10. ASSUME NEW h \in Handlers, RecordSettlement(h)
      PROVE  TypeOK'
  <2>1. call[h].p \in Payouts /\ call[h] \in Call
    BY <1>10 DEF RecordSettlement, TypeOK
  <2>2. /\ call' \in [Handlers -> Call]
        /\ \A g \in Handlers : call'[g].at # "idle" => call'[g].p \in Payouts
    BY <1>10, <2>1, CallTypes, CallUpdate DEF RecordSettlement, Return, Idle
  <2>3. payout' \in [Payouts -> Row]
    <3>1. call[h].amount \in Int
      BY <2>1 DEF Call
    <3> QED BY <1>10, <2>1, <3>1, ZenonT(60) DEF RecordSettlement, TypeOK, Row
  <2> QED BY <1>10, <2>1, <2>2, <2>3 DEF RecordSettlement, TypeOK
<1>11. ASSUME NEW h \in Handlers, NEW e \in events, ProcessEvent(h, e)
      PROVE  TypeOK'
  <2>1. e.p \in Payouts
    BY DEF TypeOK, Event
  <2>2. /\ call' \in [Handlers -> Call]
        /\ \A g \in Handlers : call'[g].at # "idle" => call'[g].p \in Payouts
    BY <1>11, <2>1, CallTypes, CallUpdate DEF ProcessEvent
  <2> QED BY <1>11, <2>1, <2>2 DEF ProcessEvent, TypeOK
<1>12. ASSUME NEW h \in Handlers, NEW p \in Payouts, RetryDispatch(h, p)
      PROVE  TypeOK'
  <2>1. /\ call' \in [Handlers -> Call]
        /\ \A g \in Handlers : call'[g].at # "idle" => call'[g].p \in Payouts
    BY <1>12, CallTypes, CallUpdate DEF RetryDispatch, Goto, At
  <2> QED BY <1>12, <2>1 DEF RetryDispatch, TypeOK
<1>13. ASSUME NEW h \in Handlers, NEW p \in Payouts, RefreshPayout(h, p)
      PROVE  TypeOK'
  <2>1. /\ call' \in [Handlers -> Call]
        /\ \A g \in Handlers : call'[g].at # "idle" => call'[g].p \in Payouts
    BY <1>13, CallTypes, CallUpdate DEF RefreshPayout, Goto, At
  <2> QED BY <1>13, <2>1 DEF RefreshPayout, TypeOK
<1>14. ASSUME NEW h \in Handlers, NEW p \in Payouts, RetrySettlement(h, p)
      PROVE  TypeOK'
  <2>1. /\ call' \in [Handlers -> Call]
        /\ \A g \in Handlers : call'[g].at # "idle" => call'[g].p \in Payouts
    BY <1>14, CallTypes, CallUpdate DEF RetrySettlement, Goto, At
  <2> QED BY <1>14, <2>1 DEF RetrySettlement, TypeOK
<1>15. ASSUME NEW h \in Handlers, Interrupt(h)
      PROVE  TypeOK'
  <2>1. call' \in [Handlers -> Call] /\ \A g \in Handlers : call'[g].at # "idle" => call'[g].p \in Payouts
    BY <1>15 DEF Interrupt, Return, Idle, Call, TypeOK, BankState
  <2> QED BY <1>15, <2>1, WithdrawalAssumption DEF Interrupt, TypeOK
<1>16. ASSUME NEW h \in Handlers, NEW s \in {"pending", "paid", "failed"}, NEW fee \in ProviderFees, BankAccepts(h, s, fee)
      PROVE  TypeOK'
  <2>1. call[h].p \in Payouts /\ call[h] \in Call /\ fee \in Nat
    BY <1>16, WithdrawalAssumption DEF BankAccepts, TypeOK
  <2>2. /\ call' \in [Handlers -> Call]
        /\ \A g \in Handlers : call'[g].at # "idle" => call'[g].p \in Payouts
    BY <1>16, <2>1, CallTypes, CallUpdate DEF BankAccepts, Answer, Answered, Goto, At, BankState
  <2>3. bank' \in [Payouts -> BankRecord]
    <3> DEFINE rec == [bank[call[h].p] EXCEPT !.state = s, !.first = s, !.fee = fee]
    <3>1. bank[call[h].p] \in BankRecord /\ s \in BankState
      BY <2>1 DEF TypeOK, BankState
    <3>2. rec \in BankRecord
      BY <2>1, <3>1 DEF BankRecord
    <3>3. bank' = bank \/ bank' = [bank EXCEPT ![call[h].p] = rec]
      BY <1>16 DEF BankAccepts
    <3> HIDE DEF rec
    <3> QED BY <2>1, <3>2, <3>3 DEF TypeOK
  <2>3a. account' \in Int
    <3>1. NetKobo(call[h].p) \in Int /\ bank[call[h].p].fee \in Int
      BY <1>16, <2>1 DEF NetKobo, TypeOK, Row, BankRecord
    <3> QED BY <1>16, <2>1, <3>1 DEF BankAccepts, TypeOK, Call
  <2>3b. events' \in SUBSET Event
    BY <1>16, <2>1 DEF BankAccepts, Emitted, TypeOK
  <2> QED BY <1>16, <2>1, <2>2, <2>3, <2>3a, <2>3b DEF BankAccepts, TypeOK
<1>17. ASSUME NEW h \in Handlers, BankRefuses(h)
      PROVE  TypeOK'
  <2>1. call[h].p \in Payouts /\ call[h] \in Call
    BY <1>17 DEF BankRefuses, TypeOK
  <2>2. /\ call' \in [Handlers -> Call]
        /\ \A g \in Handlers : call'[g].at # "idle" => call'[g].p \in Payouts
    BY <1>17, <2>1, CallTypes, CallUpdate DEF BankRefuses, Goto, At
  <2>3. bank' \in [Payouts -> BankRecord]
    <3> DEFINE rec == [bank[call[h].p] EXCEPT !.state = "refused", !.first = "refused"]
    <3>1. bank[call[h].p] \in BankRecord /\ "refused" \in BankState
      BY <2>1 DEF TypeOK, BankState
    <3>2. rec \in BankRecord
      BY <2>1, <3>1 DEF BankRecord
    <3>3. bank' = bank \/ bank' = [bank EXCEPT ![call[h].p] = rec]
      BY <1>17 DEF BankRefuses
    <3> HIDE DEF rec
    <3> QED BY <2>1, <3>2, <3>3 DEF TypeOK
  <2>3a. account' \in Int
    <3>1. NetKobo(call[h].p) \in Int /\ bank[call[h].p].fee \in Int
      BY <1>17, <2>1 DEF NetKobo, TypeOK, Row, BankRecord
    <3> QED BY <1>17, <2>1, <3>1 DEF BankRefuses, TypeOK, Call
  <2>3b. events' \in SUBSET Event
    BY <1>17, <2>1 DEF BankRefuses, Emitted, TypeOK
  <2> QED BY <1>17, <2>1, <2>2, <2>3, <2>3a, <2>3b DEF BankRefuses, TypeOK
<1>18. ASSUME NEW h \in Handlers, BankReplays(h)
      PROVE  TypeOK'
  <2>1. call[h].p \in Payouts /\ call[h] \in Call
    BY <1>18 DEF BankReplays, TypeOK
  <2>2. /\ call' \in [Handlers -> Call]
        /\ \A g \in Handlers : call'[g].at # "idle" => call'[g].p \in Payouts
    BY <1>18, <2>1, CallTypes, CallUpdate DEF BankReplays, Goto, Answer, Answered, At, TypeOK, BankRecord
  <2> QED BY <1>18, <2>1, <2>2 DEF BankReplays, TypeOK
<1>19. ASSUME NEW h \in Handlers, BankReports(h)
      PROVE  TypeOK'
  <2>1. call[h].p \in Payouts /\ call[h] \in Call
    BY <1>19 DEF BankReports, TypeOK
  <2>2. /\ call' \in [Handlers -> Call]
        /\ \A g \in Handlers : call'[g].at # "idle" => call'[g].p \in Payouts
    BY <1>19, <2>1, CallTypes, CallUpdate DEF BankReports
  <2> QED BY <1>19, <2>1, <2>2 DEF BankReports, TypeOK
<1>20. ASSUME NEW h \in Handlers, BankSweeps(h)
      PROVE  TypeOK'
  <2>1. call[h].p \in Payouts /\ call[h] \in Call
    BY <1>20 DEF BankSweeps, TypeOK
  <2>2. /\ call' \in [Handlers -> Call]
        /\ \A g \in Handlers : call'[g].at # "idle" => call'[g].p \in Payouts
    BY <1>20, <2>1, CallTypes, CallUpdate DEF BankSweeps, AtAmount, Call
  <2>3. bank' \in [Payouts -> BankRecord]
    <3> DEFINE rec == [bank[call[h].p] EXCEPT !.swept = TRUE, !.sweptKobo = call[h].amount]
    <3>1. bank[call[h].p] \in BankRecord /\ call[h].amount \in Int
      BY <2>1 DEF TypeOK, Call
    <3>2. rec \in BankRecord
      BY <2>1, <3>1 DEF BankRecord
    <3>3. bank' = bank \/ bank' = [bank EXCEPT ![call[h].p] = rec]
      BY <1>20 DEF BankSweeps
    <3> HIDE DEF rec
    <3> QED BY <2>1, <3>2, <3>3 DEF TypeOK
  <2>3a. account' \in Int
    <3>1. NetKobo(call[h].p) \in Int /\ bank[call[h].p].fee \in Int
      BY <1>20, <2>1 DEF NetKobo, TypeOK, Row, BankRecord
    <3> QED BY <1>20, <2>1, <3>1 DEF BankSweeps, TypeOK, Call
  <2>3b. events' \in SUBSET Event
    BY <1>20, <2>1 DEF BankSweeps, Emitted, TypeOK
  <2> QED BY <1>20, <2>1, <2>2, <2>3, <2>3a, <2>3b DEF BankSweeps, TypeOK
<1>21. ASSUME NEW h \in Handlers, BankRefusesSweep(h)
      PROVE  TypeOK'
  <2>1. call[h].p \in Payouts /\ call[h] \in Call
    BY <1>21 DEF BankRefusesSweep, TypeOK
  <2>2. /\ call' \in [Handlers -> Call]
        /\ \A g \in Handlers : call'[g].at # "idle" => call'[g].p \in Payouts
    BY <1>21, <2>1, CallTypes, CallUpdate DEF BankRefusesSweep, Return, Idle
  <2> QED BY <1>21, <2>1, <2>2 DEF BankRefusesSweep, TypeOK
<1>22. ASSUME NEW h \in Handlers, BankRefundsFee(h)
      PROVE  TypeOK'
  <2>1. call[h].p \in Payouts /\ call[h] \in Call
    BY <1>22 DEF BankRefundsFee, TypeOK
  <2>2. /\ call' \in [Handlers -> Call]
        /\ \A g \in Handlers : call'[g].at # "idle" => call'[g].p \in Payouts
    BY <1>22, <2>1, CallTypes, CallUpdate DEF BankRefundsFee, Return, Idle
  <2>3. bank' \in [Payouts -> BankRecord]
    <3> DEFINE rec == [bank[call[h].p] EXCEPT !.topup = TRUE]
    <3>1. bank[call[h].p] \in BankRecord
      BY <2>1 DEF TypeOK
    <3>2. rec \in BankRecord
      BY <2>1, <3>1 DEF BankRecord
    <3>3. bank' = bank \/ bank' = [bank EXCEPT ![call[h].p] = rec]
      BY <1>22 DEF BankRefundsFee
    <3> HIDE DEF rec
    <3> QED BY <2>1, <3>2, <3>3 DEF TypeOK
  <2>3a. account' \in Int
    <3>1. NetKobo(call[h].p) \in Int /\ bank[call[h].p].fee \in Int
      BY <1>22, <2>1 DEF NetKobo, TypeOK, Row, BankRecord
    <3> QED BY <1>22, <2>1, <3>1 DEF BankRefundsFee, TypeOK, Call
  <2>3b. events' \in SUBSET Event
    BY <1>22, <2>1 DEF BankRefundsFee, Emitted, TypeOK
  <2> QED BY <1>22, <2>1, <2>2, <2>3, <2>3a, <2>3b DEF BankRefundsFee, TypeOK
<1>23. ASSUME NEW p \in Payouts, BankPays(p)
      PROVE  TypeOK'
  <2>1. bank' \in [Payouts -> BankRecord]
    BY <1>23 DEF BankPays, TypeOK, BankRecord, BankState, Call
  <2>1a. account' \in Int
    <3>1. NetKobo(p) \in Int /\ bank[p].fee \in Int
      BY <1>23 DEF NetKobo, TypeOK, Row, BankRecord
    <3> QED BY <1>23, <3>1 DEF BankPays, TypeOK, Call
  <2>1b. events' \in SUBSET Event
    BY <1>23 DEF BankPays, Emitted, TypeOK
  <2> QED BY <1>23, <2>1, <2>1a, <2>1b DEF BankPays, TypeOK
<1>24. ASSUME NEW p \in Payouts, BankFails(p)
      PROVE  TypeOK'
  <2>1. bank' \in [Payouts -> BankRecord]
    BY <1>24 DEF BankFails, TypeOK, BankRecord, BankState, Call
  <2>1a. account' \in Int
    <3>1. NetKobo(p) \in Int /\ bank[p].fee \in Int
      BY <1>24 DEF NetKobo, TypeOK, Row, BankRecord
    <3> QED BY <1>24, <3>1 DEF BankFails, TypeOK, Call
  <2>1b. events' \in SUBSET Event
    BY <1>24 DEF BankFails, Emitted, TypeOK
  <2> QED BY <1>24, <2>1, <2>1a, <2>1b DEF BankFails, TypeOK
<1>25. CASE UNCHANGED vars
  BY <1>25 DEF vars, TypeOK
<1> QED
  BY <1>1, <1>2, <1>3, <1>4, <1>5, <1>6, <1>7, <1>8, <1>9, <1>10, <1>11, <1>12, <1>13, <1>14, <1>15, <1>16, <1>17, <1>18, <1>19, <1>20, <1>21, <1>22, <1>23, <1>24, <1>25
     DEF Next, WorkerNext, ReconcilerNext, ExpireStaleApproval, Continue, BankAnswers, Handlers

(* The initial state has the right types.                                   *)
LEMMA TypeInit == Init => TypeOK
  BY CallTypes, WithdrawalAssumption, DueOrderAssumption
     DEF Init, TypeOK, NoRow, Row, EmptyLedger, LedgerOf, Idle, Call, CallSteps, BankState,
         NoRecord, BankRecord, DueIds

(* Every variable keeps its type, whatever the handlers and the provider do.*)
THEOREM TypeCorrect == Spec => []TypeOK
  BY TypeInit, TypeStep, PTL DEF Spec

-----------------------------------------------------------------------------
(* What a step can do to the payouts and the ledger                         *)

Same(p) ==
    /\ payout'[p].status = payout[p].status
    /\ payout'[p].amount = payout[p].amount
    /\ payout'[p].feeKobo = payout[p].feeKobo
    /\ payout'[p].activeSpaceId = payout[p].activeSpaceId

OthersSame(p) == \A q \in Payouts \ {p} : Same(q)

Collects ==
    /\ \A q \in Payouts : Same(q)
    /\ \E dp \in DuePayments, d \in Dues :
          /\ <<"due_payment", dp>> \notin ledger.keys
          /\ ledger' = AppendLedgerEntry(ledger, "due_payment", dp, d, Face)
          /\ account' = account + Face

Opens(p, gross, fee, due) ==
    /\ payout[p].status = "none"
    /\ NoneInFlight
    /\ CoveredByBalance(due, gross)
    /\ payout'[p].status \in {"awaiting_approval", "pending"}
    /\ payout'[p].amount = gross /\ payout'[p].feeKobo = fee
    /\ payout'[p].activeSpaceId = TRUE
    /\ OthersSame(p)
    /\ ledger' = Debit(ledger, p, due, gross, fee)

Moves(p, to) ==
    /\ CanTransitionPayout(payout[p].status, to)
    /\ payout'[p].status = to
    /\ payout'[p].amount = payout[p].amount
    /\ payout'[p].feeKobo = payout[p].feeKobo
    /\ OthersSame(p)

Advances(p, to) ==
    /\ to \notin RESTORED
    /\ Moves(p, to)
    /\ payout'[p].activeSpaceId = IF to = "success" THEN FALSE ELSE payout[p].activeSpaceId
    /\ ledger' = ledger

Restores(p, to) ==
    /\ to \in RESTORED
    /\ Moves(p, to)
    /\ payout'[p].activeSpaceId = FALSE
    /\ ledger' = RestoreBalance(ledger, p)

Stays == ledger' = ledger /\ \A q \in Payouts : Same(q)

(* Every step of any handler, of the provider or of an interruption leaves  *)
(* rows and ledger alone, or does one of these four things to one payout.   *)
LEMMA StepShape ==
    ASSUME TypeOK, [Next]_vars
    PROVE  \/ Stays
           \/ Collects
           \/ \E p \in Payouts, gross \in Amounts, fee \in Fees, due \in DueIds : Opens(p, gross, fee, due)
           \/ \E p \in Payouts, to \in PayoutStatus : Advances(p, to) \/ Restores(p, to)
<1> DEFINE Shape ==
           \/ Stays
           \/ Collects
           \/ \E p \in Payouts, gross \in Amounts, fee \in Fees, due \in DueIds : Opens(p, gross, fee, due)
           \/ \E p \in Payouts, to \in PayoutStatus : Advances(p, to) \/ Restores(p, to)
<1>0. payout \in [Payouts -> Row]
  BY DEF TypeOK
<1>1. ASSUME NEW dp \in DuePayments, NEW d \in Dues, DuePaid(dp, d)
      PROVE  Collects
  BY <1>1 DEF DuePaid, Collects, Same
<1>2. ASSUME NEW h \in Handlers, NEW p \in Payouts, NEW gross \in Amounts, NEW fee \in Fees,
             NEW due \in DueIds, NEW needsApproval \in BOOLEAN,
             RequestWithdrawal(h, p, gross, fee, due, needsApproval)
      PROVE  Opens(p, gross, fee, due)
  BY <1>0, <1>2 DEF RequestWithdrawal, NewRow, Opens, OthersSame, Same
<1>3. ASSUME NEW h \in Handlers, NEW p \in Payouts, ReleaseApproved(h, p)
      PROVE  Advances(p, "pending")
  BY <1>0, <1>3 DEF ReleaseApproved, Advances, Moves, OthersSame, Same, RESTORED, Row
<1>4. ASSUME NEW h \in Handlers, NEW p \in Payouts, CancelPayout(h, p)
      PROVE  Restores(p, "cancelled")
  BY <1>0, <1>4 DEF CancelPayout, Restores, Moves, OthersSame, Same, RESTORED, Row
<1>5. ASSUME NEW h \in Handlers, RecordDispatch(h)
      PROVE  Stays \/ Advances(call[h].p, "processing")
  <2>1. call[h].p \in Payouts
    BY <1>5 DEF RecordDispatch, TypeOK
  <2>2. CASE ~StillPending(call[h].p)
    BY <1>5, <2>2 DEF RecordDispatch, Stays, Same
  <2>3. CASE StillPending(call[h].p)
    BY <1>0, <1>5, <2>1, <2>3
       DEF RecordDispatch, StillPending, CanTransitionPayout, PAYOUT_TRANSITIONS,
           Advances, Moves, OthersSame, Same, RESTORED, Row
  <2> QED BY <2>2, <2>3
<1>6. ASSUME NEW h \in Handlers, CompletePayout(h)
      PROVE  Stays \/ Advances(call[h].p, "success")
  <2>1. call[h].p \in Payouts
    BY <1>6 DEF CompletePayout, TypeOK
  <2>2. CASE ~CanTransitionPayout(payout[call[h].p].status, "success")
    BY <1>6, <2>2 DEF CompletePayout, Stays, Same
  <2>3. CASE CanTransitionPayout(payout[call[h].p].status, "success")
    <3>1. /\ payout' = [payout EXCEPT ![call[h].p].status = "success",
                                     ![call[h].p].activeSpaceId = FALSE,
                                     ![call[h].p].providerFee = bank[call[h].p].fee]
          /\ ledger' = ledger
      BY <1>6, <2>3 DEF CompletePayout
    <3>2. "success" \notin RESTORED
      BY DEF RESTORED
    <3>3. /\ payout'[call[h].p].status = "success"
          /\ payout'[call[h].p].activeSpaceId = FALSE
          /\ payout'[call[h].p].amount = payout[call[h].p].amount
          /\ payout'[call[h].p].feeKobo = payout[call[h].p].feeKobo
      BY <1>0, <2>1, <3>1, SMTT(60) DEF Row
    <3>4. OthersSame(call[h].p)
      BY <1>0, <2>1, <3>1 DEF OthersSame, Same
    <3> QED BY <2>3, <3>1, <3>2, <3>3, <3>4 DEF Advances, Moves
  <2> QED BY <2>2, <2>3
<1>7. ASSUME NEW h \in Handlers, FailPayout(h)
      PROVE  Stays \/ \E to \in PayoutStatus : Restores(call[h].p, to)
  <2>1. call[h].p \in Payouts
    BY <1>7 DEF FailPayout, TypeOK
  <2> DEFINE to == FailedStatus(call[h].p)
  <2>2. CASE ~CanTransitionPayout(payout[call[h].p].status, to)
    BY <1>7, <2>2 DEF FailPayout, Stays, Same
  <2>3. CASE CanTransitionPayout(payout[call[h].p].status, to)
    <3>1. to \in RESTORED /\ to \in PayoutStatus
      BY DEF FailedStatus, RESTORED, PayoutStatus
    <3> HIDE DEF to
    <3>2. payout' = [payout EXCEPT ![call[h].p].status = to, ![call[h].p].activeSpaceId = FALSE]
          /\ ledger' = RestoreBalance(ledger, call[h].p)
      BY <1>7, <2>3 DEF FailPayout, to
    <3>3. Restores(call[h].p, to)
      BY <1>0, <2>1, <2>3, <3>1, <3>2 DEF Restores, Moves, OthersSame, Same, Row
    <3> QED BY <3>1, <3>3
  <2> QED BY <2>2, <2>3
<1>8. ASSUME NEW h \in Handlers, RecordSettlement(h)
      PROVE  Stays
  <2>1. call[h].p \in Payouts
    BY <1>8 DEF RecordSettlement, TypeOK
  <2> QED BY <1>0, <1>8, <2>1 DEF RecordSettlement, Stays, Same, Row
<1>9. UNCHANGED <<payout, ledger>> => Stays
  BY DEF Stays, Same
<1>10. ASSUME NEW h \in Handlers, RecordDispatch(h) \/ CompletePayout(h) \/ FailPayout(h)
       PROVE  Shape
  <2>1. call[h].p \in Payouts /\ {"processing", "success"} \subseteq PayoutStatus
    BY <1>10 DEF RecordDispatch, CompletePayout, FailPayout, TypeOK, PayoutStatus
  <2> QED BY <1>5, <1>6, <1>7, <1>10, <2>1
<1>11. ASSUME NEW h \in Handlers, NEW p \in Payouts, ReleaseApproved(h, p) \/ CancelPayout(h, p)
       PROVE  Shape
  BY <1>3, <1>4, <1>11 DEF PayoutStatus
<1>12. ASSUME NEW h \in Handlers,
              \/ DispatchPayout(h) \/ SettleWithdrawalFee(h) \/ Interrupt(h) \/ BankAnswers(h)
              \/ \E p \in Payouts : RetryDispatch(h, p) \/ RefreshPayout(h, p) \/ RetrySettlement(h, p)
              \/ \E e \in events : ProcessEvent(h, e)
       PROVE  Stays
  BY <1>9, <1>12 DEF DispatchPayout, SettleWithdrawalFee, Interrupt, BankAnswers, RetryDispatch,
       RefreshPayout, RetrySettlement, ProcessEvent, BankAccepts, BankRefuses, BankReplays,
       BankReports, BankSweeps, BankRefusesSweep, BankRefundsFee
<1>13. ASSUME NEW p \in Payouts, BankPays(p) \/ BankFails(p)
       PROVE  Stays
  BY <1>9, <1>13 DEF BankPays, BankFails
<1>14. CASE UNCHANGED vars
  BY <1>9, <1>14 DEF vars
<1>15. CASE \E h \in Workers : WorkerNext(h)
  BY <1>15, <1>2, <1>11, <1>12 DEF WorkerNext, Handlers
<1>16. CASE \E h \in Reconcilers : ReconcilerNext(h)
  BY <1>16, <1>11, <1>12 DEF ReconcilerNext, ExpireStaleApproval, Handlers
<1>17. CASE \E h \in Handlers : Continue(h) \/ BankAnswers(h) \/ Interrupt(h)
  BY <1>17, <1>8, <1>10, <1>12 DEF Continue
<1> QED
  BY <1>1, <1>13, <1>14, <1>15, <1>16, <1>17 DEF Next

-----------------------------------------------------------------------------
(* At most one withdrawal in flight                                         *)

(* A step opens a withdrawal only when none is in flight, and frees the slot*)
(* exactly when it ends one.                                                *)
LEMMA FlightStep == TypeOK /\ OneInFlight /\ [Next]_vars => OneInFlight'
<1> SUFFICES ASSUME TypeOK, OneInFlight, [Next]_vars PROVE OneInFlight'
  OBVIOUS
<1>0. \A p \in Payouts : payout[p].activeSpaceId \in BOOLEAN
  BY DEF TypeOK, Row
<1>1. CASE Stays \/ Collects
  BY <1>1 DEF Stays, Collects, Same, OneInFlight
<1>2. ASSUME NEW p \in Payouts, NEW gross \in Amounts, NEW fee \in Fees, NEW due \in DueIds,
             Opens(p, gross, fee, due)
      PROVE  OneInFlight'
  BY <1>2 DEF Opens, OthersSame, Same, NoneInFlight, OneInFlight, PAYOUT_ACTIVE
<1>3. ASSUME NEW p \in Payouts, NEW to \in PayoutStatus, Advances(p, to)
      PROVE  OneInFlight'
  <2>1. /\ payout[p].status \in PAYOUT_ACTIVE
        /\ to \in PAYOUT_ACTIVE <=> to # "success"
    BY <1>3 DEF Advances, Moves, CanTransitionPayout, PAYOUT_TRANSITIONS, RESTORED, PAYOUT_ACTIVE
  <2> QED BY <1>3, <2>1 DEF Advances, Moves, OthersSame, Same, OneInFlight
<1>4. ASSUME NEW p \in Payouts, NEW to \in PayoutStatus, Restores(p, to)
      PROVE  OneInFlight'
  <2>1. to \notin PAYOUT_ACTIVE
    BY <1>4 DEF Restores, RESTORED, PAYOUT_ACTIVE
  <2> QED BY <1>4, <2>1 DEF Restores, Moves, OthersSame, Same, OneInFlight
<1> QED BY <1>1, <1>2, <1>3, <1>4, StepShape

(* The space's in-flight slot is held by at most one withdrawal, and by it  *)
(* exactly while it is in flight: requestWithdrawal's check and the         *)
(* activeSpaceId writes of every ending are enough, with no handler able to *)
(* leak the slot or to take it twice.                                       *)
THEOREM SlotExclusive == Spec => []OneInFlight
<1>1. Init => OneInFlight
  BY DEF Init, NoRow, OneInFlight, PAYOUT_ACTIVE
<1> QED BY <1>1, TypeCorrect, FlightStep, PTL DEF Spec

-----------------------------------------------------------------------------
(* The ledger's keys                                                        *)

(* Appending adds its key and no other.                                     *)
LEMMA AppendKeys ==
    ASSUME NEW l \in LedgerOf(LedgerIds), NEW type, NEW id, NEW due, NEW amount
    PROVE  AppendLedgerEntry(l, type, id, due, amount).keys = l.keys \cup {<<type, id>>}
  BY DEF AppendLedgerEntry, LedgerOf

(* A debit adds the key of the sent amount, and of the fee if there is one. *)
LEMMA DebitKeys ==
    ASSUME NEW l \in LedgerOf(LedgerIds), NEW p \in Payouts, NEW due \in DueIds,
           NEW gross \in Nat, NEW fee \in Nat
    PROVE  Debit(l, p, due, gross, fee).keys =
               l.keys \cup {<<"payout", p>>} \cup (IF fee = 0 THEN {} ELSE {<<"payout_fee", p>>})
<1> DEFINE sent == AppendLedgerEntry(l, "payout", p, due, gross - fee)
<1>1. sent \in LedgerOf(LedgerIds)
  <2>1. gross - fee \in Int /\ p \in LedgerIds /\ "payout" \in CREDIT_TYPES \cup DEBIT_TYPES
    BY DEF LedgerIds, DEBIT_TYPES
  <2> QED BY <2>1, AppendType
<1>2. sent.keys = l.keys \cup {<<"payout", p>>}
  BY AppendKeys
<1> HIDE DEF sent
<1>3. AppendLedgerEntry(sent, "payout_fee", p, due, fee).keys = sent.keys \cup {<<"payout_fee", p>>}
  BY <1>1, AppendKeys
<1> QED BY <1>2, <1>3 DEF Debit, sent

(* Opening writes the debit keys, an ending without payment the reversal    *)
(* key, and no other step writes a key of a withdrawal.                     *)
LEMMA KeysStep == TypeOK /\ LedgerMatchesStatus /\ [Next]_vars => LedgerMatchesStatus'
<1> SUFFICES ASSUME TypeOK, LedgerMatchesStatus, [Next]_vars PROVE LedgerMatchesStatus'
  OBVIOUS
<1>0. ledger \in LedgerOf(LedgerIds)
  BY DEF TypeOK, LedgerIds
<1>1. CASE Stays
  BY <1>1 DEF Stays, Same, LedgerMatchesStatus, Opened
<1>2. CASE Collects
  <2>1. PICK dp \in DuePayments, d \in Dues :
             ledger' = AppendLedgerEntry(ledger, "due_payment", dp, d, Face)
    BY <1>2 DEF Collects
  <2>2. ledger'.keys = ledger.keys \cup {<<"due_payment", dp>>}
    BY <1>0, <2>1, AppendKeys
  <2> QED BY <1>2, <2>2 DEF Collects, Same, LedgerMatchesStatus, Opened
<1>3. ASSUME NEW p \in Payouts, NEW gross \in Amounts, NEW fee \in Fees, NEW due \in DueIds,
             Opens(p, gross, fee, due)
      PROVE  LedgerMatchesStatus'
  <2>1. gross \in Nat /\ fee \in Nat
    BY WithdrawalAssumption
  <2>2. ledger'.keys = ledger.keys \cup {<<"payout", p>>}
                         \cup (IF fee = 0 THEN {} ELSE {<<"payout_fee", p>>})
    BY <1>0, <1>3, <2>1, DebitKeys DEF Opens
  <2>3. payout'[p].status # "none" /\ payout'[p].status \notin RESTORED /\ payout[p].status \notin RESTORED
    BY <1>3 DEF Opens, RESTORED
  <2>4. ~Opened(p) /\ Opened(p)' /\ payout'[p].feeKobo = fee
    BY <1>3, <2>3 DEF Opens, Opened
  <2>5. ASSUME NEW q \in Payouts, q # p
        PROVE  /\ <<"payout", q>> \in ledger'.keys <=> Opened(q)'
               /\ <<"payout_fee", q>> \in ledger'.keys <=> Opened(q)' /\ payout'[q].feeKobo > 0
               /\ <<"payout_reversal", q>> \in ledger'.keys <=> payout'[q].status \in RESTORED
    BY <1>3, <2>2, <2>5 DEF Opens, OthersSame, Same, LedgerMatchesStatus, Opened
  <2>6. /\ <<"payout", p>> \in ledger'.keys <=> Opened(p)'
        /\ <<"payout_fee", p>> \in ledger'.keys <=> Opened(p)' /\ payout'[p].feeKobo > 0
        /\ <<"payout_reversal", p>> \in ledger'.keys <=> payout'[p].status \in RESTORED
    <3>1. <<"payout_fee", p>> \notin ledger.keys /\ <<"payout_reversal", p>> \notin ledger.keys
      BY <2>3, <2>4 DEF LedgerMatchesStatus
    <3>2. <<"payout", p>> \in ledger'.keys /\ <<"payout_reversal", p>> \notin ledger'.keys
      BY <2>2, <3>1
    <3>3. <<"payout_fee", p>> \in ledger'.keys <=> fee > 0
      <4>1. CASE fee = 0
        BY <2>2, <3>1, <4>1
      <4>2. CASE fee # 0
        BY <2>1, <2>2, <4>2
      <4> QED BY <4>1, <4>2
    <3> QED BY <2>3, <2>4, <3>2, <3>3
  <2> QED BY <2>5, <2>6 DEF LedgerMatchesStatus
<1>4. ASSUME NEW p \in Payouts, NEW to \in PayoutStatus, Advances(p, to)
      PROVE  LedgerMatchesStatus'
  <2>1. to # "none" /\ payout[p].status # "none" /\ payout[p].status \notin RESTORED
    BY <1>4 DEF Advances, Moves, CanTransitionPayout, PAYOUT_TRANSITIONS, RESTORED
  <2> QED BY <1>4, <2>1 DEF Advances, Moves, OthersSame, Same, LedgerMatchesStatus, Opened
<1>5. ASSUME NEW p \in Payouts, NEW to \in PayoutStatus, Restores(p, to)
      PROVE  LedgerMatchesStatus'
  <2>1. to # "none" /\ payout[p].status # "none"
    BY <1>5 DEF Restores, Moves, CanTransitionPayout, PAYOUT_TRANSITIONS
  <2>2. ledger'.keys = ledger.keys \cup {<<"payout_reversal", p>>}
    BY <1>0, <1>5, AppendKeys DEF Restores, RestoreBalance
  <2> QED BY <1>5, <2>1, <2>2 DEF Restores, Moves, OthersSame, Same, LedgerMatchesStatus, Opened
<1> QED BY <1>1, <1>2, <1>3, <1>4, <1>5, StepShape

(* A withdrawal's debit is in the ledger from the moment it exists, and its *)
(* reversal exactly when it failed, was reversed or was cancelled.          *)
THEOREM DebitsAndReversals == Spec => []LedgerMatchesStatus
<1>1. Init => LedgerMatchesStatus
  BY DEF Init, NoRow, EmptyLedger, LedgerMatchesStatus, Opened, RESTORED
<1> QED BY <1>1, TypeCorrect, KeysStep, PTL DEF Spec

-----------------------------------------------------------------------------
(* The withdrawal service and the provider never disagree about who holds  *)
(* the money, as long as every answer of the provider can be read.         *)

Early == {"none", "awaiting_approval", "cancelled"}

SameStatus == \A q \in Payouts : payout'[q].status = payout[q].status

SameBank == \A q \in Payouts : bank'[q].state = bank[q].state /\ bank'[q].first = bank[q].first

(* A handler that moves on, with rows and provider as they were.            *)
LEMMA HandlerStep ==
    ASSUME TypeOK, TypeOK', EverythingBacked, SameStatus, SameBank, events' = events,
           NEW h \in Handlers, NEW c, call' = [call EXCEPT ![h] = c],
           c.at # "idle" => c.p \in Payouts, CallBacked(c)
    PROVE  EverythingBacked'
<1>1. \A p \in Payouts : StatusBacked(p)' /\ AnswerBacked(p)'
  BY DEF EverythingBacked, StatusBacked, AnswerBacked, SameStatus, SameBank
<1>2. \A e \in events' : EventBacked(e)'
  BY DEF EverythingBacked, EventBacked, SameBank, TypeOK, Event
<1>3. ASSUME NEW g \in Handlers PROVE CallBacked(call[g])'
  <2>1. CallBacked(call'[g]) /\ (call'[g].at # "idle" => call'[g].p \in Payouts)
    BY DEF EverythingBacked, TypeOK
  <2> QED BY <2>1 DEF CallBacked, SameStatus, SameBank
<1> QED BY <1>1, <1>2, <1>3 DEF EverythingBacked

(* A payout changes its status, for a reason the provider's record backs,   *)
(* and a handler moves on.                                                  *)
LEMMA StatusStep ==
    ASSUME TypeOK, TypeOK', EverythingBacked, SameBank, events' = events,
           NEW p \in Payouts, \A q \in Payouts \ {p} : payout'[q].status = payout[q].status,
           StatusBacked(p)',
           payout'[p].status \in Early => payout[p].status \in Early,
           NEW h \in Handlers, NEW c, call' = [call EXCEPT ![h] = c],
           c.at # "idle" => c.p \in Payouts, CallBacked(c)'
    PROVE  EverythingBacked'
<1>1. \A q \in Payouts : StatusBacked(q)' /\ AnswerBacked(q)'
  BY DEF EverythingBacked, StatusBacked, AnswerBacked, SameBank
<1>2. \A e \in events' : EventBacked(e)'
  BY DEF EverythingBacked, EventBacked, SameBank, TypeOK, Event
<1>3. ASSUME NEW g \in Handlers PROVE CallBacked(call[g])'
  <2>1. CASE g = h
    BY <2>1 DEF TypeOK, CallBacked
  <2>2. CASE g # h
    <3>1. call'[g] = call[g] /\ CallBacked(call[g]) /\ (call[g].at # "idle" => call[g].p \in Payouts)
      BY <2>2 DEF EverythingBacked, TypeOK
    <3> QED BY <3>1 DEF CallBacked, SameBank, Early
  <2> QED BY <2>1, <2>2
<1> QED BY <1>1, <1>2, <1>3 DEF EverythingBacked

(* Where the provider's record of a payout may go.                          *)
BankMove == {<<"none", "refused">>, <<"none", "pending">>, <<"none", "paid">>, <<"none", "failed">>,
             <<"pending", "paid">>, <<"pending", "failed">>, <<"paid", "failed">>}

(* The provider's record of p moves on; the rows do not.                    *)
LEMMA BankStep ==
    ASSUME TypeOK, TypeOK', EverythingBacked, SameStatus,
           NEW p \in Payouts, <<bank[p].state, bank'[p].state>> \in BankMove,
           bank[p].state = "none" => payout[p].status \notin Early,
           AnswerBacked(p)',
           \A q \in Payouts \ {p} : bank'[q].state = bank[q].state /\ bank'[q].first = bank[q].first,
           \A e \in events' \ events : EventBacked(e)',
           NEW h, NEW c, call' = call \/ (h \in Handlers /\ call' = [call EXCEPT ![h] = c]),
           CallBacked(c)'
    PROVE  EverythingBacked'
<1>1. \A q \in Payouts : StatusBacked(q)' /\ AnswerBacked(q)'
  <2>1. ASSUME NEW q \in Payouts, q # p PROVE StatusBacked(q)' /\ AnswerBacked(q)'
    BY <2>1 DEF EverythingBacked, StatusBacked, AnswerBacked, SameStatus
  <2>2. StatusBacked(p)'
    BY DEF EverythingBacked, StatusBacked, SameStatus, BankMove, Early
  <2> QED BY <2>1, <2>2
<1>2. ASSUME NEW e \in events' PROVE EventBacked(e)'
  <2>1. CASE e \in events
    BY <2>1 DEF EverythingBacked, EventBacked, BankMove, TypeOK, Event
  <2> QED BY <2>1
<1>3. ASSUME NEW g \in Handlers PROVE CallBacked(call[g])'
  <2>1. CASE call'[g] = c
    BY <2>1 DEF CallBacked
  <2>2. CASE call'[g] = call[g]
    <3>1. CallBacked(call[g]) /\ (call[g].at # "idle" => call[g].p \in Payouts)
      BY DEF EverythingBacked, TypeOK
    <3> QED BY <2>2, <3>1 DEF CallBacked, SameStatus, BankMove
  <2> QED BY <2>1, <2>2 DEF TypeOK
<1> QED BY <1>1, <1>2, <1>3 DEF EverythingBacked

-----------------------------------------------------------------------------
(* Every action keeps every status, answer, handler and event backed by the *)
(* provider's record, as long as no accepted call answers unreadably.       *)
LEMMA BackedStep ==
    ASSUME ~GarbledReplies
    PROVE  TypeOK /\ TypeOK' /\ EverythingBacked /\ [Next]_vars => EverythingBacked'
<1> SUFFICES ASSUME TypeOK, TypeOK', EverythingBacked, [Next]_vars PROVE EverythingBacked'
  OBVIOUS
<1>a. UNCHANGED payout => SameStatus
  BY DEF SameStatus
<1>b. UNCHANGED bank => SameBank
  BY DEF SameBank
<1>c. /\ Idle.at = "idle" /\ CallBacked(Idle) /\ CallBacked(Idle)'
      /\ \A h \in Handlers : call[h].at # "idle" => call[h].p \in Payouts /\ CallBacked(call[h])
      /\ \A step, p : At(step, p).at = step /\ At(step, p).p = p
  BY DEF Idle, At, CallBacked, EverythingBacked, TypeOK
<1>1. ASSUME NEW dp \in DuePayments, NEW d \in Dues, DuePaid(dp, d) PROVE EverythingBacked'
  BY <1>1 DEF DuePaid, EverythingBacked, StatusBacked, AnswerBacked, CallBacked, EventBacked
<1>2. ASSUME NEW h \in Handlers, NEW p \in Payouts, NEW gross \in Amounts, NEW fee \in Fees,
             NEW due \in DueIds, NEW needsApproval \in BOOLEAN,
             RequestWithdrawal(h, p, gross, fee, due, needsApproval)
      PROVE  EverythingBacked'
  <2>0. PICK c : c = IF needsApproval THEN Idle ELSE At("send", p)
    OBVIOUS
  <2>1. /\ payout[p].status = "none" /\ bank' = bank
        /\ payout'[p].status = IF needsApproval THEN "awaiting_approval" ELSE "pending"
        /\ \A q \in Payouts \ {p} : payout'[q].status = payout[q].status
        /\ call' = [call EXCEPT ![h] = c]
    BY <1>2, <2>0 DEF RequestWithdrawal, NewRow, Goto, Return, TypeOK
  <2>2. StatusBacked(p)' /\ (payout'[p].status \in Early => payout[p].status \in Early)
    BY <2>1 DEF EverythingBacked, StatusBacked, Early
  <2>3. (c.at # "idle" => c.p = p) /\ CallBacked(c)'
    BY <1>c, <2>0, <2>1 DEF CallBacked
  <2> QED BY <1>2, <1>b, <2>1, <2>2, <2>3, StatusStep DEF RequestWithdrawal
<1>3. ASSUME NEW h \in Handlers, NEW p \in Payouts, ReleaseApproved(h, p) PROVE EverythingBacked'
  <2>0. PICK c : c = At("send", p)
    OBVIOUS
  <2>1. /\ payout'[p].status = "pending" /\ bank' = bank /\ events' = events
        /\ \A q \in Payouts \ {p} : payout'[q].status = payout[q].status
        /\ call' = [call EXCEPT ![h] = c]
    BY <1>3, <2>0 DEF ReleaseApproved, Goto, TypeOK, Row
  <2>2. StatusBacked(p)' /\ payout'[p].status \notin Early
    BY <2>1 DEF StatusBacked, Early
  <2>3. c.p = p /\ CallBacked(c)'
    BY <1>c, <2>0, <2>1 DEF CallBacked
  <2> QED BY <1>b, <2>1, <2>2, <2>3, StatusStep
<1>4. ASSUME NEW h \in Handlers, NEW p \in Payouts, CancelPayout(h, p) PROVE EverythingBacked'
  <2>1. /\ payout[p].status = "awaiting_approval"
        /\ payout'[p].status = "cancelled" /\ bank' = bank /\ events' = events
        /\ \A q \in Payouts \ {p} : payout'[q].status = payout[q].status
        /\ call' = [call EXCEPT ![h] = Idle]
    BY <1>4 DEF CancelPayout, CanTransitionPayout, PAYOUT_TRANSITIONS, TypeOK, Row
  <2>2. StatusBacked(p)' /\ payout[p].status \in Early
    BY <2>1 DEF EverythingBacked, StatusBacked, Early
  <2> QED BY <1>b, <1>c, <2>1, <2>2, StatusStep
<1>5. ASSUME NEW h \in Handlers, RecordDispatch(h) PROVE EverythingBacked'
  <2>p. PICK p \in Payouts : p = call[h].p
    BY <1>5, <1>c DEF RecordDispatch
  <2>c. PICK c : c = After(call[h].reply, p)
    OBVIOUS
  <2>1. /\ CallBacked(call[h]) /\ call[h].at = "initiated"
        /\ bank' = bank /\ events' = events /\ call' = [call EXCEPT ![h] = c]
    BY <1>5, <1>c, <2>p, <2>c DEF RecordDispatch
  <2>2. /\ payout'[p].status = IF StillPending(p) THEN "processing" ELSE payout[p].status
        /\ \A q \in Payouts \ {p} : payout'[q].status = payout[q].status
    BY <1>5, <2>p DEF RecordDispatch, StillPending, TypeOK, Row
  <2>3. StatusBacked(p)' /\ (payout'[p].status \in Early => payout[p].status \in Early)
    BY <2>p, <2>1, <2>2 DEF EverythingBacked, StatusBacked, CallBacked, Early
  <2>4. (c.at # "idle" => c.p = p) /\ CallBacked(c)'
    <3>1. call[h].p = p /\ payout'[p].status \notin {"none", "awaiting_approval", "cancelled"}
      BY <2>p, <2>1, <2>2 DEF CallBacked
    <3>2. CASE call[h].reply = "paid"
      <4>1. c = At("complete", p) /\ bank'[p].state \in {"paid", "failed"}
        BY <2>p, <2>c, <2>1, <3>2 DEF After, CallBacked
      <4> QED BY <1>c, <3>1, <4>1 DEF CallBacked
    <3>3. CASE call[h].reply = "failed"
      <4>1. c = At("fail", p) /\ bank'[p].state = "failed"
        BY <2>p, <2>c, <2>1, <3>3 DEF After, CallBacked
      <4> QED BY <1>c, <3>1, <4>1 DEF CallBacked
    <3>4. CASE call[h].reply \notin {"paid", "failed"}
      <4>1. c = Idle
        BY <2>c, <3>4 DEF After
      <4> QED BY <1>c, <4>1
    <3> QED BY <3>2, <3>3, <3>4
  <2> QED BY <1>b, <2>1, <2>2, <2>3, <2>4, StatusStep
<1>6. ASSUME NEW h \in Handlers, CompletePayout(h) PROVE EverythingBacked'
  <2>p. PICK p \in Payouts : p = call[h].p
    BY <1>6, <1>c DEF CompletePayout
  <2> DEFINE moves == CanTransitionPayout(payout[p].status, "success")
  <2>c. PICK c : c = IF moves THEN At("settle", p) ELSE Idle
    OBVIOUS
  <2>1. /\ CallBacked(call[h]) /\ call[h].at = "complete"
        /\ bank' = bank /\ events' = events /\ call' = [call EXCEPT ![h] = c]
    BY <1>6, <1>c, <2>p, <2>c DEF CompletePayout, Goto, Return
  <2>2. /\ payout'[p].status = IF moves THEN "success" ELSE payout[p].status
        /\ \A q \in Payouts \ {p} : payout'[q].status = payout[q].status
    <3>1. CASE ~moves
      BY <1>6, <2>p, <3>1 DEF CompletePayout
    <3>2. CASE moves
      <4>1. payout' = [payout EXCEPT ![p].status = "success", ![p].activeSpaceId = FALSE,
                                     ![p].providerFee = bank[p].fee]
        BY <1>6, <2>p, <3>2 DEF CompletePayout
      <4> QED BY <2>1, <3>2, <4>1 DEF TypeOK, Row
    <3> QED BY <3>1, <3>2
  <2>3. StatusBacked(p)' /\ (payout'[p].status \in Early => payout[p].status \in Early)
    BY <2>p, <2>1, <2>2 DEF EverythingBacked, StatusBacked, CallBacked, Early
  <2>4. (c.at # "idle" => c.p = p) /\ CallBacked(c)'
    <3>1. CASE moves
      <4>1. c = At("settle", p) /\ payout'[p].status = "success"
        BY <2>c, <2>2, <3>1
      <4> QED BY <1>c, <4>1 DEF CallBacked
    <3>2. CASE ~moves
      <4>1. c = Idle
        BY <2>c, <3>2
      <4> QED BY <1>c, <4>1
    <3> QED BY <3>1, <3>2
  <2> QED BY <1>b, <2>1, <2>2, <2>3, <2>4, StatusStep
<1>7. ASSUME NEW h \in Handlers, FailPayout(h) PROVE EverythingBacked'
  <2>p. PICK p \in Payouts : p = call[h].p
    BY <1>7, <1>c DEF FailPayout
  <2> DEFINE moves == CanTransitionPayout(payout[p].status, FailedStatus(p))
  <2>c. PICK c : c = IF moves /\ FeeToRefund(p) THEN AtAmount("refund", p, payout[p].feeSettlement) ELSE Idle
    OBVIOUS
  <2>1. /\ CallBacked(call[h]) /\ call[h].at = "fail"
        /\ bank' = bank /\ events' = events /\ call' = [call EXCEPT ![h] = c]
    BY <1>7, <1>c, <2>p, <2>c DEF FailPayout, Return
  <2>2. /\ payout'[p].status = IF moves THEN FailedStatus(p) ELSE payout[p].status
        /\ \A q \in Payouts \ {p} : payout'[q].status = payout[q].status
    <3>1. CASE ~moves
      BY <1>7, <2>p, <3>1 DEF FailPayout
    <3>2. CASE moves
      <4>1. payout' = [payout EXCEPT ![p].status = FailedStatus(p), ![p].activeSpaceId = FALSE]
        BY <1>7, <2>p, <3>2 DEF FailPayout
      <4> QED BY <2>1, <3>2, <4>1 DEF TypeOK, Row
    <3> QED BY <3>1, <3>2
  <2>3. StatusBacked(p)' /\ (payout'[p].status \in Early => payout[p].status \in Early)
    BY <2>p, <2>1, <2>2 DEF EverythingBacked, StatusBacked, CallBacked, FailedStatus, Early
  <2>4. (c.at # "idle" => c.p = p) /\ CallBacked(c)'
    BY <1>c, <2>p, <2>c, <2>1, <2>2 DEF CallBacked, AtAmount, FailedStatus
  <2> QED BY <1>b, <2>1, <2>2, <2>3, <2>4, StatusStep
<1>8. ASSUME NEW h \in Handlers, NEW c, call' = [call EXCEPT ![h] = c],
             c.at # "idle" => c.p \in Payouts /\ payout[c.p].status \notin Early,
             c.at \notin {"initiated", "complete", "fail"},
             SameStatus, SameBank, events' = events
      PROVE  EverythingBacked'
  <2>1. CallBacked(c) /\ (c.at # "idle" => c.p \in Payouts)
    BY <1>8 DEF CallBacked, Early
  <2> QED BY <1>8, <2>1, HandlerStep
<1>9. ASSUME NEW h \in Handlers, DispatchPayout(h) PROVE EverythingBacked'
  <2>1. PICK c : c = IF payout[call[h].p].status = "pending" THEN At("initiate", call[h].p) ELSE Idle
    OBVIOUS
  <2>2. call' = [call EXCEPT ![h] = c] /\ SameStatus /\ SameBank /\ events' = events
    BY <1>9, <1>a, <1>b, <2>1 DEF DispatchPayout, Goto, Return
  <2>3. /\ c.at # "idle" => c.p \in Payouts /\ payout[c.p].status \notin Early
        /\ c.at \notin {"initiated", "complete", "fail"}
    BY <1>9, <1>c, <2>1 DEF DispatchPayout, Early
  <2> QED BY <1>8, <2>2, <2>3
<1>10. ASSUME NEW h \in Handlers, SettleWithdrawalFee(h) PROVE EverythingBacked'
  <2>1. PICK c : c = IF payout[call[h].p].status = "success" /\ ~payout[call[h].p].feeSettledAt
                     THEN AtAmount(IF FeeShare(call[h].p) # 0 THEN "sweep" ELSE "swept",
                                   call[h].p, FeeShare(call[h].p))
                     ELSE Idle
    OBVIOUS
  <2>2. call' = [call EXCEPT ![h] = c] /\ SameStatus /\ SameBank /\ events' = events
    BY <1>10, <1>a, <1>b, <2>1 DEF SettleWithdrawalFee, Return
  <2>3. /\ c.at # "idle" => c.p \in Payouts /\ payout[c.p].status \notin Early
        /\ c.at \notin {"initiated", "complete", "fail"}
    BY <1>10, <1>c, <2>1 DEF SettleWithdrawalFee, AtAmount, Early
  <2> QED BY <1>8, <2>2, <2>3
<1>11. ASSUME NEW h \in Handlers, RecordSettlement(h) PROVE EverythingBacked'
  <2>1. PICK c : c = Idle
    OBVIOUS
  <2>2. call' = [call EXCEPT ![h] = c] /\ SameBank /\ events' = events
    BY <1>11, <1>b, <2>1 DEF RecordSettlement, Return
  <2>3. SameStatus
    <3>1. call[h].p \in Payouts
      BY <1>11, <1>c DEF RecordSettlement
    <3> QED BY <1>11, <3>1 DEF RecordSettlement, SameStatus, TypeOK, Row
  <2> QED BY <1>8, <1>c, <2>1, <2>2, <2>3
<1>12. ASSUME NEW h \in Handlers, NEW e \in events, ProcessEvent(h, e) PROVE EverythingBacked'
  <2>1. PICK c : c = After(e.kind, e.p)
    OBVIOUS
  <2>2. call' = [call EXCEPT ![h] = c] /\ SameStatus /\ SameBank /\ events' = events
    BY <1>12, <1>a, <1>b, <2>1 DEF ProcessEvent
  <2>3. e.p \in Payouts /\ EventBacked(e) /\ StatusBacked(e.p)
    BY DEF TypeOK, Event, EverythingBacked
  <2>4. CallBacked(c) /\ (c.at # "idle" => c.p \in Payouts)
    BY <1>c, <2>1, <2>3, SMTT(60) DEF After, EventBacked, StatusBacked, CallBacked
  <2> QED BY <2>2, <2>4, HandlerStep
<1>13. ASSUME NEW h \in Handlers, NEW p \in Payouts, RetryDispatch(h, p) PROVE EverythingBacked'
  <2>1. PICK c : c = At("send", p)
    OBVIOUS
  <2>2. call' = [call EXCEPT ![h] = c] /\ SameStatus /\ SameBank /\ events' = events
    BY <1>13, <1>a, <1>b, <2>1 DEF RetryDispatch, Goto
  <2>3. c.at = "send" /\ c.p = p /\ payout[p].status \notin Early
    BY <1>13, <1>c, <2>1 DEF RetryDispatch, Early
  <2> QED BY <1>8, <2>2, <2>3
<1>14. ASSUME NEW h \in Handlers, NEW p \in Payouts, RefreshPayout(h, p) PROVE EverythingBacked'
  <2>1. PICK c : c = At("refresh", p)
    OBVIOUS
  <2>2. call' = [call EXCEPT ![h] = c] /\ SameStatus /\ SameBank /\ events' = events
    BY <1>14, <1>a, <1>b, <2>1 DEF RefreshPayout, Goto
  <2>3. c.at = "refresh" /\ c.p = p /\ payout[p].status \notin Early
    BY <1>14, <1>c, <2>1 DEF RefreshPayout, Early
  <2> QED BY <1>8, <2>2, <2>3
<1>15. ASSUME NEW h \in Handlers, NEW p \in Payouts, RetrySettlement(h, p) PROVE EverythingBacked'
  <2>1. PICK c : c = At("settle", p)
    OBVIOUS
  <2>2. call' = [call EXCEPT ![h] = c] /\ SameStatus /\ SameBank /\ events' = events
    BY <1>15, <1>a, <1>b, <2>1 DEF RetrySettlement, Goto
  <2>3. c.at = "settle" /\ c.p = p /\ payout[p].status \notin Early
    BY <1>15, <1>c, <2>1 DEF RetrySettlement, Early
  <2> QED BY <1>8, <2>2, <2>3
<1>16. ASSUME NEW h \in Handlers, Interrupt(h) PROVE EverythingBacked'
  <2>1. PICK c : c = Idle
    OBVIOUS
  <2>2. call' = [call EXCEPT ![h] = c] /\ SameStatus /\ SameBank /\ events' = events
    BY <1>16, <1>a, <1>b, <2>1 DEF Interrupt, Return
  <2> QED BY <1>8, <1>c, <2>1, <2>2
<1>17. ASSUME NEW h \in Handlers, BankRefusesSweep(h) PROVE EverythingBacked'
  <2>1. PICK c : c = Idle
    OBVIOUS
  <2>2. call' = [call EXCEPT ![h] = c] /\ SameStatus /\ SameBank /\ events' = events
    BY <1>17, <1>a, <1>b, <2>1 DEF BankRefusesSweep, Return
  <2> QED BY <1>8, <1>c, <2>1, <2>2
<1>18. ASSUME NEW h \in Handlers, BankReplays(h) PROVE EverythingBacked'
  <2>1. PICK p \in Payouts : p = call[h].p
    BY <1>18, <1>c DEF BankReplays
  <2>2. PICK c : c = IF bank[p].first = "refused" THEN At("fail", p) ELSE Answered(p, bank[p].first)
    OBVIOUS
  <2>3. call' = [call EXCEPT ![h] = c] /\ SameStatus /\ SameBank /\ events' = events
    BY <1>18, <1>a, <1>b, <2>1, <2>2 DEF BankReplays, Goto, Answer
  <2>4. /\ AnswerBacked(p) /\ payout[p].status \notin Early
        /\ bank[p].state # "none" /\ bank[p].state \in BankState
    BY <1>18, <1>c, <2>1 DEF BankReplays, EverythingBacked, CallBacked, Early, TypeOK, BankRecord
  <2>5. CallBacked(c) /\ c.p = p
    BY <1>c, <2>2, <2>4 DEF AnswerBacked, Answered, CallBacked, Early, BankState
  <2> QED BY <2>3, <2>5, HandlerStep
<1>19. ASSUME NEW h \in Handlers, BankReports(h) PROVE EverythingBacked'
  <2>1. PICK p \in Payouts : p = call[h].p
    BY <1>19, <1>c DEF BankReports
  <2>2. PICK c : c = After(bank[p].state, p)
    OBVIOUS
  <2>3. call' = [call EXCEPT ![h] = c] /\ SameStatus /\ SameBank /\ events' = events
    BY <1>19, <1>a, <1>b, <2>1, <2>2 DEF BankReports
  <2>4. payout[p].status \notin Early
    BY <1>19, <1>c, <2>1 DEF BankReports, CallBacked, Early
  <2>5. CallBacked(c) /\ (c.at # "idle" => c.p = p)
    BY <1>c, <2>2, <2>4 DEF After, CallBacked, Early
  <2> QED BY <2>3, <2>5, HandlerStep
<1>20. ASSUME NEW h \in Handlers, BankSweeps(h) PROVE EverythingBacked'
  <2>1. PICK p \in Payouts : p = call[h].p
    BY <1>20, <1>c DEF BankSweeps
  <2>2. PICK c : c = AtAmount("swept", p, call[h].amount)
    OBVIOUS
  <2>3. call' = [call EXCEPT ![h] = c] /\ SameStatus /\ events' = events
    BY <1>20, <1>a, <2>1, <2>2 DEF BankSweeps
  <2>4. SameBank
    BY <1>20, <2>1 DEF BankSweeps, SameBank, TypeOK, BankRecord
  <2>5. c.at = "swept" /\ c.p = p /\ payout[p].status \notin Early
    BY <1>20, <1>c, <2>1, <2>2 DEF BankSweeps, AtAmount, CallBacked, Early
  <2> QED BY <1>8, <2>3, <2>4, <2>5
<1>21. ASSUME NEW h \in Handlers, BankRefundsFee(h) PROVE EverythingBacked'
  <2>1. call[h].p \in Payouts
    BY <1>21, <1>c DEF BankRefundsFee
  <2>2. PICK c : c = Idle
    OBVIOUS
  <2>3. call' = [call EXCEPT ![h] = c] /\ SameStatus /\ events' = events
    BY <1>21, <1>a, <2>2 DEF BankRefundsFee, Return
  <2>4. SameBank
    BY <1>21, <2>1 DEF BankRefundsFee, SameBank, TypeOK, BankRecord
  <2> QED BY <1>8, <1>c, <2>2, <2>3, <2>4
<1>22. ASSUME NEW h \in Handlers, NEW s \in {"pending", "paid", "failed"}, NEW fee \in ProviderFees,
              BankAccepts(h, s, fee)
       PROVE  EverythingBacked'
  <2>1. PICK p \in Payouts : p = call[h].p
    BY <1>22, <1>c DEF BankAccepts
  <2>2. PICK c : c = Answered(p, s)
    OBVIOUS
  <2>3. call' = [call EXCEPT ![h] = c] /\ SameStatus
    BY <1>22, <1>a, <2>1, <2>2 DEF BankAccepts, Answer
  <2>4. /\ bank[p].state = "none" /\ bank'[p].state = s /\ bank'[p].first = s
        /\ \A q \in Payouts \ {p} : bank'[q].state = bank[q].state /\ bank'[q].first = bank[q].first
    BY <1>22, <2>1 DEF BankAccepts, TypeOK, BankRecord
  <2>5. payout[p].status \notin Early
    BY <1>22, <1>c, <2>1 DEF BankAccepts, CallBacked, Early
  <2>6. \A e \in events' \ events : EventBacked(e)'
    <3>1. events' = events \cup Emitted(s, p)
      BY <1>22, <2>1 DEF BankAccepts
    <3> QED BY <2>4, <3>1 DEF Emitted, EventBacked, Event
  <2>7. AnswerBacked(p)' /\ <<bank[p].state, bank'[p].state>> \in BankMove
    BY <2>4 DEF AnswerBacked, BankMove
  <2>8. CallBacked(c)'
    BY <2>2, <2>3, <2>4, <2>5 DEF Answered, CallBacked, Early, SameStatus
  <2> QED BY <2>3, <2>4, <2>5, <2>6, <2>7, <2>8, BankStep
<1>23. ASSUME NEW h \in Handlers, BankRefuses(h) PROVE EverythingBacked'
  <2>1. PICK p \in Payouts : p = call[h].p
    BY <1>23, <1>c DEF BankRefuses
  <2>2. PICK c : c = At("fail", p)
    OBVIOUS
  <2>3. call' = [call EXCEPT ![h] = c] /\ SameStatus /\ events' = events
    BY <1>23, <1>a, <2>1, <2>2 DEF BankRefuses, Goto
  <2>4. /\ bank[p].state = "none" /\ bank'[p].state = "refused" /\ bank'[p].first = "refused"
        /\ \A q \in Payouts \ {p} : bank'[q].state = bank[q].state /\ bank'[q].first = bank[q].first
    BY <1>23, <2>1 DEF BankRefuses, TypeOK, BankRecord
  <2>5. payout[p].status \notin Early
    BY <1>23, <1>c, <2>1 DEF BankRefuses, CallBacked, Early
  <2>6. AnswerBacked(p)' /\ <<bank[p].state, bank'[p].state>> \in BankMove
    BY <2>4 DEF AnswerBacked, BankMove
  <2>7. CallBacked(c)'
    BY <1>c, <2>2, <2>3, <2>4, <2>5 DEF CallBacked, Early, SameStatus
  <2> QED BY <2>3, <2>4, <2>5, <2>6, <2>7, BankStep
<1>24. ASSUME NEW p \in Payouts, BankPays(p) \/ BankFails(p) PROVE EverythingBacked'
  <2>1. PICK s : s = IF BankPays(p) THEN "paid" ELSE "failed"
    OBVIOUS
  <2>2. call' = call /\ SameStatus /\ events' = events \cup Emitted(s, p)
    BY <1>24, <1>a, <2>1 DEF BankPays, BankFails
  <2>3. /\ <<bank[p].state, bank'[p].state>> \in BankMove /\ bank[p].state # "none"
        /\ bank'[p].state = s /\ bank'[p].first = bank[p].first
        /\ \A q \in Payouts \ {p} : bank'[q].state = bank[q].state /\ bank'[q].first = bank[q].first
    BY <1>24, <2>1 DEF BankPays, BankFails, BankMove, TypeOK, BankRecord
  <2>4. \A e \in events' \ events : EventBacked(e)'
    BY <2>1, <2>2, <2>3 DEF Emitted, EventBacked, Event
  <2>5. AnswerBacked(p)'
    BY <2>3 DEF EverythingBacked, AnswerBacked, BankMove
  <2>6. PICK c : c = Idle
    OBVIOUS
  <2>7. CallBacked(c)'
    BY <1>c, <2>6 DEF CallBacked
  <2> QED BY <2>2, <2>3, <2>4, <2>5, <2>7, BankStep
<1>25. CASE UNCHANGED vars
  BY <1>25 DEF vars, EverythingBacked, StatusBacked, AnswerBacked, CallBacked, EventBacked
<1>26. CASE \E h \in Workers : WorkerNext(h)
  BY <1>26, <1>2, <1>3, <1>4, <1>12 DEF WorkerNext, Handlers
<1>27. CASE \E h \in Reconcilers : ReconcilerNext(h)
  BY <1>27, <1>4, <1>13, <1>14, <1>15 DEF ReconcilerNext, ExpireStaleApproval, Handlers
<1>28. CASE \E h \in Handlers : Continue(h) \/ BankAnswers(h) \/ Interrupt(h)
  BY <1>28, <1>5, <1>6, <1>7, <1>9, <1>10, <1>11, <1>16, <1>17, <1>18, <1>19, <1>20, <1>21, <1>22, <1>23
     DEF Continue, BankAnswers
<1> QED
  BY <1>1, <1>24, <1>25, <1>26, <1>27, <1>28 DEF Next

(* Nobody ever acts on an outcome the provider's record does not back.      *)
THEOREM Backed ==
    ASSUME ~GarbledReplies
    PROVE  Spec => []EverythingBacked
<1>1. Init => EverythingBacked
  BY DEF Init, NoRow, NoRecord, Idle, EverythingBacked, StatusBacked, AnswerBacked, CallBacked, EventBacked
<1>2. TypeOK /\ TypeOK' /\ EverythingBacked /\ [Next]_vars => EverythingBacked'
  BY BackedStep
<1> QED BY <1>1, <1>2, TypeCorrect, PTL DEF Spec

(* No withdrawal is both given back to the space and sent by the bank, and  *)
(* none is called successful that the bank did not pay, for any number of   *)
(* handlers, timeouts, resends, replayed events and polls.                  *)
THEOREM NeverSentAndRestored ==
    ASSUME ~GarbledReplies
    PROVE  Spec => []StatusAgreesWithBank
<1>1. EverythingBacked => StatusAgreesWithBank
  BY DEF EverythingBacked, StatusBacked, StatusAgreesWithBank, RESTORED
<1> QED BY <1>1, Backed, PTL

-----------------------------------------------------------------------------
(* Withdrawal implements PayoutLifecycle: whatever the handlers, the        *)
(* provider and the interruptions do, the space sees a withdrawal reserve   *)
(* its gross amount once, follow the table, and give the amount back once.  *)

(* A first entry moves the balance by its signed amount.                    *)
LEMMA AppendBalance ==
    ASSUME NEW l \in LedgerOf(LedgerIds), NEW type, NEW id, NEW due, NEW amount,
           <<type, id>> \notin l.keys
    PROVE  AppendLedgerEntry(l, type, id, due, amount).balance = l.balance + Signed(type, amount)
  BY DEF AppendLedgerEntry, LedgerOf

(* The debits of a new withdrawal add up to its gross amount, whether or    *)
(* not a discount removed the fee entry.                                    *)
LEMMA DebitBalance ==
    ASSUME NEW l \in LedgerOf(LedgerIds), NEW p \in Payouts, NEW due \in DueIds,
           NEW gross \in Nat, NEW fee \in Nat,
           <<"payout", p>> \notin l.keys, <<"payout_fee", p>> \notin l.keys
    PROVE  Debit(l, p, due, gross, fee).balance = l.balance - gross
<1> DEFINE sent == AppendLedgerEntry(l, "payout", p, due, gross - fee)
<1>1. sent \in LedgerOf(LedgerIds)
  <2>1. gross - fee \in Int /\ p \in LedgerIds /\ "payout" \in CREDIT_TYPES \cup DEBIT_TYPES
    BY DEF LedgerIds, DEBIT_TYPES
  <2> QED BY <2>1, AppendType
<1>2. sent.keys = l.keys \cup {<<"payout", p>>}
  BY AppendKeys
<1>3. sent.balance = l.balance - (gross - fee) /\ l.balance \in Int
  <2>1. Signed("payout", gross - fee) = -(gross - fee)
    BY DEF Signed, CREDIT_TYPES
  <2>2. l.balance \in Int
    BY DEF LedgerOf
  <2>3. sent.balance = l.balance + Signed("payout", gross - fee)
    BY AppendBalance
  <2> QED BY <2>1, <2>2, <2>3
<1> HIDE DEF sent
<1>4. AppendLedgerEntry(sent, "payout_fee", p, due, fee).balance = sent.balance - fee
  <2>1. Signed("payout_fee", fee) = -fee
    BY DEF Signed, CREDIT_TYPES
  <2>2. <<"payout_fee", p>> \notin sent.keys
    BY <1>2
  <2>3. sent.balance \in Int
    BY <1>3
  <2> QED BY <1>1, <2>1, <2>2, <2>3, AppendBalance
<1> QED BY <1>3, <1>4 DEF Debit, sent

(* The reversal gives the gross amount back.                                *)
LEMMA RestoresAmount ==
    ASSUME TypeOK, NEW p \in Payouts, <<"payout_reversal", p>> \notin ledger.keys
    PROVE  RestoreBalance(ledger, p).balance = ledger.balance + payout[p].amount
<1>1. Signed("payout_reversal", payout[p].amount) = payout[p].amount
  BY DEF Signed, CREDIT_TYPES
<1>2. ledger \in LedgerOf(LedgerIds)
  BY DEF TypeOK, LedgerIds
<1> QED BY <1>1, <1>2, AppendBalance DEF RestoreBalance

NotOverdrawn == ledger.balance \in Nat

-----------------------------------------------------------------------------
(* What each kind of step does to the balance.                              *)
LEMMA BalanceStep ==
    ASSUME TypeOK, LedgerMatchesStatus
    PROVE  /\ ledger.balance \in Int
           /\ Collects => ledger'.balance = ledger.balance + Face
           /\ \A p \in Payouts, gross \in Amounts, fee \in Fees, due \in DueIds :
                 Opens(p, gross, fee, due) => ledger'.balance = ledger.balance - gross
           /\ \A p \in Payouts, to \in PayoutStatus :
                 Restores(p, to) => ledger'.balance = ledger.balance + payout[p].amount
<1>0. ledger \in LedgerOf(LedgerIds)
  BY DEF TypeOK, LedgerIds
<1>1. ledger.balance \in Int
  BY <1>0 DEF LedgerOf
<1>2. ASSUME Collects PROVE ledger'.balance = ledger.balance + Face
  <2>1. PICK dp \in DuePayments, d \in Dues :
             /\ <<"due_payment", dp>> \notin ledger.keys
             /\ ledger' = AppendLedgerEntry(ledger, "due_payment", dp, d, Face)
    BY <1>2 DEF Collects
  <2>2. Signed("due_payment", Face) = Face
    BY DEF Signed, CREDIT_TYPES
  <2> QED BY <1>0, <2>1, <2>2, AppendBalance
<1>3. ASSUME NEW p \in Payouts, NEW gross \in Amounts, NEW fee \in Fees, NEW due \in DueIds,
             Opens(p, gross, fee, due)
      PROVE  ledger'.balance = ledger.balance - gross
  <2>1. gross \in Nat /\ fee \in Nat
    BY WithdrawalAssumption
  <2>2. <<"payout", p>> \notin ledger.keys /\ <<"payout_fee", p>> \notin ledger.keys
    BY <1>3 DEF Opens, LedgerMatchesStatus, Opened
  <2> QED BY <1>0, <1>3, <2>1, <2>2, DebitBalance DEF Opens
<1>4. ASSUME NEW p \in Payouts, NEW to \in PayoutStatus, Restores(p, to)
      PROVE  ledger'.balance = ledger.balance + payout[p].amount
  <2>1. payout[p].status \notin RESTORED
    BY <1>4 DEF Restores, Moves, CanTransitionPayout, PAYOUT_TRANSITIONS, RESTORED
  <2>2. <<"payout_reversal", p>> \notin ledger.keys
    BY <2>1 DEF LedgerMatchesStatus
  <2> QED BY <1>4, <2>2, RestoresAmount DEF Restores
<1> QED BY <1>1, <1>2, <1>3, <1>4

(* A space is never overdrawn: whatever is in flight or races, withdrawals  *)
(* and fees never take more than was collected (requestWithdrawal's check   *)
(* under the space lock).                                                   *)
THEOREM NeverOverdrawn == Spec => []NotOverdrawn
<1>1. Init => NotOverdrawn
  BY DEF Init, EmptyLedger, NotOverdrawn
<1>2. TypeOK /\ LedgerMatchesStatus /\ NotOverdrawn /\ [Next]_vars => NotOverdrawn'
  <2> SUFFICES ASSUME TypeOK, LedgerMatchesStatus, NotOverdrawn, [Next]_vars PROVE NotOverdrawn'
    OBVIOUS
  <2>1. CASE Stays
    BY <2>1 DEF Stays, NotOverdrawn
  <2>2. CASE Collects
    BY <2>2, BalanceStep, WithdrawalAssumption DEF NotOverdrawn
  <2>3. ASSUME NEW p \in Payouts, NEW gross \in Amounts, NEW fee \in Fees, NEW due \in DueIds,
               Opens(p, gross, fee, due)
        PROVE  NotOverdrawn'
    <3>1. gross \in Nat /\ gross <= ledger.balance
      BY <2>3, WithdrawalAssumption DEF Opens, CoveredByBalance
    <3>2. ledger'.balance = ledger.balance - gross
      BY <2>3, BalanceStep
    <3> QED BY <3>1, <3>2 DEF NotOverdrawn
  <2>4. ASSUME NEW p \in Payouts, NEW to \in PayoutStatus, Advances(p, to)
        PROVE  NotOverdrawn'
    BY <2>4 DEF Advances, NotOverdrawn
  <2>5. ASSUME NEW p \in Payouts, NEW to \in PayoutStatus, Restores(p, to)
        PROVE  NotOverdrawn'
    <3>1. payout[p].amount \in Nat
      BY DEF TypeOK, Row
    <3>2. ledger'.balance = ledger.balance + payout[p].amount
      BY <2>5, BalanceStep
    <3> QED BY <3>1, <3>2 DEF NotOverdrawn
  <2> QED BY <2>1, <2>2, <2>3, <2>4, <2>5, StepShape
<1> QED BY <1>1, <1>2, TypeCorrect, DebitsAndReversals, PTL DEF Spec

-----------------------------------------------------------------------------
(* The refinement.  A step maps to one step of PayoutLifecycle, or to a     *)
(* stutter: dispatching, polling, settling fees and everything the          *)
(* provider does are invisible to the space.                                *)
LEMMA LifecycleStep ==
    TypeOK /\ TypeOK' /\ OneInFlight /\ LedgerMatchesStatus /\ [Next]_vars
        => [Lifecycle!LifecycleNext]_(Lifecycle!lifecycleVars)
<1> SUFFICES ASSUME TypeOK, TypeOK', OneInFlight, LedgerMatchesStatus, [Next]_vars
             PROVE  [Lifecycle!LifecycleNext]_(Lifecycle!lifecycleVars)
  OBVIOUS
<1> DEFINE status == [q \in Payouts |-> payout[q].status]
           amount == [q \in Payouts |-> payout[q].amount]
<1> USE DEF Lifecycle!lifecycleVars
<1>1. CASE Stays
  <2>1. status' = status /\ amount' = amount
    BY <1>1 DEF Stays, Same
  <2> QED BY <1>1, <2>1 DEF Stays
<1>2. CASE Collects
  <2>1. status' = status /\ amount' = amount
    BY <1>2 DEF Collects, Same
  <2>2. ledger'.balance \in Int /\ ledger'.balance > ledger.balance
    BY <1>2, BalanceStep, WithdrawalAssumption
  <2>3. Lifecycle!Collect
    BY <2>1, <2>2 DEF Lifecycle!Collect
  <2> QED BY <2>3 DEF Lifecycle!LifecycleNext
<1>3. ASSUME NEW p \in Payouts, NEW gross \in Amounts, NEW fee \in Fees, NEW due \in DueIds,
             Opens(p, gross, fee, due)
      PROVE  Lifecycle!Open(p)
  <2>1. gross \in Nat \ {0} /\ gross <= ledger.balance /\ ledger.balance \in Int
    BY <1>3, BalanceStep, WithdrawalAssumption DEF Opens, CoveredByBalance
  <2>2. /\ status' = [status EXCEPT ![p] = status'[p]]
        /\ amount' = [amount EXCEPT ![p] = amount'[p]]
    BY <1>3 DEF Opens, OthersSame, Same
  <2>3. \A q \in Payouts : payout[q].status \notin Lifecycle!PAYOUT_ACTIVE
    BY <1>3 DEF Opens, NoneInFlight, OneInFlight, PAYOUT_ACTIVE, Lifecycle!PAYOUT_ACTIVE
  <2>4. ledger'.balance = ledger.balance - gross /\ amount'[p] = gross
    BY <1>3, BalanceStep DEF Opens
  <2>5. status[p] = "none" /\ status'[p] \in {"awaiting_approval", "pending"}
    BY <1>3 DEF Opens
  <2> QED BY <2>1, <2>2, <2>3, <2>4, <2>5 DEF Lifecycle!Open
<1>4. ASSUME NEW p \in Payouts, NEW to \in PayoutStatus, Moves(p, to)
      PROVE  /\ status' = [status EXCEPT ![p] = to]
             /\ amount' = amount
             /\ Lifecycle!CanTransitionPayout(status[p], to)
  BY <1>4 DEF Moves, OthersSame, Same, CanTransitionPayout, PAYOUT_TRANSITIONS,
              Lifecycle!CanTransitionPayout, Lifecycle!PAYOUT_TRANSITIONS
<1>5. ASSUME NEW p \in Payouts, NEW to \in PayoutStatus, Advances(p, to)
      PROVE  Lifecycle!Advance(p, to)
  <2>1. to \notin Lifecycle!RESTORING
    BY <1>5 DEF Advances, RESTORED, Lifecycle!RESTORING
  <2> QED BY <1>4, <1>5, <2>1 DEF Advances, Lifecycle!Advance
<1>6. ASSUME NEW p \in Payouts, NEW to \in PayoutStatus, Restores(p, to)
      PROVE  Lifecycle!Restore(p, to)
  <2>1. to \in Lifecycle!RESTORING
    BY <1>6 DEF Restores, RESTORED, Lifecycle!RESTORING
  <2>2. ledger'.balance = ledger.balance + amount[p]
    BY <1>6, BalanceStep
  <2> QED BY <1>4, <1>6, <2>1, <2>2 DEF Restores, Lifecycle!Restore
<1>7. PayoutStatus = Lifecycle!PayoutStatus
  BY DEF PayoutStatus, Lifecycle!PayoutStatus
<1> QED BY <1>1, <1>2, <1>3, <1>5, <1>6, <1>7, StepShape DEF Lifecycle!LifecycleNext

(* An empty space is an initial state of the lifecycle.                     *)
LEMMA LifecycleStart == Init => Lifecycle!LifecycleInit
  BY DEF Init, NoRow, EmptyLedger, Lifecycle!LifecycleInit

(* The withdrawal service implements the lifecycle it promises.             *)
THEOREM Refinement == Spec => ImplementsLifecycle
<1>1. Spec => []TypeOK /\ []OneInFlight /\ []LedgerMatchesStatus
  BY TypeCorrect, SlotExclusive, DebitsAndReversals
<1> QED BY <1>1, LifecycleStart, LifecycleStep, PTL
       DEF Spec, ImplementsLifecycle, Lifecycle!LifecycleSpec

-----------------------------------------------------------------------------
(* Sums along the order of the dues                                        *)

N == Len(DueOrder)

(* The amounts of f in the order of the dues.                               *)
InOrder(f) == [j \in 1..N |-> f[DueOrder[j]]]

(* What the first i dues have together.                                     *)
First(f, i) == SumFunctionOnSet(InOrder(f), 1..i)

(* The order names each due once.                                           *)
LEMMA Positions ==
  /\ N \in Nat
  /\ \A j \in 1..N : DueOrder[j] \in Dues
  /\ \A d \in Dues : \E j \in 1..N : d = DueOrder[j]
  /\ \A i, j \in 1..N : DueOrder[i] = DueOrder[j] => i = j
  BY DueOrderAssumption DEF N

(* What the first i dues have together is an amount,                        *)
LEMMA FirstIsInt ==
  ASSUME NEW f, \A d \in Dues : f[d] \in Int, NEW i \in 0..N
  PROVE  First(f, i) \in Int
<1>1. IsFiniteSet(1..i)
  BY Positions, FS_Interval
<1>2. ASSUME NEW j \in 1..i PROVE InOrder(f)[j] \in Int
  <2>1. j \in 1..N /\ DueOrder[j] \in Dues
    BY Positions
  <2> QED BY <2>1 DEF InOrder
<1> QED BY <1>1, <1>2, SumIsInt DEF First

(* nothing for no due,                                                      *)
LEMMA FirstOfNone == ASSUME NEW f PROVE First(f, 0) = 0
<1>1. 1..0 = {}
  OBVIOUS
<1> QED BY <1>1, SumOfNone DEF First

(* and one more due adds what it has.                                       *)
LEMMA FirstWith ==
  ASSUME NEW f, \A d \in Dues : f[d] \in Int, NEW i \in 1..N
  PROVE  First(f, i) = First(f, i - 1) + f[DueOrder[i]]
<1>1. i \in Nat /\ i - 1 \in Nat /\ 1..i = (1..(i - 1)) \cup {i} /\ i \notin 1..(i - 1)
  BY Positions
<1>2. IsFiniteSet(1..(i - 1)) /\ \A j \in 1..i : InOrder(f)[j] \in Int
  BY Positions, FS_Interval DEF InOrder
<1>3. SumFunctionOnSet(InOrder(f), (1..(i - 1)) \cup {i}) = SumFunctionOnSet(InOrder(f), 1..(i - 1)) + InOrder(f)[i]
  BY <1>1, <1>2, SumWith, ZenonT(60)
<1>4. InOrder(f)[i] = f[DueOrder[i]]
  BY DEF InOrder
<1> QED BY <1>1, <1>3, <1>4 DEF First

(* All the dues: the order leaves none out and names none twice.            *)
LEMMA FirstOfAll ==
  ASSUME NEW f, \A d \in Dues : f[d] \in Int
  PROVE  IsFiniteSet(Dues) /\ SumFunctionOnSet(f, Dues) = First(f, N)
<1> DEFINE D(i) == {DueOrder[j] : j \in 1..i}
           Fine(i) == IsFiniteSet(D(i)) /\ SumFunctionOnSet(f, D(i)) = First(f, i)
           C == {i \in 0..N : ~Fine(i)}
<1>1. Fine(0)
  <2>1. D(0) = {}
    OBVIOUS
  <2> QED BY <2>1, SumOfNone, FirstOfNone, FS_EmptySet
<1>2. ASSUME NEW i \in 1..N, Fine(i - 1)
      PROVE  Fine(i)
  <2>1. D(i) = D(i - 1) \cup {DueOrder[i]} /\ DueOrder[i] \notin D(i - 1)
    BY Positions
  <2>2. (\A d \in D(i - 1) : f[d] \in Int) /\ f[DueOrder[i]] \in Int
    BY Positions
  <2> HIDE DEF D
  <2>3. IsFiniteSet(D(i))
    BY <1>2, <2>1, FS_AddElement
  <2>4. SumFunctionOnSet(f, D(i)) = SumFunctionOnSet(f, D(i - 1)) + f[DueOrder[i]]
    BY <1>2, <2>1, <2>2, SumWith
  <2> QED BY <1>2, <2>3, <2>4, FirstWith
<1>3. C = {}
  <2> SUFFICES ASSUME C # {} PROVE FALSE
    OBVIOUS
  <2> HIDE DEF Fine
  <2>1. PICK i \in C : \A j \in C : i <= j
    <3>1. C \subseteq Nat
      OBVIOUS
    <3> HIDE DEF C
    <3> QED BY <3>1, LeastNumber
  <2>2. i # 0
    BY <1>1, <2>1
  <2>3. i \in 1..N /\ i - 1 \in 0..N /\ i - 1 \notin C
    BY <2>1, <2>2, Positions
  <2>4. Fine(i - 1)
    BY <2>3
  <2> QED BY <1>2, <2>1, <2>3, <2>4
<1>4. N \in 0..N /\ D(N) = Dues
  BY Positions
<1>5. Fine(N)
  <2> HIDE DEF Fine
  <2> QED BY <1>3, <1>4
<1> QED BY <1>4, <1>5

-----------------------------------------------------------------------------
(* getDueAvailability, while no due is below zero                          *)

LEMMA AtLeast0Facts == \A n \in Int : AtLeast0(n) \in Nat /\ (n >= 0 => AtLeast0(n) = n) /\ (n <= 0 => AtLeast0(n) = 0)
  BY DEF AtLeast0

(* Then only what left without a due is still to be taken from the dues.    *)
LEMMA DeficitIs ==
  ASSUME NEW net \in [DueIds -> Int], \A d \in Dues : net[d] >= 0
  PROVE  Deficit(net) = AtLeast0(-net[NoDue])
<1> DEFINE D == AtLeast0(-net[NoDue])
           Is(below) == below = [i \in 0..Len(DueOrder) |->
               IF i = 0 THEN AtLeast0(-net[NoDue]) ELSE below[i - 1] + AtLeast0(-net[DueOrder[i]])]
           below == CHOOSE b : Is(b)
<1>1. D \in Nat
  BY AtLeast0Facts DEF DueIds
<1>2. \A j \in 1..N : AtLeast0(-net[DueOrder[j]]) = 0
  BY Positions, AtLeast0Facts DEF DueIds
<1>3. Is([i \in 0..Len(DueOrder) |-> D])
  BY <1>1, <1>2, Positions DEF N
<1>4. Is(below)
  <2> HIDE DEF Is
  <2> QED BY <1>3
<1>5. below[0] = D /\ \A i \in 1..N : below[i] = below[i - 1] + 0
  <2> HIDE DEF below
  <2>1. \A i \in 0..N : below[i] = IF i = 0 THEN D ELSE below[i - 1] + AtLeast0(-net[DueOrder[i]])
    BY <1>4 DEF N
  <2> QED BY <1>2, <2>1, Positions
<1>6. Deficit(net) = below[N]
  BY DEF Deficit, N
<1> DEFINE C == {i \in 0..N : below[i] # D}
<1>7. C = {}
  <2> SUFFICES ASSUME C # {} PROVE FALSE
    OBVIOUS
  <2> HIDE DEF below, D
  <2>1. PICK i \in C : \A j \in C : i <= j
    <3>1. C \subseteq Nat
      OBVIOUS
    <3> HIDE DEF C
    <3> QED BY <3>1, LeastNumber
  <2>2. i \in 1..N /\ i - 1 \in 0..N /\ i - 1 \notin C
    BY <1>5, <2>1, Positions
  <2> QED BY <1>1, <1>5, <2>1, <2>2
<1> HIDE DEF below
<1> QED BY <1>6, <1>7, Positions

(* And a due gives up what those before it could not.                       *)
Untaken(net, i) == AtLeast0(Deficit(net) - First(net, i))

(* What is left to take falls by each due's own, down to nothing.           *)
LEMMA UntakenStep ==
  ASSUME NEW net \in [DueIds -> Int], \A d \in Dues : net[d] >= 0
  PROVE  /\ \A i \in 0..N : Untaken(net, i) \in Nat
         /\ Untaken(net, 0) = Deficit(net)
         /\ \A i \in 1..N : Untaken(net, i) = AtLeast0(Untaken(net, i - 1) - net[DueOrder[i]])
<1>0. Deficit(net) \in Nat
  BY DeficitIs, AtLeast0Facts DEF DueIds
<1>1. \A i \in 0..N : First(net, i) \in Int
  BY FirstIsInt DEF DueIds
<1>2. \A i \in 0..N : Untaken(net, i) \in Nat
  BY <1>0, <1>1, AtLeast0Facts DEF Untaken
<1>3. Untaken(net, 0) = Deficit(net)
  BY <1>0, FirstOfNone, AtLeast0Facts DEF Untaken
<1>4. ASSUME NEW i \in 1..N
      PROVE  Untaken(net, i) = AtLeast0(Untaken(net, i - 1) - net[DueOrder[i]])
  <2>1. PICK a \in Int : a = First(net, i - 1)
    BY <1>1, Positions
  <2>2. PICK b \in Nat : b = net[DueOrder[i]]
    BY Positions DEF DueIds
  <2>3. First(net, i) = a + b
    BY <2>1, <2>2, FirstWith DEF DueIds
  <2>4. PICK c \in Nat : c = Deficit(net)
    BY <1>0
  <2>5. AtLeast0(c - (a + b)) = AtLeast0(AtLeast0(c - a) - b)
    BY DEF AtLeast0
  <2> QED BY <2>1, <2>2, <2>3, <2>4, <2>5 DEF Untaken
<1> QED BY <1>2, <1>3, <1>4

(* getDueAvailability's loop: a due keeps what was not taken of it.         *)
LEMMA AvailabilityIs ==
  ASSUME NEW net \in [DueIds -> Int], \A d \in Dues : net[d] >= 0
  PROVE  /\ DOMAIN GetDueAvailability(net) = Dues
         /\ \A k \in 1..N :
               GetDueAvailability(net)[DueOrder[k]] = AtLeast0(net[DueOrder[k]] - Untaken(net, k - 1))
<1> DEFINE Is(left) == left = [i \in 0..Len(DueOrder) |->
               IF i = 0 THEN Deficit(net) ELSE AtLeast0(left[i - 1] - AtLeast0(net[DueOrder[i]]))]
           left == CHOOSE l : Is(l)
           at(d) == CHOOSE i \in 1..Len(DueOrder) : DueOrder[i] = d
<1>1. \A j \in 1..N : AtLeast0(net[DueOrder[j]]) = net[DueOrder[j]]
  BY Positions, AtLeast0Facts DEF DueIds
<1>2. Is([i \in 0..Len(DueOrder) |-> Untaken(net, i)])
  BY <1>1, UntakenStep, Positions DEF N
<1>3. Is(left)
  <2> HIDE DEF Is
  <2> QED BY <1>2
<1>4. left[0] = Deficit(net) /\ \A i \in 1..N : left[i] = AtLeast0(left[i - 1] - net[DueOrder[i]])
  <2> HIDE DEF left
  <2>1. \A i \in 0..N : left[i] = IF i = 0 THEN Deficit(net) ELSE AtLeast0(left[i - 1] - AtLeast0(net[DueOrder[i]]))
    BY <1>3 DEF N
  <2> QED BY <1>1, <2>1, Positions
<1> DEFINE C == {i \in 0..N : left[i] # Untaken(net, i)}
<1>5. C = {}
  <2> SUFFICES ASSUME C # {} PROVE FALSE
    OBVIOUS
  <2> HIDE DEF left
  <2>1. PICK i \in C : \A j \in C : i <= j
    <3>1. C \subseteq Nat
      OBVIOUS
    <3> HIDE DEF C
    <3> QED BY <3>1, LeastNumber
  <2>2. i \in 1..N /\ i - 1 \in 0..N /\ i - 1 \notin C
    BY <1>4, <2>1, UntakenStep, Positions
  <2> QED BY <1>4, <2>1, <2>2, UntakenStep
<1>6. GetDueAvailability(net) = [d \in Dues |-> AtLeast0(AtLeast0(net[d]) - left[at(d) - 1])]
  BY DEF GetDueAvailability
<1>7. ASSUME NEW k \in 1..N
      PROVE  GetDueAvailability(net)[DueOrder[k]] = AtLeast0(net[DueOrder[k]] - Untaken(net, k - 1))
  <2>1. at(DueOrder[k]) = k
    BY Positions DEF N
  <2>2. k - 1 \in 0..N
    BY Positions
  <2> HIDE DEF left, at
  <2>3. left[k - 1] = Untaken(net, k - 1)
    BY <1>5, <2>2
  <2> QED BY <1>1, <1>6, <2>1, <2>3, Positions
<1> QED BY <1>6, <1>7

(* Once nothing is left to take, later dues keep all they have.             *)
LEMMA UntakenStays ==
  ASSUME NEW net \in [DueIds -> Int], \A d \in Dues : net[d] >= 0,
         NEW i \in 0..N, Untaken(net, i) = 0
  PROVE  \A k \in i..N : Untaken(net, k) = 0
<1> DEFINE C == {k \in i..N : Untaken(net, k) # 0}
<1> SUFFICES ASSUME C # {} PROVE FALSE
  OBVIOUS
<1>1. PICK k \in C : \A j \in C : k <= j
  <2>1. C \subseteq Nat
    BY Positions
  <2> HIDE DEF C
  <2> QED BY <2>1, LeastNumber
<1>2. k \in 1..N /\ k - 1 \in i..N /\ k - 1 \notin C
  BY <1>1, Positions
<1>3. Untaken(net, k - 1) = 0
  BY <1>2
<1>4. Untaken(net, k) = AtLeast0(0 - net[DueOrder[k]])
  BY <1>2, <1>3, UntakenStep
<1>5. net[DueOrder[k]] \in Nat
  BY <1>2, Positions DEF DueIds
<1>6. AtLeast0(0 - net[DueOrder[k]]) = 0
  BY <1>5 DEF AtLeast0
<1> QED BY <1>1, <1>4, <1>6

(* A due never has more than it collected, and keeps all of it while those  *)
(* before it cover what left without a due.                                 *)
LEMMA SharesAreKept ==
  ASSUME NEW net \in [DueIds -> Int], \A d \in Dues : net[d] >= 0
  PROVE  /\ \A d \in Dues : GetDueAvailability(net)[d] \in 0..net[d]
         /\ \A i \in 0..N : -net[NoDue] <= First(net, i) =>
               \A k \in (i + 1)..N : GetDueAvailability(net)[DueOrder[k]] = net[DueOrder[k]]
<1>1. ASSUME NEW d \in Dues PROVE GetDueAvailability(net)[d] \in 0..net[d]
  <2>1. PICK k \in 1..N : d = DueOrder[k]
    BY Positions
  <2>2. PICK u \in Nat : u = Untaken(net, k - 1)
    BY UntakenStep, Positions
  <2>3. GetDueAvailability(net)[d] = AtLeast0(net[d] - u)
    BY <2>1, <2>2, AvailabilityIs
  <2>4. net[d] \in Nat
    BY DEF DueIds
  <2> QED BY <2>3, <2>4 DEF AtLeast0
<1>2. ASSUME NEW i \in 0..N, -net[NoDue] <= First(net, i)
      PROVE  \A k \in (i + 1)..N : GetDueAvailability(net)[DueOrder[k]] = net[DueOrder[k]]
  <2>1. Untaken(net, i) = 0
    <3>1. PICK a \in Int : a = First(net, i)
      BY FirstIsInt DEF DueIds
    <3>2. PICK n \in Int : n = -net[NoDue]
      BY DEF DueIds
    <3>3. Deficit(net) = AtLeast0(n)
      BY <3>2, DeficitIs
    <3>4. CASE n <= 0
      <4>1. Untaken(net, 0) = 0
        BY <3>3, <3>4, UntakenStep DEF AtLeast0
      <4>2. 0 \in 0..N /\ i \in 0..N
        BY Positions
      <4> QED BY <4>1, <4>2, UntakenStays
    <3>5. CASE n > 0
      <4>1. n <= a /\ Deficit(net) = n
        BY <1>2, <3>1, <3>2, <3>3, <3>5 DEF AtLeast0
      <4> QED BY <3>1, <4>1 DEF Untaken, AtLeast0
    <3> QED BY <3>4, <3>5
  <2>2. ASSUME NEW k \in (i + 1)..N
        PROVE  GetDueAvailability(net)[DueOrder[k]] = net[DueOrder[k]]
    <3>1. k \in 1..N /\ k - 1 \in i..N
      BY Positions
    <3>2. Untaken(net, k - 1) = 0
      BY <2>1, <3>1, UntakenStays
    <3>3. net[DueOrder[k]] \in Nat
      BY <3>1, Positions DEF DueIds
    <3> QED BY <3>1, <3>2, <3>3, AvailabilityIs DEF AtLeast0
  <2> QED BY <2>2
<1> QED BY <1>1, <1>2

(* Together the dues have no more than the space, unless that is below      *)
(* zero: what one gives up for the others is what it may no longer pay out. *)
LEMMA SharesAddUp ==
  ASSUME NEW net \in [DueIds -> Int], \A d \in Dues : net[d] >= 0,
         net[NoDue] + SumFunctionOnSet(net, Dues) >= 0
  PROVE  SumFunction(GetDueAvailability(net)) <= net[NoDue] + SumFunctionOnSet(net, Dues)
<1> DEFINE avail == GetDueAvailability(net)
           Fine(i) == First(avail, i) = First(net, i) - Deficit(net) + Untaken(net, i)
           C == {i \in 0..N : ~Fine(i)}
<1> HIDE DEF avail
<1>1. (\A d \in Dues : avail[d] \in Int /\ net[d] \in Nat) /\ Deficit(net) \in Nat
  BY SharesAreKept, DeficitIs, AtLeast0Facts DEF avail, DueIds
<1>2. Fine(0)
  BY <1>1, FirstOfNone, UntakenStep
<1>3. ASSUME NEW i \in 1..N, Fine(i - 1)
      PROVE  Fine(i)
  <2>0. i - 1 \in 0..N /\ DueOrder[i] \in Dues
    BY Positions
  <2>1. PICK a \in Int, b \in Int : a = First(avail, i - 1) /\ b = First(net, i - 1)
    BY <1>1, <2>0, FirstIsInt
  <2>2. PICK u \in Nat, v \in Nat : u = Untaken(net, i - 1) /\ v = Untaken(net, i)
    BY <2>0, UntakenStep
  <2>3. PICK c \in Nat : c = net[DueOrder[i]]
    BY <1>1, <2>0
  <2>4. PICK d \in Nat : d = Deficit(net)
    BY <1>1
  <2>5. v = AtLeast0(u - c) /\ avail[DueOrder[i]] = AtLeast0(c - u)
    BY <2>2, <2>3, UntakenStep, AvailabilityIs DEF avail
  <2>6. First(avail, i) = a + AtLeast0(c - u) /\ First(net, i) = b + c
    BY <1>1, <2>1, <2>3, <2>5, FirstWith
  <2>7. a = b - d + u
    BY <1>3, <2>1, <2>2, <2>4
  <2>8. a + AtLeast0(c - u) = (b + c) - d + v
    BY <2>5, <2>7 DEF AtLeast0
  <2> QED BY <2>2, <2>4, <2>6, <2>8
<1>4. Fine(N)
  <2>1. C = {}
    <3> SUFFICES ASSUME C # {} PROVE FALSE
      OBVIOUS
    <3> HIDE DEF Fine
    <3>1. PICK i \in C : \A j \in C : i <= j
      <4>1. C \subseteq Nat
        OBVIOUS
      <4> HIDE DEF C
      <4> QED BY <4>1, LeastNumber
    <3>2. i \in 1..N /\ i - 1 \in 0..N /\ i - 1 \notin C
      BY <1>2, <3>1, Positions
    <3>3. Fine(i - 1)
      BY <3>2
    <3> QED BY <1>3, <3>1, <3>2, <3>3
  <2> HIDE DEF Fine
  <2> QED BY <2>1, Positions
<1>5. SumFunction(avail) = First(avail, N) /\ SumFunctionOnSet(net, Dues) = First(net, N)
  <2>1. DOMAIN avail = Dues
    BY AvailabilityIs DEF avail
  <2> QED BY <1>1, <2>1, FirstOfAll DEF SumFunction
<1>6. PICK a \in Int, b \in Int : a = First(avail, N) /\ b = First(net, N)
  BY <1>1, Positions, FirstIsInt
<1>7. PICK d \in Nat : d = Deficit(net)
  BY <1>1
<1>8. PICK n \in Int : n = net[NoDue]
  BY DEF DueIds
<1>9. a = b - d + AtLeast0(d - b) /\ d = AtLeast0(-n) /\ n + b >= 0
  BY <1>4, <1>5, <1>6, <1>7, <1>8, DeficitIs DEF Untaken
<1>10. a <= n + b
  BY <1>9 DEF AtLeast0
<1> QED BY <1>5, <1>6, <1>8, <1>10 DEF avail

-----------------------------------------------------------------------------
(* What the space is owed                                                  *)

(* The ledger m is l after n more, or less, on one due.                     *)
Moved(l, m, due, n) ==
    /\ m.balance = l.balance + n
    /\ m.net[due] = l.net[due] + n
    /\ \A d \in DueIds \ {due} : m.net[d] = l.net[d]

(* The two sums of a ledger are integers.                                   *)
LEMMA LedgerParts ==
  \A l \in LedgerOf(LedgerIds) : l.balance \in Int /\ l.net \in [DueIds -> Int]
  BY DEF LedgerOf

(* A first entry moves balance and due by its signed amount.                *)
LEMMA AppendMoves ==
  ASSUME NEW l \in LedgerOf(LedgerIds), NEW type, NEW id, NEW due \in DueIds, NEW amount,
         <<type, id>> \notin l.keys
  PROVE  Moved(l, AppendLedgerEntry(l, type, id, due, amount), due, Signed(type, amount))
  BY LedgerParts DEF AppendLedgerEntry, Moved

(* Two moves on one due are one.                                            *)
LEMMA MovesTwice ==
  ASSUME NEW l \in LedgerOf(LedgerIds), NEW k \in LedgerOf(LedgerIds), NEW m,
         NEW due \in DueIds, NEW a \in Int, NEW b \in Int, Moved(l, k, due, a), Moved(k, m, due, b)
  PROVE  Moved(l, m, due, a + b)
  BY LedgerParts DEF Moved

(* A withdrawal's one or two debits take its gross.                         *)
LEMMA DebitMoves ==
  ASSUME NEW l \in LedgerOf(LedgerIds), NEW p \in Payouts, NEW due \in DueIds,
         NEW gross \in Nat, NEW fee \in Nat,
         <<"payout", p>> \notin l.keys, <<"payout_fee", p>> \notin l.keys
  PROVE  Moved(l, Debit(l, p, due, gross, fee), due, -gross)
<1> DEFINE sent == AppendLedgerEntry(l, "payout", p, due, gross - fee)
<1>1. sent \in LedgerOf(LedgerIds)
  <2>1. gross - fee \in Int /\ p \in LedgerIds /\ "payout" \in CREDIT_TYPES \cup DEBIT_TYPES
    BY DEF LedgerIds, DEBIT_TYPES
  <2> QED BY <2>1, AppendType
<1>2. <<"payout_fee", p>> \notin sent.keys
  <2>1. sent.keys = l.keys \cup {<<"payout", p>>}
    BY AppendKeys
  <2> QED BY <2>1
<1>3. Moved(l, sent, due, -(gross - fee))
  BY AppendMoves DEF Signed, CREDIT_TYPES
<1> HIDE DEF sent
<1>4. Moved(sent, AppendLedgerEntry(sent, "payout_fee", p, due, fee), due, -fee)
  BY <1>1, <1>2, AppendMoves DEF Signed, CREDIT_TYPES
<1>5. Moved(l, AppendLedgerEntry(sent, "payout_fee", p, due, fee), due, -gross)
  <2>1. -(gross - fee) + (-fee) = -gross /\ -(gross - fee) \in Int /\ -fee \in Int
    OBVIOUS
  <2>2. Moved(l, AppendLedgerEntry(sent, "payout_fee", p, due, fee), due, -(gross - fee) + (-fee))
    BY <1>1, <1>3, <1>4, <2>1, MovesTwice
  <2> QED BY <2>1, <2>2
<1>6. fee = 0 => -(gross - fee) = -gross
  OBVIOUS
<1> QED BY <1>3, <1>5, <1>6 DEF Debit, sent

(* A due's own money is what counts for it, and the balance is all of it.   *)
NetsInv ==
    /\ \A d \in Dues : ledger.net[d] >= 0
    /\ ledger.balance = ledger.net[NoDue] + SumFunctionOnSet(ledger.net, Dues)

(* A move on one due keeps the balance the sum of all dues.                 *)
LEMMA MoveAddsUp ==
  ASSUME NEW l \in LedgerOf(LedgerIds), NEW m \in LedgerOf(LedgerIds),
         NEW due \in DueIds, NEW n \in Int, Moved(l, m, due, n),
         l.balance = l.net[NoDue] + SumFunctionOnSet(l.net, Dues)
  PROVE  m.balance = m.net[NoDue] + SumFunctionOnSet(m.net, Dues)
<1> DEFINE f == l.net
           g == m.net
<1>1. /\ \A d \in Dues : f[d] \in Int /\ g[d] \in Int
      /\ f[NoDue] \in Int /\ g[NoDue] \in Int
      /\ \A d \in Dues \ {due} : g[d] = f[d]
      /\ NoDue # due => g[NoDue] = f[NoDue]
      /\ g[due] = f[due] + n
      /\ l.balance = f[NoDue] + SumFunctionOnSet(f, Dues)
      /\ m.balance = l.balance + n
  BY LedgerParts DEF Moved, DueIds
<1>2. NoDue \notin Dues /\ IsFiniteSet(Dues)
  <2>1. IsFiniteSet(Dues)
    BY <1>1, FirstOfAll
  <2> QED BY <2>1, DueOrderAssumption
<1> HIDE DEF f, g
<1>3. PICK s \in Int : SumFunctionOnSet(f, Dues) = s
  BY <1>1, <1>2, SumIsInt
<1>4. CASE due \in Dues
  <2>1. \A d \in Dues : f[d] \in Int
    BY <1>1
  <2>2. (\A d \in Dues \ {due} : g[d] = f[d]) /\ g[due] \in Int
    BY <1>1, <1>4
  <2>3. SumFunctionOnSet(g, Dues) = SumFunctionOnSet(f, Dues) + (g[due] - f[due])
    BY <1>2, <1>4, <2>1, <2>2, SumChanges
  <2>4. SumFunctionOnSet(g, Dues) = s + n
    BY <1>1, <1>3, <1>4, <2>3
  <2>5. m.balance = f[NoDue] + (s + n) /\ g[NoDue] = f[NoDue]
    BY <1>1, <1>2, <1>3, <1>4
  <2> QED BY <2>4, <2>5 DEF g
<1>5. CASE due = NoDue
  <2>1. \A d \in Dues : f[d] = g[d]
    BY <1>1, <1>2, <1>5
  <2>2. SumFunctionOnSet(g, Dues) = s
    BY <1>2, <1>3, <2>1, SumSame
  <2>3. m.balance = (f[NoDue] + n) + s
    BY <1>1, <1>3
  <2> QED BY <1>1, <1>5, <2>2, <2>3 DEF g
<1> QED BY <1>4, <1>5 DEF DueIds

PaidIn == {dp \in DuePayments : <<"due_payment", dp>> \in ledger.keys}

(* A due's payment moves its face amount in, and is counted once;           *)
LEMMA CollectMoves ==
  ASSUME TypeOK, Collects
  PROVE  /\ \E d \in Dues : Moved(ledger, ledger', d, Face)
         /\ \E dp \in DuePayments : dp \notin PaidIn /\ PaidIn' = PaidIn \cup {dp}
<1>1. PICK dp \in DuePayments, d \in Dues :
           /\ <<"due_payment", dp>> \notin ledger.keys
           /\ ledger' = AppendLedgerEntry(ledger, "due_payment", dp, d, Face)
  BY DEF Collects
<1>2. ledger \in LedgerOf(LedgerIds) /\ d \in DueIds
  BY DEF TypeOK, LedgerIds, DueIds
<1>3. Signed("due_payment", Face) = Face
  BY DEF Signed, CREDIT_TYPES
<1>4. ledger'.keys = ledger.keys \cup {<<"due_payment", dp>>}
  BY <1>1, <1>2, AppendKeys
<1>5. dp \notin PaidIn /\ PaidIn' = PaidIn \cup {dp}
  BY <1>1, <1>4 DEF PaidIn
<1> QED BY <1>1, <1>2, <1>3, <1>5, AppendMoves

(* a request moves its gross out;                                           *)
LEMMA OpenMoves ==
  ASSUME TypeOK, LedgerMatchesStatus,
         NEW p \in Payouts, NEW gross \in Amounts, NEW fee \in Fees, NEW due \in DueIds,
         Opens(p, gross, fee, due)
  PROVE  Moved(ledger, ledger', due, -gross) /\ PaidIn' = PaidIn
<1>1. ledger \in LedgerOf(LedgerIds) /\ gross \in Nat /\ fee \in Nat
  BY WithdrawalAssumption DEF TypeOK, LedgerIds
<1>2. <<"payout", p>> \notin ledger.keys /\ <<"payout_fee", p>> \notin ledger.keys
  BY DEF Opens, LedgerMatchesStatus, Opened
<1>3. ledger' = Debit(ledger, p, due, gross, fee)
  BY DEF Opens
<1>4. \A dp : <<"due_payment", dp>> \in ledger'.keys <=> <<"due_payment", dp>> \in ledger.keys
  BY <1>1, <1>2, <1>3, DebitKeys
<1> QED BY <1>1, <1>2, <1>3, <1>4, DebitMoves DEF PaidIn

(* and a reversal moves it back in.                                         *)
LEMMA RestoreMoves ==
  ASSUME TypeOK, LedgerMatchesStatus, NEW p \in Payouts, NEW to \in PayoutStatus, Restores(p, to)
  PROVE  Moved(ledger, ledger', payout[p].dueId, payout[p].amount) /\ PaidIn' = PaidIn
<1>1. ledger \in LedgerOf(LedgerIds) /\ payout[p].dueId \in DueIds /\ payout[p].amount \in Nat
  BY DEF TypeOK, LedgerIds, Row
<1>2. payout[p].status \notin RESTORED
  BY DEF Restores, Moves, CanTransitionPayout, PAYOUT_TRANSITIONS, RESTORED
<1>3. <<"payout_reversal", p>> \notin ledger.keys
  BY <1>2 DEF LedgerMatchesStatus
<1>4. ledger' = AppendLedgerEntry(ledger, "payout_reversal", p, payout[p].dueId, payout[p].amount)
  BY DEF Restores, RestoreBalance
<1>5. Signed("payout_reversal", payout[p].amount) = payout[p].amount
  BY DEF Signed, CREDIT_TYPES
<1>6. ledger'.keys = ledger.keys \cup {<<"payout_reversal", p>>}
  BY <1>1, <1>4, AppendKeys
<1>7. \A dp : <<"due_payment", dp>> \in ledger'.keys <=> <<"due_payment", dp>> \in ledger.keys
  BY <1>6
<1> QED BY <1>1, <1>3, <1>4, <1>5, <1>7, AppendMoves DEF PaidIn

(* A request is checked against its due's share, so no due goes below 0.    *)
LEMMA NetsStep == TypeOK /\ TypeOK' /\ LedgerMatchesStatus /\ NetsInv /\ [Next]_vars => NetsInv'
<1> SUFFICES ASSUME TypeOK, TypeOK', LedgerMatchesStatus, NetsInv, [Next]_vars PROVE NetsInv'
  OBVIOUS
<1>1. ledger \in LedgerOf(LedgerIds) /\ ledger' \in LedgerOf(LedgerIds)
  BY DEF TypeOK, LedgerIds
<1>2. (ledger.balance \in Int /\ ledger.net \in [DueIds -> Int]) /\ (ledger'.balance \in Int /\ ledger'.net \in [DueIds -> Int])
  BY <1>1, LedgerParts
<1>3. ASSUME NEW due \in DueIds, NEW n \in Int, Moved(ledger, ledger', due, n),
             due \in Dues => ledger.net[due] + n >= 0
      PROVE  NetsInv'
  <2>1. \A d \in Dues : ledger'.net[d] >= 0
    BY <1>3 DEF Moved, NetsInv, DueIds
  <2>2. ledger'.balance = ledger'.net[NoDue] + SumFunctionOnSet(ledger'.net, Dues)
    BY <1>1, <1>3, MoveAddsUp DEF NetsInv
  <2> QED BY <2>1, <2>2 DEF NetsInv
<1>4. CASE Stays
  BY <1>4 DEF Stays, NetsInv
<1>5. CASE Collects
  <2>1. PICK d \in Dues : Moved(ledger, ledger', d, Face)
    BY <1>5, CollectMoves
  <2>2. d \in DueIds /\ Face \in Nat /\ ledger.net[d] \in Int /\ ledger.net[d] >= 0
    BY <1>2, WithdrawalAssumption DEF DueIds, NetsInv
  <2> QED BY <1>3, <2>1, <2>2
<1>6. ASSUME NEW p \in Payouts, NEW gross \in Amounts, NEW fee \in Fees, NEW due \in DueIds,
             Opens(p, gross, fee, due)
      PROVE  NetsInv'
  <2>1. Moved(ledger, ledger', due, -gross) /\ gross \in Nat
    BY <1>6, OpenMoves, WithdrawalAssumption
  <2>2. due \in Dues => ledger.net[due] + (-gross) >= 0
    <3> SUFFICES ASSUME due \in Dues PROVE ledger.net[due] + (-gross) >= 0
      OBVIOUS
    <3>1. gross <= GetDueAvailability(ledger.net)[due]
      BY <1>6 DEF Opens, CoveredByBalance
    <3>2. GetDueAvailability(ledger.net)[due] \in 0..ledger.net[due]
      BY <1>2, SharesAreKept DEF NetsInv
    <3>3. ledger.net[due] \in Int
      BY <1>2 DEF DueIds
    <3> QED BY <2>1, <3>1, <3>2, <3>3
  <2> QED BY <1>3, <2>1, <2>2
<1>7. ASSUME NEW p \in Payouts, NEW to \in PayoutStatus, Advances(p, to)
      PROVE  NetsInv'
  BY <1>7 DEF Advances, NetsInv
<1>8. ASSUME NEW p \in Payouts, NEW to \in PayoutStatus, Restores(p, to)
      PROVE  NetsInv'
  <2>1. Moved(ledger, ledger', payout[p].dueId, payout[p].amount)
    BY <1>8, RestoreMoves
  <2>2. payout[p].dueId \in DueIds /\ payout[p].amount \in Nat
    BY DEF TypeOK, Row
  <2>3. payout[p].dueId \in Dues => ledger.net[payout[p].dueId] + payout[p].amount >= 0
    BY <1>2, <2>2 DEF NetsInv
  <2> QED BY <1>3, <2>1, <2>2, <2>3
<1> QED BY <1>4, <1>5, <1>6, <1>7, <1>8, StepShape

(* Payouts are rows of a table: finitely many, so that they have a sum.     *)
OwedInv ==
    /\ IsFiniteSet(PaidIn)
    /\ ledger.balance = Collected - SumFunction([p \in Payouts |-> Reserved(p)])

(* Each of the four things a step can do moves balance and sum alike.       *)
LEMMA OwedStep ==
  ASSUME IsFiniteSet(Payouts), TypeOK, TypeOK', LedgerMatchesStatus, OwedInv, [Next]_vars
  PROVE  OwedInv'
<1> DEFINE f == [p \in Payouts |-> Reserved(p)]
<1>1. (\A p \in Payouts : f[p] \in Nat /\ f'[p] \in Nat) /\ Collected = Face * Cardinality(PaidIn)
  BY DEF TypeOK, Row, Reserved, Collected, PaidIn
<1>2. SumFunction(f) = SumFunctionOnSet(f, Payouts) /\ SumFunction(f)' = SumFunctionOnSet(f', Payouts)
  BY DEF SumFunction
<1>3. ledger.balance \in Int /\ ledger'.balance \in Int
  BY LedgerParts DEF TypeOK, LedgerIds
<1>4. f = [p \in Payouts |-> f[p]] /\ f' = [p \in Payouts |-> f'[p]]
  OBVIOUS
<1>5. PICK s \in Int : SumFunctionOnSet(f, Payouts) = s
  BY <1>1, SumIsInt
<1>6. PICK n \in Nat : Cardinality(PaidIn) = n
  BY FS_CardinalityType DEF OwedInv
<1>7. ledger.balance = Face * n - s
  BY <1>1, <1>2, <1>5, <1>6 DEF OwedInv
<1> HIDE DEF f
<1>8. ASSUME PaidIn' = PaidIn, NEW p \in Payouts, NEW k \in Int, ledger'.balance = ledger.balance + k,
             \A q \in Payouts \ {p} : f'[q] = f[q], f'[p] = f[p] - k
      PROVE  OwedInv'
  <2>1. SumFunctionOnSet(f', Payouts) = SumFunctionOnSet(f, Payouts) + (f'[p] - f[p])
    BY <1>1, <1>8, SumChanges
  <2>2. SumFunctionOnSet(f', Payouts) = s - k
    BY <1>1, <1>5, <1>8, <2>1
  <2>3. ledger'.balance = Face * n - (s - k)
    BY <1>7, <1>8, WithdrawalAssumption
  <2>4. Collected' = Face * n
    BY <1>6, <1>8 DEF Collected, PaidIn
  <2>5. SumFunction(f)' = s - k
    BY <1>2, <2>2
  <2> QED BY <1>8, <2>3, <2>4, <2>5 DEF OwedInv, f
<1>9. ASSUME \A q \in Payouts : f'[q] = f[q] PROVE SumFunction(f)' = s
  BY <1>2, <1>5, <1>9, SumSame
<1>10. ASSUME PaidIn' = PaidIn, ledger'.balance = ledger.balance, \A q \in Payouts : f'[q] = f[q]
       PROVE  OwedInv'
  <2>1. Collected' = Face * n
    BY <1>6, <1>10 DEF Collected, PaidIn
  <2> QED BY <1>7, <1>9, <1>10, <2>1 DEF OwedInv, f
<1>11. ASSUME NEW q \in Payouts, Same(q) PROVE f'[q] = f[q]
  BY <1>11 DEF Same, f, Reserved, Opened
<1>12. CASE Stays
  BY <1>10, <1>11, <1>12 DEF Stays, PaidIn
<1>13. CASE Collects
  <2>1. SumFunction(f)' = s
    BY <1>9, <1>11, <1>13 DEF Collects
  <2>2. PICK dp \in DuePayments : dp \notin PaidIn /\ PaidIn' = PaidIn \cup {dp}
    BY <1>13, CollectMoves
  <2>3. IsFiniteSet(PaidIn') /\ Cardinality(PaidIn') = n + 1
    BY <1>6, <2>2, FS_AddElement DEF OwedInv
  <2>4. ledger'.balance = ledger.balance + Face
    BY <1>13, CollectMoves DEF Moved
  <2>5. Face * (n + 1) = Face * n + Face
    BY WithdrawalAssumption
  <2>6. Collected' = Face * (n + 1)
    BY <2>3 DEF Collected, PaidIn
  <2>7. ledger'.balance = Face * (n + 1) - s
    BY <1>7, <2>4, <2>5, WithdrawalAssumption
  <2> QED BY <2>1, <2>3, <2>6, <2>7 DEF OwedInv, f
<1>14. ASSUME NEW p \in Payouts, NEW gross \in Amounts, NEW fee \in Fees, NEW due \in DueIds,
              Opens(p, gross, fee, due)
       PROVE  OwedInv'
  <2>1. Moved(ledger, ledger', due, -gross) /\ PaidIn' = PaidIn /\ gross \in Nat
    BY <1>14, OpenMoves, WithdrawalAssumption
  <2>2. \A q \in Payouts \ {p} : f'[q] = f[q]
    BY <1>11, <1>14 DEF Opens, OthersSame
  <2>3. f[p] = 0 /\ f'[p] = gross
    BY <1>14 DEF Opens, f, Reserved, Opened, RESTORED
  <2> QED BY <1>8, <2>1, <2>2, <2>3 DEF Moved
<1>15. ASSUME NEW p \in Payouts, NEW to \in PayoutStatus, Advances(p, to)
       PROVE  OwedInv'
  <2>1. \A q \in Payouts \ {p} : f'[q] = f[q]
    BY <1>11, <1>15 DEF Advances, Moves, OthersSame
  <2>2. to # "none" /\ payout[p].status # "none" /\ payout[p].status \notin RESTORED
    BY <1>15 DEF Advances, Moves, CanTransitionPayout, PAYOUT_TRANSITIONS, RESTORED
  <2>3. f'[p] = f[p]
    BY <1>15, <2>2 DEF Advances, Moves, f, Reserved, Opened
  <2> QED BY <1>10, <1>15, <2>1, <2>3 DEF Advances, PaidIn
<1>16. ASSUME NEW p \in Payouts, NEW to \in PayoutStatus, Restores(p, to)
       PROVE  OwedInv'
  <2>1. Moved(ledger, ledger', payout[p].dueId, payout[p].amount) /\ PaidIn' = PaidIn
    BY <1>16, RestoreMoves
  <2>2. \A q \in Payouts \ {p} : f'[q] = f[q]
    BY <1>11, <1>16 DEF Restores, Moves, OthersSame
  <2>3. payout[p].status # "none" /\ payout[p].status \notin RESTORED
    BY <1>16 DEF Restores, Moves, CanTransitionPayout, PAYOUT_TRANSITIONS, RESTORED
  <2>4. f[p] = payout[p].amount /\ f'[p] = 0 /\ payout[p].amount \in Int
    BY <1>1, <1>16, <2>3 DEF Restores, Moves, f, Reserved, Opened
  <2> QED BY <1>8, <2>1, <2>2, <2>4 DEF Moved
<1> QED BY <1>12, <1>13, <1>14, <1>15, <1>16, StepShape

(* Nothing has come in and nothing is reserved at the start.                *)
LEMMA OwedStart ==
  /\ Init => NetsInv
  /\ IsFiniteSet(Payouts) /\ Init => OwedInv
<1>1. ASSUME Init PROVE NetsInv
  <2>1. \A d \in Dues : ledger.net[d] = 0
    BY <1>1 DEF Init, EmptyLedger, DueIds
  <2>2. IsFiniteSet(Dues)
    BY <2>1, FirstOfAll
  <2>3. SumFunctionOnSet(ledger.net, Dues) = 0
    BY <2>1, <2>2, SumOfZeros
  <2> QED BY <1>1, <2>1, <2>3 DEF Init, EmptyLedger, DueIds, NetsInv
<1>2. ASSUME IsFiniteSet(Payouts), Init PROVE OwedInv
  <2>1. PaidIn = {}
    BY <1>2 DEF Init, EmptyLedger, PaidIn
  <2>2. Collected = 0
    <3>1. Collected = Face * Cardinality(PaidIn) /\ Cardinality(PaidIn) = 0
      BY <2>1, FS_EmptySet DEF Collected, PaidIn
    <3>2. Face * 0 = 0
      BY WithdrawalAssumption
    <3> QED BY <3>1, <3>2
  <2> DEFINE f == [p \in Payouts |-> Reserved(p)]
  <2>3. \A p \in Payouts : f[p] = 0
    BY <1>2 DEF Init, NoRow, Reserved, Opened
  <2>4. SumFunction(f) = SumFunctionOnSet(f, Payouts)
    BY DEF SumFunction
  <2> HIDE DEF f
  <2>5. SumFunction(f) = 0
    BY <1>2, <2>3, <2>4, SumOfZeros
  <2> QED BY <1>2, <2>1, <2>2, <2>5, FS_EmptySet DEF Init, EmptyLedger, OwedInv, f
<1> QED BY <1>1, <1>2

(* With the balance at or above zero, this is what SharesAreOwed asks.      *)
LEMMA OwedEnough ==
  ASSUME IsFiniteSet(Payouts), TypeOK, NetsInv, OwedInv, NotOverdrawn
  PROVE  SharesAreOwed
<1>1. ledger.net \in [DueIds -> Int] /\ ledger.balance \in Nat /\ \A d \in Dues : ledger.net[d] >= 0
  BY LedgerParts DEF TypeOK, LedgerIds, NotOverdrawn, NetsInv
<1>2. SumFunction(GetDueAvailability(ledger.net)) <= ledger.balance
  BY <1>1, SharesAddUp DEF NetsInv
<1>3. ASSUME NEW i \in 0..N PROVE LeadShare(i) = First(ledger.net, i)
  <2> DEFINE f == [j \in 1..i |-> ledger.net[DueOrder[j]]]
  <2>1. IsFiniteSet(1..i) /\ \A j \in 1..i : f[j] = InOrder(ledger.net)[j]
    BY Positions, FS_Interval DEF InOrder
  <2>2. LeadShare(i) = SumFunctionOnSet(f, 1..i)
    BY DEF LeadShare, SumFunction
  <2> HIDE DEF f
  <2> QED BY <2>1, <2>2, SumSame DEF First
<1>4. DuesKeepTheirShare
  BY <1>1, <1>3, SharesAreKept DEF DuesKeepTheirShare, N
<1> QED BY <1>1, <1>2, <1>4 DEF SharesAreOwed, BalanceIsOwed, OwedInv

(* SharesAreOwed: for any number of dues, withdrawals and races, the        *)
(* balance is what came in less what is in flight or paid, the dues' shares *)
(* of it never add up to more, and no due pays for another while the dues   *)
(* before it can (createPayout's checks under the space lock).              *)
THEOREM SharesStayOwed == ASSUME IsFiniteSet(Payouts) PROVE Spec => []SharesAreOwed
<1>1. NetsInv /\ OwedInv /\ TypeOK /\ TypeOK' /\ LedgerMatchesStatus /\ [Next]_vars => NetsInv' /\ OwedInv'
  BY NetsStep, OwedStep
<1>2. Init => NetsInv /\ OwedInv
  BY OwedStart
<1>3. TypeOK /\ NetsInv /\ OwedInv /\ NotOverdrawn => SharesAreOwed
  BY OwedEnough
<1> QED BY <1>1, <1>2, <1>3, TypeCorrect, DebitsAndReversals, NeverOverdrawn, PTL DEF Spec

-----------------------------------------------------------------------------
(* The fees                                                                 *)

PaidOut == {"success", "reversed"}

(* A fee is swept from a withdrawal that was paid, once, and is Duevy's     *)
(* share of it; what the row says of its settlement is so, unless nothing   *)
(* was to be swept; and it is given back after a reversal only.             *)
FeeFits(p) ==
    /\ bank[p].swept \/ payout[p].feeSettledAt => payout[p].status \in PaidOut
    /\ payout[p].status \in PaidOut => payout[p].providerFee = bank[p].fee
    /\ IF bank[p].swept THEN bank[p].sweptKobo = FeeShare(p) ELSE bank[p].sweptKobo = 0 /\ ~bank[p].topup
    /\ payout[p].feeSettledAt =>
          payout[p].feeSettlement = FeeShare(p) /\ (bank[p].swept \/ FeeShare(p) = 0)
    /\ bank[p].topup => payout[p].status = "reversed"

(* And so is what a handler is about to sweep, write or give back.          *)
FeeCallFits(c) ==
    /\ c.at \in {"sweep", "swept"} => payout[c.p].status \in PaidOut /\ c.amount = FeeShare(c.p)
    /\ c.at = "swept" => c.amount = 0 \/ bank[c.p].swept
    /\ c.at = "refund" => payout[c.p].status = "reversed" /\ bank[c.p].swept /\ c.amount = bank[c.p].sweptKobo

FeeInv ==
    /\ \A p \in Payouts : FeeFits(p)
    /\ \A h \in Handlers : FeeCallFits(call[h])

(* What was paid stays paid, and what was swept stays swept.                *)
FeesKept ==
    \A p \in Payouts :
        /\ payout[p].status \in PaidOut => payout'[p].status \in PaidOut /\ FeeShare(p)' = FeeShare(p)
        /\ payout[p].status = "reversed" => payout'[p].status = "reversed"
        /\ bank[p].swept => bank'[p].swept /\ bank'[p].sweptKobo = bank[p].sweptKobo

(* Rows and records that fit, and what the step asks of one handler.        *)
LEMMA FeeMoves ==
  ASSUME TypeOK, FeeInv, FeesKept, \A p \in Payouts : FeeFits(p)',
         \/ call' = call
         \/ \E h \in Handlers : \E c : call' = [call EXCEPT ![h] = c] /\ FeeCallFits(c)'
  PROVE  FeeInv'
<1>1. ASSUME NEW h \in Handlers, call'[h] = call[h] PROVE FeeCallFits(call[h])'
  <2>1. FeeCallFits(call[h]) /\ (call[h].at # "idle" => call[h].p \in Payouts)
    BY DEF FeeInv, TypeOK
  <2> QED BY <1>1, <2>1 DEF FeeCallFits, FeesKept
<1>2. CASE call' = call
  BY <1>1, <1>2 DEF FeeInv
<1>3. ASSUME NEW h \in Handlers, NEW c, call' = [call EXCEPT ![h] = c], FeeCallFits(c)'
      PROVE  FeeInv'
  <2>1. call \in [Handlers -> Call]
    BY DEF TypeOK
  <2>2. call'[h] = c /\ \A g \in Handlers \ {h} : call'[g] = call[g]
    BY <1>3, <2>1
  <2> QED BY <1>1, <1>3, <2>2 DEF FeeInv
<1> QED BY <1>2, <1>3

(* Nothing more is asked of a handler that has no fee to move.              *)
LEMMA NoFee ==
  \A p : /\ FeeCallFits(Idle)'
         /\ \A step \in CallSteps \ {"sweep", "swept", "refund"} : FeeCallFits(At(step, p))'
         /\ \A reply : FeeCallFits(Answered(p, reply))' /\ FeeCallFits(After(reply, p))'
  BY DEF FeeCallFits, Idle, At, Answered, After

(* Rows and records as they are.                                            *)
LEMMA FeeReads ==
  ASSUME TypeOK, FeeInv, payout' = payout, bank' = bank,
         \/ call' = call
         \/ \E h \in Handlers : \E c : call' = [call EXCEPT ![h] = c] /\ FeeCallFits(c)'
  PROVE  FeeInv'
<1>1. \A p \in Payouts : FeeShare(p)' = FeeShare(p)
  BY DEF FeeShare
<1>2. FeesKept
  BY <1>1 DEF FeesKept
<1>3. \A p \in Payouts : FeeFits(p)'
  BY <1>1 DEF FeeFits, FeeInv
<1> QED BY <1>2, <1>3, FeeMoves

(* A row before its payout was paid.                                        *)
LEMMA FeeRows ==
  ASSUME TypeOK, FeeInv, bank' = bank, NEW p \in Payouts,
         \A q \in Payouts \ {p} : payout'[q] = payout[q],
         payout[p].status \notin PaidOut,
         ~payout'[p].feeSettledAt,
         payout'[p].status \in PaidOut => payout'[p].status = "success" /\ payout'[p].providerFee = bank[p].fee,
         \/ call' = call
         \/ \E h \in Handlers : \E c : call' = [call EXCEPT ![h] = c] /\ FeeCallFits(c)'
  PROVE  FeeInv'
<1>1. \A q \in Payouts \ {p} : FeeShare(q)' = FeeShare(q)
  BY DEF FeeShare
<1>2. FeesKept
  <2>1. ~bank[p].swept
    BY DEF FeeInv, FeeFits
  <2> QED BY <1>1, <2>1 DEF FeesKept, PaidOut
<1>3. \A q \in Payouts \ {p} : FeeFits(q)'
  BY <1>1 DEF FeeFits, FeeInv
<1>4. FeeFits(p)'
  BY DEF FeeFits, FeeInv
<1> QED BY <1>2, <1>3, <1>4, FeeMoves

(* A step of the provider that moves no fee.                                *)
LEMMA FeeRecords ==
  ASSUME TypeOK, FeeInv, payout' = payout, NEW p \in Payouts,
         \A q \in Payouts \ {p} : bank'[q] = bank[q],
         bank'[p].swept = bank[p].swept, bank'[p].sweptKobo = bank[p].sweptKobo, bank'[p].topup = bank[p].topup,
         payout[p].status \in PaidOut => bank'[p].fee = bank[p].fee,
         \/ call' = call
         \/ \E h \in Handlers : \E c : call' = [call EXCEPT ![h] = c] /\ FeeCallFits(c)'
  PROVE  FeeInv'
<1>1. \A q \in Payouts : FeeShare(q)' = FeeShare(q)
  BY DEF FeeShare
<1>2. FeesKept
  BY <1>1 DEF FeesKept
<1>3. \A q \in Payouts \ {p} : FeeFits(q)'
  BY <1>1 DEF FeeFits, FeeInv
<1>4. FeeFits(p)'
  BY <1>1 DEF FeeFits, FeeInv
<1> QED BY <1>2, <1>3, <1>4, FeeMoves

(* No step takes a fee that is not due, and none takes it twice.            *)
LEMMA FeeStep == TypeOK /\ TypeOK' /\ EverythingBacked /\ FeeInv /\ [Next]_vars => FeeInv'
<1> SUFFICES ASSUME TypeOK, TypeOK', EverythingBacked, FeeInv, [Next]_vars PROVE FeeInv'
  OBVIOUS
<1>0. payout \in [Payouts -> Row] /\ bank \in [Payouts -> BankRecord] /\ call \in [Handlers -> Call]
  BY DEF TypeOK
<1>1. ASSUME NEW dp \in DuePayments, NEW d \in Dues, DuePaid(dp, d)
      PROVE  FeeInv'
  BY <1>1, FeeReads DEF DuePaid
<1>2. ASSUME NEW h \in Handlers, NEW p \in Payouts, NEW gross \in Amounts, NEW fee \in Fees,
             NEW due \in DueIds, NEW needsApproval \in BOOLEAN,
             RequestWithdrawal(h, p, gross, fee, due, needsApproval)
      PROVE  FeeInv'
  <2>1. payout'[p] = NewRow(IF needsApproval THEN "awaiting_approval" ELSE "pending", gross, fee, due)
        /\ \A q \in Payouts \ {p} : payout'[q] = payout[q]
    BY <1>0, <1>2 DEF RequestWithdrawal
  <2>2. /\ payout[p].status \notin PaidOut /\ ~payout'[p].feeSettledAt
        /\ payout'[p].status \notin PaidOut
    BY <1>2, <2>1 DEF RequestWithdrawal, NewRow, PaidOut
  <2>3. "send" \in CallSteps \ {"sweep", "swept", "refund"}
    BY DEF CallSteps
  <2>4. \E c : call' = [call EXCEPT ![h] = c] /\ FeeCallFits(c)'
    BY <1>2, <2>3, NoFee DEF RequestWithdrawal, Return, Goto
  <2> QED BY <1>2, <2>1, <2>2, <2>4, FeeRows DEF RequestWithdrawal
<1>3. ASSUME NEW h \in Handlers, NEW p \in Payouts, ReleaseApproved(h, p) \/ CancelPayout(h, p)
      PROVE  FeeInv'
  <2>1. /\ \A q \in Payouts \ {p} : payout'[q] = payout[q]
        /\ payout'[p].status \in {"pending", "cancelled"}
        /\ payout'[p].feeSettledAt = payout[p].feeSettledAt
    BY <1>0, <1>3 DEF ReleaseApproved, CancelPayout, Row
  <2>2. payout[p].status \notin PaidOut
    BY <1>3 DEF ReleaseApproved, CancelPayout, CanTransitionPayout, PAYOUT_TRANSITIONS, PaidOut
  <2>3. ~payout'[p].feeSettledAt
    BY <2>1, <2>2 DEF FeeInv, FeeFits
  <2>4. "send" \in CallSteps \ {"sweep", "swept", "refund"}
    BY DEF CallSteps
  <2>5. call' = call \/ \E c : call' = [call EXCEPT ![h] = c] /\ FeeCallFits(c)'
    BY <1>3, <2>4, NoFee DEF ReleaseApproved, CancelPayout, Goto
  <2>6. payout'[p].status \notin PaidOut /\ bank' = bank
    BY <1>3, <2>1 DEF PaidOut, ReleaseApproved, CancelPayout
  <2> QED BY <2>1, <2>2, <2>3, <2>5, <2>6, FeeRows
<1>4. ASSUME NEW h \in Handlers, RecordDispatch(h)
      PROVE  FeeInv'
  <2> DEFINE p == call[h].p
  <2>0. p \in Payouts /\ bank' = bank
    BY <1>4 DEF RecordDispatch, TypeOK
  <2>1. \E c : call' = [call EXCEPT ![h] = c] /\ FeeCallFits(c)'
    BY <1>4, NoFee DEF RecordDispatch
  <2>2. CASE ~StillPending(p)
    BY <1>4, <2>0, <2>1, <2>2, FeeReads DEF RecordDispatch
  <2>3. CASE StillPending(p)
    <3>1. payout' = [payout EXCEPT ![p].status = "processing", ![p].providerFee = bank[p].fee]
      BY <1>4, <2>3 DEF RecordDispatch
    <3> HIDE DEF p
    <3>2. /\ \A q \in Payouts \ {p} : payout'[q] = payout[q]
          /\ payout'[p].status = "processing" /\ payout'[p].feeSettledAt = payout[p].feeSettledAt
      BY <1>0, <2>0, <3>1 DEF Row
    <3>3. payout[p].status \notin PaidOut /\ payout'[p].status \notin PaidOut
      BY <2>3, <3>2 DEF StillPending, PaidOut
    <3>4. ~payout'[p].feeSettledAt
      BY <2>0, <3>2, <3>3 DEF FeeInv, FeeFits
    <3> QED BY <2>0, <2>1, <3>2, <3>3, <3>4, FeeRows
  <2> QED BY <2>2, <2>3
<1>5. ASSUME NEW h \in Handlers, CompletePayout(h)
      PROVE  FeeInv'
  <2> DEFINE p == call[h].p
  <2>0. p \in Payouts /\ bank' = bank
    BY <1>5 DEF CompletePayout, TypeOK
  <2>1. \E c : call' = [call EXCEPT ![h] = c] /\ FeeCallFits(c)'
    <3>1. "settle" \in CallSteps \ {"sweep", "swept", "refund"}
      BY DEF CallSteps
    <3> QED BY <1>5, <3>1, NoFee DEF CompletePayout, Goto, Return
  <2>2. CASE ~CanTransitionPayout(payout[p].status, "success")
    BY <1>5, <2>0, <2>1, <2>2, FeeReads DEF CompletePayout
  <2>3. CASE CanTransitionPayout(payout[p].status, "success")
    <3>1. payout' = [payout EXCEPT ![p].status = "success", ![p].activeSpaceId = FALSE, ![p].providerFee = bank[p].fee]
      BY <1>5, <2>3 DEF CompletePayout
    <3> HIDE DEF p
    <3>2. /\ \A q \in Payouts \ {p} : payout'[q] = payout[q]
          /\ payout'[p].status = "success" /\ payout'[p].feeSettledAt = payout[p].feeSettledAt
          /\ payout'[p].providerFee = bank[p].fee
      BY <1>0, <2>0, <3>1 DEF Row
    <3>3. payout[p].status \notin PaidOut
      BY <2>3 DEF CanTransitionPayout, PAYOUT_TRANSITIONS, PaidOut
    <3>4. ~payout'[p].feeSettledAt
      BY <2>0, <3>2, <3>3 DEF FeeInv, FeeFits
    <3> QED BY <2>0, <2>1, <3>2, <3>3, <3>4, FeeRows
  <2> QED BY <2>2, <2>3
<1>6. ASSUME NEW h \in Handlers, FailPayout(h)
      PROVE  FeeInv'
  <2>1. PICK p \in Payouts, to \in {"failed", "reversed"}, n \in Int :
           p = call[h].p /\ to = FailedStatus(p) /\ n = payout[p].feeSettlement
    <3>1. call[h].p \in Payouts
      BY <1>6 DEF FailPayout, TypeOK
    <3>2. payout[call[h].p].feeSettlement \in Int
      BY <1>0, <3>1 DEF Row
    <3> QED BY <3>1, <3>2 DEF FailedStatus
  <2>2. bank' = bank /\ FeeFits(p)
    BY <1>6 DEF FailPayout, FeeInv
  <2>3. CASE ~CanTransitionPayout(payout[p].status, to)
    <3>1. call' = [call EXCEPT ![h] = Idle] /\ payout' = payout
      BY <1>6, <2>1, <2>3 DEF FailPayout, Return
    <3> QED BY <2>2, <3>1, FeeReads, NoFee
  <2>4. CASE CanTransitionPayout(payout[p].status, to)
    <3>0. /\ payout' = [payout EXCEPT ![p].status = to, ![p].activeSpaceId = FALSE]
          /\ IF FeeToRefund(p) THEN call' = [call EXCEPT ![h] = AtAmount("refund", p, n)]
                               ELSE call' = [call EXCEPT ![h] = Idle]
      BY <1>6, <2>1, <2>4 DEF FailPayout, Return
    <3>1. /\ \A q \in Payouts \ {p} : payout'[q] = payout[q]
          /\ payout'[p].status = to
          /\ payout'[p].feeSettledAt = payout[p].feeSettledAt /\ payout'[p].feeSettlement = payout[p].feeSettlement
          /\ payout'[p].providerFee = payout[p].providerFee /\ payout'[p].feeKobo = payout[p].feeKobo
      BY <1>0, <3>0 DEF Row
    <3>2. CASE payout[p].status # "success"
      <4>1. to = "failed" /\ payout[p].status \notin PaidOut
        BY <2>1, <2>4, <3>2 DEF FailedStatus, CanTransitionPayout, PAYOUT_TRANSITIONS, PaidOut
      <4>2. payout'[p].status \notin PaidOut /\ ~payout'[p].feeSettledAt
        BY <2>2, <3>1, <4>1 DEF FeeFits, PaidOut
      <4>3. call' = [call EXCEPT ![h] = Idle]
        BY <3>0, <3>2 DEF FeeToRefund
      <4> QED BY <2>2, <3>1, <4>1, <4>2, <4>3, FeeRows, NoFee
    <3>3. CASE payout[p].status = "success"
      <4>1. to = "reversed"
        BY <2>1, <3>3 DEF FailedStatus
      <4>2. \A q \in Payouts : FeeShare(q)' = FeeShare(q)
        BY <3>1 DEF FeeShare
      <4>3. FeesKept
        BY <2>2, <3>1, <3>3, <4>1, <4>2 DEF FeesKept, PaidOut
      <4>4. FeeFits(p)'
        BY <2>2, <3>1, <3>3, <4>1, <4>2 DEF FeeFits, PaidOut
      <4>5. \A q \in Payouts \ {p} : FeeFits(q)'
        BY <2>2, <3>1, <4>2 DEF FeeFits, FeeInv
      <4>6. CASE FeeToRefund(p)
        <5>1. call' = [call EXCEPT ![h] = AtAmount("refund", p, n)]
          BY <3>0, <4>6
        <5>2. bank[p].swept /\ n = bank[p].sweptKobo
          BY <2>1, <2>2, <4>6 DEF FeeToRefund, FeeFits
        <5>3. FeeCallFits(AtAmount("refund", p, n))'
          BY <2>2, <3>1, <4>1, <5>2 DEF FeeCallFits, AtAmount
        <5> QED BY <4>3, <4>4, <4>5, <5>1, <5>3, FeeMoves
      <4>7. CASE ~FeeToRefund(p)
        BY <3>0, <4>3, <4>4, <4>5, <4>7, FeeMoves, NoFee
      <4> QED BY <4>6, <4>7
    <3> QED BY <3>2, <3>3
  <2> QED BY <2>3, <2>4
<1>7. ASSUME NEW h \in Handlers, SettleWithdrawalFee(h)
      PROVE  FeeInv'
  <2>1. PICK p \in Payouts, n \in Int : p = call[h].p /\ n = FeeShare(p)
    <3>1. call[h].p \in Payouts
      BY <1>7 DEF SettleWithdrawalFee, TypeOK
    <3>2. FeeShare(call[h].p) \in Int
      BY <1>0, <3>1 DEF FeeShare, Row
    <3> QED BY <3>1, <3>2
  <2>2. payout' = payout /\ bank' = bank
    BY <1>7 DEF SettleWithdrawalFee
  <2>3. CASE payout[p].status = "success" /\ ~payout[p].feeSettledAt
    <3>1. PICK step \in {"sweep", "swept"} :
             call' = [call EXCEPT ![h] = AtAmount(step, p, n)] /\ (step = "swept" => n = 0)
      BY <1>7, <2>1, <2>3 DEF SettleWithdrawalFee
    <3>2. FeeShare(p)' = n
      BY <2>1, <2>2 DEF FeeShare
    <3>3. FeeCallFits(AtAmount(step, p, n))'
      BY <2>2, <2>3, <3>1, <3>2 DEF FeeCallFits, AtAmount, PaidOut
    <3> QED BY <2>2, <3>1, <3>3, FeeReads
  <2>4. CASE ~(payout[p].status = "success" /\ ~payout[p].feeSettledAt)
    <3>1. call' = [call EXCEPT ![h] = Idle]
      BY <1>7, <2>1, <2>4 DEF SettleWithdrawalFee, Return
    <3> QED BY <2>2, <3>1, FeeReads, NoFee
  <2> QED BY <2>3, <2>4
<1>8. ASSUME NEW h \in Handlers, RecordSettlement(h)
      PROVE  FeeInv'
  <2>0. PICK p \in Payouts, n \in Int : p = call[h].p /\ n = call[h].amount
    BY <1>0, <1>8 DEF RecordSettlement, TypeOK, Call
  <2>1. /\ payout' = [payout EXCEPT ![p].feeSettledAt = TRUE, ![p].feeSettlement = n]
        /\ bank' = bank /\ call' = [call EXCEPT ![h] = Idle]
    BY <1>8, <2>0 DEF RecordSettlement, Return
  <2>2. payout[p].status \in PaidOut /\ n = FeeShare(p) /\ (n = 0 \/ bank[p].swept) /\ FeeFits(p)
    BY <1>8, <2>0 DEF RecordSettlement, FeeInv, FeeCallFits
  <2>3. /\ \A q \in Payouts \ {p} : payout'[q] = payout[q]
        /\ payout'[p].feeSettledAt /\ payout'[p].feeSettlement = n
        /\ payout'[p].status = payout[p].status
        /\ payout'[p].providerFee = payout[p].providerFee /\ payout'[p].feeKobo = payout[p].feeKobo
    BY <1>0, <2>1 DEF Row
  <2>4. \A q \in Payouts : FeeShare(q)' = FeeShare(q)
    BY <2>3 DEF FeeShare
  <2>5. FeesKept
    BY <2>1, <2>3, <2>4 DEF FeesKept
  <2>6. FeeFits(p)'
    BY <2>1, <2>2, <2>3, <2>4 DEF FeeFits
  <2>7. \A q \in Payouts \ {p} : FeeFits(q)'
    BY <2>1, <2>3, <2>4, ZenonT(60) DEF FeeFits, FeeInv
  <2> QED BY <2>1, <2>5, <2>6, <2>7, FeeMoves, NoFee
<1>9. ASSUME NEW h \in Handlers,
             \/ DispatchPayout(h) \/ Interrupt(h) \/ BankReplays(h) \/ BankReports(h) \/ BankRefusesSweep(h)
             \/ \E p \in Payouts : RetryDispatch(h, p) \/ RefreshPayout(h, p) \/ RetrySettlement(h, p)
             \/ \E e \in events : ProcessEvent(h, e)
      PROVE  FeeInv'
  <2>1. {"send", "initiate", "fail", "refresh", "settle"} \subseteq CallSteps \ {"sweep", "swept", "refund"}
    BY DEF CallSteps
  <2>2. payout' = payout /\ bank' = bank
    BY <1>9 DEF DispatchPayout, Interrupt, BankReplays, BankReports, BankRefusesSweep,
                RetryDispatch, RefreshPayout, RetrySettlement, ProcessEvent
  <2>3. \E c : call' = [call EXCEPT ![h] = c] /\ FeeCallFits(c)'
    BY <1>9, <2>1, NoFee
       DEF DispatchPayout, Interrupt, BankReplays, BankReports, BankRefusesSweep,
           RetryDispatch, RefreshPayout, RetrySettlement, ProcessEvent, Goto, Return, Answer
  <2> QED BY <2>2, <2>3, FeeReads
<1>10. ASSUME NEW h \in Handlers,
              \/ \E s \in {"pending", "paid", "failed"}, fee \in ProviderFees : BankAccepts(h, s, fee)
              \/ BankRefuses(h)
       PROVE  FeeInv'
  <2> DEFINE p == call[h].p
  <2>1. p \in Payouts /\ payout' = payout /\ bank[p].state = "none"
    BY <1>10 DEF BankAccepts, BankRefuses, TypeOK
  <2>2. payout[p].status \notin PaidOut
    BY <2>1 DEF EverythingBacked, StatusBacked, PaidOut
  <2>3. "fail" \in CallSteps \ {"sweep", "swept", "refund"}
    BY DEF CallSteps
  <2>4. \E c : call' = [call EXCEPT ![h] = c] /\ FeeCallFits(c)'
    BY <1>10, <2>3, NoFee DEF BankAccepts, BankRefuses, Goto, Answer
  <2>5. \E s, first \in BankState, fee \in Nat :
           bank' = [bank EXCEPT ![p].state = s, ![p].first = first, ![p].fee = fee]
    <3>1. CASE BankRefuses(h)
      <4>1. bank' = [bank EXCEPT ![p].state = "refused", ![p].first = "refused"]
        BY <3>1 DEF BankRefuses
      <4>2. bank' = [bank EXCEPT ![p].state = "refused", ![p].first = "refused", ![p].fee = bank[p].fee]
        BY <1>0, <2>1, <4>1 DEF BankRecord
      <4> QED BY <1>0, <2>1, <4>2, ZenonT(60) DEF BankRecord, BankState
    <3>2. CASE \E s \in {"pending", "paid", "failed"}, fee \in ProviderFees : BankAccepts(h, s, fee)
      BY <3>2, WithdrawalAssumption DEF BankAccepts, BankState
    <3> QED BY <1>10, <3>1, <3>2
  <2> HIDE DEF p
  <2>6. /\ \A q \in Payouts \ {p} : bank'[q] = bank[q]
        /\ bank'[p].swept = bank[p].swept /\ bank'[p].sweptKobo = bank[p].sweptKobo /\ bank'[p].topup = bank[p].topup
    BY <1>0, <2>1, <2>5 DEF BankRecord
  <2> QED BY <2>1, <2>2, <2>4, <2>6, FeeRecords
<1>11. ASSUME NEW p \in Payouts, BankPays(p) \/ BankFails(p)
       PROVE  FeeInv'
  <2>1. /\ \A q \in Payouts \ {p} : bank'[q] = bank[q]
        /\ bank'[p].swept = bank[p].swept /\ bank'[p].sweptKobo = bank[p].sweptKobo
        /\ bank'[p].topup = bank[p].topup /\ bank'[p].fee = bank[p].fee
    BY <1>0, <1>11 DEF BankPays, BankFails, BankRecord
  <2>2. payout' = payout /\ call' = call
    BY <1>11 DEF BankPays, BankFails
  <2> QED BY <2>1, <2>2, FeeRecords
<1>12. ASSUME NEW h \in Handlers, BankSweeps(h)
       PROVE  FeeInv'
  <2>1. PICK p \in Payouts, n \in Int : p = call[h].p /\ n = call[h].amount
    BY <1>0, <1>12 DEF BankSweeps, TypeOK, Call
  <2>2. payout' = payout /\ call' = [call EXCEPT ![h] = AtAmount("swept", p, n)]
    BY <1>12, <2>1 DEF BankSweeps
  <2>3. payout[p].status \in PaidOut /\ n = FeeShare(p) /\ FeeFits(p)
    BY <1>12, <2>1 DEF BankSweeps, FeeInv, FeeCallFits
  <2>4. \A q \in Payouts : FeeShare(q)' = FeeShare(q)
    BY <2>2 DEF FeeShare
  <2>5. CASE bank[p].swept
    <3>1. bank' = bank
      BY <1>12, <2>1, <2>5 DEF BankSweeps
    <3>2. FeeCallFits(AtAmount("swept", p, n))'
      BY <2>2, <2>3, <2>4, <2>5, <3>1 DEF FeeCallFits, AtAmount
    <3> QED BY <2>2, <3>1, <3>2, FeeReads
  <2>6. CASE ~bank[p].swept
    <3>1. /\ bank'[p].swept /\ bank'[p].sweptKobo = n
          /\ bank'[p].topup = bank[p].topup /\ bank'[p].fee = bank[p].fee
          /\ \A q \in Payouts \ {p} : bank'[q] = bank[q]
      <4>1. bank' = [bank EXCEPT ![p].swept = TRUE, ![p].sweptKobo = n]
        BY <1>12, <2>1, <2>6 DEF BankSweeps
      <4> QED BY <1>0, <4>1 DEF BankRecord
    <3>2. FeeFits(p)'
      BY <2>2, <2>3, <2>4, <2>6, <3>1 DEF FeeFits
    <3>3. \A q \in Payouts \ {p} : FeeFits(q)'
      BY <2>2, <2>4, <3>1 DEF FeeFits, FeeInv
    <3>4. FeesKept
      BY <2>2, <2>4, <2>6, <3>1 DEF FeesKept
    <3>5. FeeCallFits(AtAmount("swept", p, n))'
      BY <2>2, <2>3, <2>4, <3>1 DEF FeeCallFits, AtAmount
    <3> QED BY <2>2, <3>2, <3>3, <3>4, <3>5, FeeMoves
  <2> QED BY <2>5, <2>6
<1>13. ASSUME NEW h \in Handlers, BankRefundsFee(h)
       PROVE  FeeInv'
  <2>1. PICK p \in Payouts : p = call[h].p
    BY <1>13 DEF BankRefundsFee, TypeOK
  <2>2. payout' = payout /\ call' = [call EXCEPT ![h] = Idle]
    BY <1>13, <2>1 DEF BankRefundsFee, Return
  <2>3. payout[p].status = "reversed" /\ bank[p].swept /\ FeeFits(p)
    BY <1>13, <2>1 DEF BankRefundsFee, FeeInv, FeeCallFits
  <2>4. \A q \in Payouts : FeeShare(q)' = FeeShare(q)
    BY <2>2 DEF FeeShare
  <2>5. CASE bank[p].topup
    <3>1. bank' = bank
      BY <1>13, <2>1, <2>5 DEF BankRefundsFee
    <3> QED BY <2>2, <3>1, FeeReads, NoFee
  <2>6. CASE ~bank[p].topup
    <3>1. /\ bank'[p].swept = bank[p].swept /\ bank'[p].sweptKobo = bank[p].sweptKobo
          /\ bank'[p].topup /\ bank'[p].fee = bank[p].fee
          /\ \A q \in Payouts \ {p} : bank'[q] = bank[q]
      <4>1. bank' = [bank EXCEPT ![p].topup = TRUE]
        BY <1>13, <2>1, <2>6 DEF BankRefundsFee
      <4> QED BY <1>0, <4>1 DEF BankRecord
    <3>2. FeeFits(p)'
      BY <2>2, <2>3, <2>4, <2>6, <3>1 DEF FeeFits
    <3>3. \A q \in Payouts \ {p} : FeeFits(q)'
      BY <2>2, <2>4, <3>1 DEF FeeFits, FeeInv
    <3>4. FeesKept
      BY <2>2, <2>4, <3>1 DEF FeesKept
    <3> QED BY <2>2, <3>2, <3>3, <3>4, FeeMoves, NoFee
  <2> QED BY <2>5, <2>6
<1>14. CASE UNCHANGED vars
  BY <1>14, FeeReads DEF vars
<1>15. CASE \E h \in Workers : WorkerNext(h)
  BY <1>2, <1>3, <1>9, <1>15 DEF WorkerNext, Handlers
<1>16. CASE \E h \in Reconcilers : ReconcilerNext(h)
  BY <1>3, <1>9, <1>16 DEF ReconcilerNext, ExpireStaleApproval, Handlers
<1>17. CASE \E h \in Handlers : Continue(h) \/ BankAnswers(h) \/ Interrupt(h)
  BY <1>4, <1>5, <1>6, <1>7, <1>8, <1>9, <1>10, <1>12, <1>13, <1>17 DEF Continue, BankAnswers
<1> QED BY <1>1, <1>11, <1>14, <1>15, <1>16, <1>17 DEF Next

-----------------------------------------------------------------------------
(* What the account comes to                                                *)

(* What the provider has taken from the account for a withdrawal.           *)
Took(p) == (IF bank[p].state \in {"pending", "paid"} THEN NetKobo(p) + bank[p].fee ELSE 0)
           + (IF bank[p].topup THEN 0 ELSE bank[p].sweptKobo)

AccountInv == account = Collected - SumFunction([p \in Payouts |-> Took(p)])

(* What was taken is an amount.                                             *)
LEMMA TookIsInt == TypeOK => \A p \in Payouts : Took(p) \in Int
<1> SUFFICES ASSUME TypeOK, NEW p \in Payouts PROVE Took(p) \in Int
  OBVIOUS
<1>1. payout[p] \in Row /\ bank[p] \in BankRecord
  BY DEF TypeOK
<1> QED BY <1>1 DEF Took, NetKobo, Row, BankRecord

(* A step takes from the account what it takes for one withdrawal.          *)
LEMMA AccountMoves ==
  ASSUME IsFiniteSet(Payouts), TypeOK, TypeOK', OwedInv, AccountInv, PaidIn' = PaidIn,
         NEW p \in Payouts, NEW k \in Int, account' = account + k,
         \A q \in Payouts \ {p} : Took(q)' = Took(q), Took(p)' = Took(p) - k
  PROVE  AccountInv'
<1> DEFINE f == [q \in Payouts |-> Took(q)]
<1>1. \A q \in Payouts : f[q] \in Int /\ f'[q] \in Int
  BY TookIsInt
<1>2. (\A q \in Payouts \ {p} : f'[q] = f[q]) /\ f'[p] = f[p] - k
  OBVIOUS
<1>3. SumFunction(f) = SumFunctionOnSet(f, Payouts) /\ SumFunction(f)' = SumFunctionOnSet(f', Payouts)
  BY DEF SumFunction
<1>4. account = Collected - SumFunction(f)
  BY DEF AccountInv
<1> HIDE DEF f
<1>5. PICK s \in Int : SumFunctionOnSet(f, Payouts) = s
  BY <1>1, SumIsInt
<1>6. SumFunctionOnSet(f', Payouts) = SumFunctionOnSet(f, Payouts) + (f'[p] - f[p])
  BY <1>1, <1>2, SumChanges
<1>7. SumFunctionOnSet(f', Payouts) = s - k
  BY <1>1, <1>2, <1>5, <1>6
<1>8. PICK c \in Int : Collected = c /\ Collected' = c
  <2>1. Cardinality(PaidIn) \in Nat /\ Collected = Face * Cardinality(PaidIn) /\ Collected' = Face * Cardinality(PaidIn)
    BY FS_CardinalityType DEF OwedInv, Collected, PaidIn
  <2> QED BY <2>1, WithdrawalAssumption
<1>9. account' = c - (s - k)
  BY <1>3, <1>4, <1>5, <1>8
<1>10. SumFunction(f)' = s - k
  BY <1>3, <1>7
<1> QED BY <1>8, <1>9, <1>10 DEF AccountInv, f

(* A step of the service takes nothing.                                     *)
LEMMA AccountStays ==
  ASSUME IsFiniteSet(Payouts), TypeOK, TypeOK', OwedInv, AccountInv, PaidIn' = PaidIn, account' = account,
         \A q \in Payouts : Took(q)' = Took(q)
  PROVE  AccountInv'
<1> DEFINE f == [q \in Payouts |-> Took(q)]
<1>1. f' = f
  OBVIOUS
<1>2. SumFunction(f)' = SumFunction(f)
  BY <1>1 DEF SumFunction
<1>3. Collected' = Collected
  BY DEF Collected, PaidIn
<1> QED BY <1>2, <1>3 DEF AccountInv

(* A due's payment adds as much to the account as to what came in.          *)
LEMMA AccountCollects ==
  ASSUME IsFiniteSet(Payouts), TypeOK, TypeOK', OwedInv, AccountInv, bank' = bank, Collects
  PROVE  AccountInv'
<1> DEFINE f == [q \in Payouts |-> Took(q)]
<1>1. \A q \in Payouts : Took(q)' = Took(q)
  BY DEF Collects, Same, Took, NetKobo
<1>2. \A q \in Payouts : f[q] \in Int
  BY TookIsInt
<1>3. f' = f /\ SumFunction(f) = SumFunctionOnSet(f, Payouts)
  BY <1>1 DEF SumFunction
<1>4. SumFunction(f)' = SumFunction(f)
  BY <1>3 DEF SumFunction
<1>5. account = Collected - SumFunction(f) /\ account' = account + Face
  BY DEF AccountInv, Collects
<1> HIDE DEF f
<1>6. PICK s \in Int : SumFunction(f) = s
  BY <1>2, <1>3, SumIsInt
<1>7. PICK dp \in DuePayments : dp \notin PaidIn /\ PaidIn' = PaidIn \cup {dp}
  BY CollectMoves
<1>8. PICK n \in Nat : Cardinality(PaidIn) = n /\ Cardinality(PaidIn') = n + 1
  BY <1>7, FS_AddElement, FS_CardinalityType DEF OwedInv
<1>9. Collected = Face * n /\ Collected' = Face * (n + 1)
  BY <1>8 DEF Collected, PaidIn
<1>10. Face * (n + 1) = Face * n + Face
  BY WithdrawalAssumption
<1>11. account' = Face * (n + 1) - s
  BY <1>5, <1>6, <1>9, <1>10, WithdrawalAssumption
<1>12. SumFunction(f)' = s
  BY <1>4, <1>6
<1> QED BY <1>9, <1>11, <1>12 DEF AccountInv, f

(* The steps that leave account and provider alone.                         *)
LEMMA AccountServes ==
  ASSUME IsFiniteSet(Payouts), TypeOK, TypeOK', LedgerMatchesStatus, EverythingBacked, OwedInv, AccountInv,
         bank' = bank, account' = account, [Next]_vars
  PROVE  AccountInv'
<1>1. ASSUME NEW q \in Payouts, payout'[q].amount = payout[q].amount, payout'[q].feeKobo = payout[q].feeKobo
      PROVE  Took(q)' = Took(q)
  BY <1>1 DEF Took, NetKobo
<1>2. CASE Stays
  BY <1>1, <1>2, AccountStays DEF Stays, Same, PaidIn
<1>3. ~Collects
  <2>1. account \in Int /\ Face \in Nat \ {0}
    BY WithdrawalAssumption DEF TypeOK
  <2>2. account + Face # account
    BY <2>1
  <2> QED BY <2>2 DEF Collects
<1>4. ASSUME NEW p \in Payouts, NEW gross \in Amounts, NEW fee \in Fees, NEW due \in DueIds,
             Opens(p, gross, fee, due)
      PROVE  AccountInv'
  <2>1. bank[p].state = "none"
    BY <1>4 DEF Opens, EverythingBacked, StatusBacked
  <2>2. Took(p)' = Took(p)
    BY <2>1 DEF Took
  <2>3. \A q \in Payouts \ {p} : Took(q)' = Took(q)
    BY <1>1, <1>4 DEF Opens, OthersSame, Same
  <2> QED BY <1>4, <2>2, <2>3, OpenMoves, AccountStays
<1>5. ASSUME NEW p \in Payouts, NEW to \in PayoutStatus, Advances(p, to) \/ Restores(p, to)
      PROVE  AccountInv'
  <2>1. \A q \in Payouts : Took(q)' = Took(q)
    BY <1>1, <1>5 DEF Advances, Restores, Moves, OthersSame, Same
  <2>2. PaidIn' = PaidIn
    <3>1. CASE Advances(p, to)
      BY <3>1 DEF Advances, PaidIn
    <3>2. CASE Restores(p, to)
      BY <3>2, RestoreMoves
    <3> QED BY <1>5, <3>1, <3>2
  <2> QED BY <2>1, <2>2, AccountStays
<1> QED BY <1>2, <1>3, <1>4, <1>5, StepShape

(* The steps of the provider.                                               *)
LEMMA AccountProvides ==
  ASSUME IsFiniteSet(Payouts), TypeOK, TypeOK', OwedInv, AccountInv, UNCHANGED <<payout, ledger>>,
         NEW p \in Payouts, \A q \in Payouts \ {p} : bank'[q] = bank[q],
         NEW k \in Int, account' = account + k, Took(p)' = Took(p) - k
  PROVE  AccountInv'
<1>1. \A q \in Payouts \ {p} : Took(q)' = Took(q)
  BY DEF Took, NetKobo
<1> QED BY <1>1, AccountMoves DEF PaidIn

(* Every step moves the account by what it takes.                           *)
LEMMA AccountStep ==
  ASSUME IsFiniteSet(Payouts), TypeOK, TypeOK', LedgerMatchesStatus, EverythingBacked, FeeInv,
         OwedInv, AccountInv, [Next]_vars
  PROVE  AccountInv'
<1>0. bank \in [Payouts -> BankRecord] /\ payout \in [Payouts -> Row] /\ account \in Int
  BY DEF TypeOK
<1>1. ASSUME NEW dp \in DuePayments, NEW d \in Dues, DuePaid(dp, d)
      PROVE  AccountInv'
  BY <1>1, AccountCollects DEF DuePaid, Collects, Same
<1>2. ASSUME NEW h \in Handlers, NEW s \in {"pending", "paid", "failed"}, NEW fee \in ProviderFees,
             BankAccepts(h, s, fee)
      PROVE  AccountInv'
  <2>1. PICK p \in Payouts : p = call[h].p
    BY <1>2 DEF BankAccepts, TypeOK
  <2>2. /\ bank' = [bank EXCEPT ![p].state = s, ![p].first = s, ![p].fee = fee]
        /\ bank[p].state = "none" /\ UNCHANGED <<payout, ledger>>
        /\ account' = IF s = "failed" THEN account ELSE account - NetKobo(p) - fee
    BY <1>2, <2>1 DEF BankAccepts
  <2>3. /\ \A q \in Payouts \ {p} : bank'[q] = bank[q]
        /\ bank'[p].state = s /\ bank'[p].fee = fee
        /\ bank'[p].topup = bank[p].topup /\ bank'[p].sweptKobo = bank[p].sweptKobo
    BY <1>0, <2>2 DEF BankRecord
  <2>4. PICK n \in Int, m \in Int : n = NetKobo(p) /\ m = (IF bank[p].topup THEN 0 ELSE bank[p].sweptKobo)
    BY <1>0 DEF NetKobo, Row, BankRecord
  <2>5. NetKobo(p)' = n
    BY <2>2, <2>4 DEF NetKobo
  <2>6. fee \in Nat
    BY WithdrawalAssumption
  <2>7. Took(p) = m
    BY <2>2, <2>4 DEF Took
  <2>8. CASE s = "failed"
    <3>1. Took(p)' = m /\ account' = account
      BY <2>2, <2>3, <2>4, <2>8 DEF Took
    <3>2. Took(p)' = Took(p) - 0 /\ account' = account + 0 /\ 0 \in Int
      BY <1>0, <2>4, <2>7, <3>1
    <3> QED BY <2>2, <2>3, <3>2, AccountProvides
  <2>9. CASE s # "failed"
    <3>1. Took(p)' = m - (-(n + fee)) /\ account' = account + (-(n + fee)) /\ -(n + fee) \in Int
      BY <1>0, <2>2, <2>3, <2>4, <2>5, <2>6, <2>9 DEF Took
    <3> QED BY <2>2, <2>3, <2>7, <3>1, AccountProvides
  <2> QED BY <2>8, <2>9
<1>3. ASSUME NEW h \in Handlers, BankRefuses(h)
      PROVE  AccountInv'
  <2>1. PICK p \in Payouts : p = call[h].p
    BY <1>3 DEF BankRefuses, TypeOK
  <2>2. /\ bank' = [bank EXCEPT ![p].state = "refused", ![p].first = "refused"]
        /\ bank[p].state = "none" /\ UNCHANGED <<payout, ledger, account>>
    BY <1>3, <2>1 DEF BankRefuses
  <2>3. /\ \A q \in Payouts \ {p} : bank'[q] = bank[q]
        /\ bank'[p].state = "refused" /\ bank'[p].topup = bank[p].topup /\ bank'[p].sweptKobo = bank[p].sweptKobo
    BY <1>0, <2>2 DEF BankRecord
  <2>4. PICK m \in Int : m = (IF bank[p].topup THEN 0 ELSE bank[p].sweptKobo)
    BY <1>0 DEF BankRecord
  <2>5. Took(p) = m /\ Took(p)' = m /\ account' = account
    BY <2>2, <2>3, <2>4 DEF Took
  <2>6. Took(p)' = Took(p) - 0 /\ account' = account + 0 /\ 0 \in Int
    BY <1>0, <2>4, <2>5
  <2> QED BY <2>2, <2>3, <2>6, AccountProvides
<1>4. ASSUME NEW p \in Payouts, BankPays(p) \/ BankFails(p)
      PROVE  AccountInv'
  <2>1. PICK n \in Int, m \in Int, fee \in Int :
             n = NetKobo(p) /\ fee = bank[p].fee /\ m = (IF bank[p].topup THEN 0 ELSE bank[p].sweptKobo)
    BY <1>0 DEF NetKobo, Row, BankRecord
  <2>2. /\ UNCHANGED <<payout, ledger>> /\ bank[p].state \in {"pending", "paid"}
        /\ \A q \in Payouts \ {p} : bank'[q] = bank[q]
        /\ bank'[p].fee = bank[p].fee /\ bank'[p].topup = bank[p].topup /\ bank'[p].sweptKobo = bank[p].sweptKobo
    BY <1>0, <1>4 DEF BankPays, BankFails, BankRecord
  <2>3. Took(p) = n + fee + m /\ NetKobo(p)' = n
    BY <2>1, <2>2 DEF Took, NetKobo
  <2>4. CASE BankPays(p)
    <3>1. bank'[p].state = "paid" /\ account' = account + 0
      BY <1>0, <2>4 DEF BankPays, BankRecord
    <3>2. Took(p)' = (n + fee + m) - 0
      BY <2>1, <2>2, <2>3, <3>1 DEF Took
    <3> QED BY <2>2, <2>3, <3>1, <3>2, AccountProvides
  <2>5. CASE BankFails(p)
    <3>1. bank'[p].state = "failed" /\ account' = account + (n + fee)
      BY <1>0, <2>1, <2>5 DEF BankFails, BankRecord
    <3>2. Took(p)' = (n + fee + m) - (n + fee)
      BY <2>1, <2>2, <2>3, <3>1 DEF Took
    <3>3. n + fee \in Int
      BY <2>1
    <3> QED BY <2>2, <2>3, <3>1, <3>2, <3>3, AccountProvides
  <2> QED BY <1>4, <2>4, <2>5
<1>5. ASSUME NEW h \in Handlers, BankSweeps(h) \/ BankRefundsFee(h), bank' # bank
      PROVE  AccountInv'
  <2>1. PICK p \in Payouts, n \in Int : p = call[h].p /\ n = call[h].amount
    BY <1>5 DEF BankSweeps, BankRefundsFee, TypeOK, Call
  <2>2. FeeFits(p) /\ UNCHANGED <<payout, ledger>>
    BY <1>5 DEF FeeInv, BankSweeps, BankRefundsFee
  <2>3. PICK m \in Int : m = IF bank[p].state \in {"pending", "paid"} THEN NetKobo(p) + bank[p].fee ELSE 0
    BY <1>0 DEF NetKobo, Row, BankRecord
  <2>4. NetKobo(p)' = NetKobo(p)
    BY <2>2 DEF NetKobo
  <2>5. CASE BankSweeps(h)
    <3>1. bank' = [bank EXCEPT ![p].swept = TRUE, ![p].sweptKobo = n] /\ ~bank[p].swept /\ account' = account - n
      BY <1>5, <2>1, <2>5 DEF BankSweeps
    <3>2. /\ \A q \in Payouts \ {p} : bank'[q] = bank[q]
          /\ bank'[p].sweptKobo = n /\ bank'[p].state = bank[p].state /\ bank'[p].fee = bank[p].fee
          /\ bank'[p].topup = bank[p].topup
      BY <1>0, <3>1 DEF BankRecord
    <3>3. bank[p].sweptKobo = 0 /\ ~bank[p].topup
      BY <2>2, <3>1 DEF FeeFits
    <3>4. Took(p) = m /\ Took(p)' = m - (-n)
      BY <2>3, <2>4, <3>2, <3>3 DEF Took
    <3>5. -n \in Int /\ account' = account + (-n)
      BY <1>0, <3>1
    <3> QED BY <2>2, <3>2, <3>4, <3>5, AccountProvides
  <2>6. CASE BankRefundsFee(h)
    <3>1. bank' = [bank EXCEPT ![p].topup = TRUE] /\ ~bank[p].topup /\ account' = account + n
      BY <1>5, <2>1, <2>6 DEF BankRefundsFee
    <3>2. /\ \A q \in Payouts \ {p} : bank'[q] = bank[q]
          /\ bank'[p].topup /\ bank'[p].state = bank[p].state /\ bank'[p].fee = bank[p].fee
      BY <1>0, <3>1 DEF BankRecord
    <3>3. bank[p].sweptKobo = n
      BY <2>1, <2>6 DEF FeeInv, FeeCallFits, BankRefundsFee
    <3>4. Took(p) = m + n /\ Took(p)' = (m + n) - n
      BY <2>3, <2>4, <3>1, <3>2, <3>3 DEF Took
    <3> QED BY <2>2, <3>1, <3>2, <3>4, AccountProvides
  <2> QED BY <1>5, <2>5, <2>6
<1>6. ASSUME NEW h \in Handlers, BankSweeps(h) \/ BankRefundsFee(h), bank' = bank
      PROVE  account' = account
  <2>1. PICK p \in Payouts, n \in Int : p = call[h].p /\ n = call[h].amount
    BY <1>6 DEF BankSweeps, BankRefundsFee, TypeOK, Call
  <2>2. CASE BankSweeps(h)
    <3>1. ASSUME ~bank[p].swept PROVE FALSE
      <4>1. bank' = [bank EXCEPT ![p].swept = TRUE, ![p].sweptKobo = n]
        BY <2>1, <2>2, <3>1 DEF BankSweeps
      <4>2. bank'[p].swept
        BY <1>0, <4>1 DEF BankRecord
      <4> QED BY <1>6, <3>1, <4>2
    <3> QED BY <2>1, <2>2, <3>1 DEF BankSweeps
  <2>3. CASE BankRefundsFee(h)
    <3>1. ASSUME ~bank[p].topup PROVE FALSE
      <4>1. bank' = [bank EXCEPT ![p].topup = TRUE]
        BY <2>1, <2>3, <3>1 DEF BankRefundsFee
      <4>2. bank'[p].topup
        BY <1>0, <4>1 DEF BankRecord
      <4> QED BY <1>6, <3>1, <4>2
    <3> QED BY <2>1, <2>3, <3>1 DEF BankRefundsFee
  <2> QED BY <1>6, <2>2, <2>3
<1>7. CASE UNCHANGED <<bank, account>>
  BY <1>7, AccountServes
<1>8. ASSUME NEW h \in Handlers,
             \/ Continue(h) \/ Interrupt(h) \/ BankReplays(h) \/ BankReports(h) \/ BankRefusesSweep(h)
      PROVE  UNCHANGED <<bank, account>>
  BY <1>8 DEF Continue, DispatchPayout, RecordDispatch, CompletePayout, FailPayout, SettleWithdrawalFee,
              RecordSettlement, Interrupt, BankReplays, BankReports, BankRefusesSweep
<1>9. ASSUME NEW h \in Handlers, WorkerNext(h) \/ ReconcilerNext(h)
      PROVE  UNCHANGED <<bank, account>>
  BY <1>9 DEF WorkerNext, ReconcilerNext, RequestWithdrawal, ReleaseApproved, CancelPayout, ProcessEvent,
              RetryDispatch, RefreshPayout, RetrySettlement, ExpireStaleApproval
<1>10. CASE \E h \in Handlers : Continue(h) \/ BankAnswers(h) \/ Interrupt(h)
  BY <1>2, <1>3, <1>5, <1>6, <1>7, <1>8, <1>10 DEF BankAnswers
<1>11. CASE \E h \in Handlers : WorkerNext(h) \/ ReconcilerNext(h)
  BY <1>7, <1>9, <1>11
<1>12. CASE UNCHANGED vars
  BY <1>7, <1>12 DEF vars
<1> QED BY <1>1, <1>4, <1>10, <1>11, <1>12 DEF Next, Handlers

(* When all is quiet, what the provider took for a withdrawal is what the   *)
(* ledger reserved for it, and a fee it kept after a reversal.              *)
LEMMA QuietAccount ==
  ASSUME TypeOK, EverythingBacked, FeeInv, Quiet, NEW p \in Payouts
  PROVE  Took(p) = Reserved(p) + FeeKept(p)
<1>1. payout[p] \in Row /\ bank[p] \in BankRecord /\ StatusBacked(p) /\ FeeFits(p)
  BY DEF TypeOK, EverythingBacked, FeeInv
<1>2. payout[p].status \in {"none", "success", "failed", "reversed", "cancelled"}
  BY <1>1 DEF Quiet, Row, PayoutStatus, PAYOUT_ACTIVE
<1>3. CASE payout[p].status \in {"none", "failed", "cancelled"}
  <2>1. bank[p].state \notin {"pending", "paid"} /\ bank[p].sweptKobo = 0
    BY <1>1, <1>3 DEF StatusBacked, FeeFits, PaidOut
  <2> QED BY <1>3, <2>1 DEF Took, Reserved, FeeKept, Opened, RESTORED
<1>4. CASE payout[p].status = "success"
  <2>1. bank[p].state = "paid" /\ payout[p].feeSettledAt /\ ~bank[p].topup
    BY <1>1, <1>4 DEF Quiet, FeeFits
  <2>2. bank[p].sweptKobo = payout[p].feeKobo - bank[p].fee
    BY <1>1, <1>4, <2>1 DEF FeeFits, FeeShare, PaidOut
  <2>3. Took(p) = payout[p].amount
    BY <1>1, <2>1, <2>2 DEF Took, NetKobo, Row, BankRecord
  <2> QED BY <1>1, <1>4, <2>3 DEF Reserved, FeeKept, Opened, RESTORED, Row
<1>5. CASE payout[p].status = "reversed"
  <2>1. bank[p].state = "failed" /\ (bank[p].swept \/ bank[p].sweptKobo = 0)
    BY <1>1, <1>5 DEF StatusBacked, FeeFits
  <2> QED BY <1>1, <1>5, <2>1 DEF Took, Reserved, FeeKept, RESTORED, BankRecord
<1> QED BY <1>2, <1>3, <1>4, <1>5

(* Summed over all withdrawals, this is what AccountMatchesLedger asks.     *)
LEMMA AccountEnough ==
  ASSUME IsFiniteSet(Payouts), TypeOK, EverythingBacked, FeeInv, OwedInv, AccountInv
  PROVE  AccountMatchesLedger
<1> SUFFICES ASSUME Quiet PROVE account = ledger.balance - SumFunction([p \in Payouts |-> FeeKept(p)])
  BY DEF AccountMatchesLedger
<1> DEFINE f == [p \in Payouts |-> Reserved(p)]
           g == [p \in Payouts |-> FeeKept(p)]
           h == [p \in Payouts |-> Took(p)]
<1>1. \A p \in Payouts : f[p] \in Int /\ g[p] \in Int /\ h[p] = f[p] + g[p]
  <2> SUFFICES ASSUME NEW p \in Payouts PROVE Reserved(p) \in Int /\ FeeKept(p) \in Int /\ Took(p) = Reserved(p) + FeeKept(p)
    OBVIOUS
  <2>1. payout[p] \in Row /\ bank[p] \in BankRecord
    BY DEF TypeOK
  <2> QED BY <2>1, QuietAccount DEF Reserved, FeeKept, Row, BankRecord
<1>2. /\ SumFunction(f) = SumFunctionOnSet(f, Payouts) /\ SumFunction(g) = SumFunctionOnSet(g, Payouts)
      /\ SumFunction(h) = SumFunctionOnSet(h, Payouts)
  BY DEF SumFunction
<1>3. ledger.balance = Collected - SumFunction(f) /\ account = Collected - SumFunction(h)
  BY DEF OwedInv, AccountInv
<1> HIDE DEF f, g, h
<1>4. PICK a \in Int, b \in Int : SumFunction(f) = a /\ SumFunction(g) = b
  BY <1>1, <1>2, SumIsInt
<1>5. SumFunctionOnSet(h, Payouts) = SumFunctionOnSet(f, Payouts) + SumFunctionOnSet(g, Payouts)
  BY <1>1, SumOfSums
<1>6. SumFunction(h) = a + b
  BY <1>2, <1>4, <1>5
<1>7. PICK c \in Int : Collected = c
  <2>1. Cardinality(PaidIn) \in Nat /\ Collected = Face * Cardinality(PaidIn)
    BY FS_CardinalityType DEF OwedInv, Collected, PaidIn
  <2> QED BY <2>1, WithdrawalAssumption
<1>8. account = ledger.balance - b
  BY <1>3, <1>4, <1>6, <1>7
<1> QED BY <1>4, <1>8 DEF g

(* Nothing has been taken at the start.                                     *)
LEMMA AccountStart == ASSUME IsFiniteSet(Payouts), Init PROVE FeeInv /\ AccountInv
<1>1. FeeInv
  BY DEF Init, NoRow, NoRecord, Idle, FeeInv, FeeFits, FeeCallFits, PaidOut
<1>2. PaidIn = {}
  BY DEF Init, EmptyLedger, PaidIn
<1>3. Collected = 0
  <2>1. Collected = Face * Cardinality(PaidIn) /\ Cardinality(PaidIn) = 0
    BY <1>2, FS_EmptySet DEF Collected, PaidIn
  <2>2. Face * 0 = 0
    BY WithdrawalAssumption
  <2> QED BY <2>1, <2>2
<1> DEFINE f == [p \in Payouts |-> Took(p)]
<1>4. \A p \in Payouts : f[p] = 0
  BY DEF Init, NoRecord, Took
<1>5. SumFunction(f) = SumFunctionOnSet(f, Payouts)
  BY DEF SumFunction
<1> HIDE DEF f
<1>6. SumFunction(f) = 0
  BY <1>4, <1>5, SumOfZeros
<1> QED BY <1>1, <1>3, <1>6 DEF Init, AccountInv, f

(* AccountMatchesLedger: however withdrawals, sweeps, refunds, retries and  *)
(* reversals interleaved, once everything has settled the rep's provider    *)
(* balance is the space ledger less the fees kept from reversed ones        *)
(* (settleWithdrawalFee, failPayout).                                       *)
THEOREM AccountStaysMatched ==
  ASSUME IsFiniteSet(Payouts), ~GarbledReplies
  PROVE  Spec => []AccountMatchesLedger
<1> DEFINE Inv == OwedInv /\ FeeInv /\ AccountInv
<1>1. Inv /\ TypeOK /\ TypeOK' /\ LedgerMatchesStatus /\ EverythingBacked /\ [Next]_vars => Inv'
  BY OwedStep, FeeStep, AccountStep
<1>2. Init => Inv
  BY OwedStart, AccountStart
<1>3. Inv /\ TypeOK /\ EverythingBacked => AccountMatchesLedger
  BY AccountEnough
<1> QED BY <1>1, <1>2, <1>3, TypeCorrect, DebitsAndReversals, Backed, PTL DEF Spec
=============================================================================
