CONSTANTS
    d1 = d1
    d2 = d2
    Dues = {d1}
    NoDue = NoDue
    DueOrder <- MCOneDue
    Payouts = {p1}
    DuePayments = {dp1}
    Workers = {w1}
    Reconcilers = {r1}
    NoPayout = NoPayout
    Amounts = {4}
    Fees = {1}
    ProviderFees = {0}
    Face = 5
    MaxInterrupts = 0
    GarbledReplies = FALSE
SPECIFICATION Spec
CHECK_DEADLOCK FALSE
INVARIANTS
    AccountEqualsLedger
