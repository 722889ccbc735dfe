CONSTANTS
    d1 = d1
    d2 = d2
    Dues = {d1}
    NoDue = NoDue
    DueOrder <- MCOneDue
    Payouts = {p1}
    DuePayments = {dp1}
    Workers = {w1, w2}
    Reconcilers = {r1}
    NoPayout = NoPayout
    Amounts = {4}
    Fees = {0, 1}
    ProviderFees = {0, 2}
    Face = 6
    MaxInterrupts = 2
    GarbledReplies = FALSE
SPECIFICATION FairSpec
CHECK_DEADLOCK FALSE
INVARIANTS
    StatusAgreesWithBank
    EverythingBacked
    AccountMatchesLedger
PROPERTIES
    EverythingEnds
