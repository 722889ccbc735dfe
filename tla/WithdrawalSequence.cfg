CONSTANTS
    d1 = d1
    d2 = d2
    Dues = {d1, d2}
    NoDue = NoDue
    DueOrder <- MCDueOrder
    Payouts = {p1, p2}
    DuePayments = {dp1, dp2}
    Workers = {w1}
    Reconcilers = {r1}
    NoPayout = NoPayout
    Amounts = {2}
    Fees = {1}
    ProviderFees = {0, 4}
    Face = 3
    MaxInterrupts = 0
    GarbledReplies = FALSE
SPECIFICATION Spec
SYMMETRY Symmetry
CHECK_DEADLOCK FALSE
INVARIANTS
    TypeOK
    OneInFlight
    LedgerMatchesStatus
    SharesAreOwed
PROPERTIES
    ImplementsLifecycle
