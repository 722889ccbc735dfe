CONSTANTS
    d1 = d1
    d2 = d2
    Dues = {d1}
    NoDue = NoDue
    DueOrder <- MCOneDue
    Students = {s1}
    Checkouts = {c1}
    Handlers = {h1, h2}
    Charges = {g1, g2}
    None = None
    Manual = Manual
    Total = 3
    Face = 1
    Received = {1, 4}
    Hosted = FALSE
    MaxInterrupts = 1
SPECIFICATION FairSpec
CHECK_DEADLOCK FALSE
INVARIANTS
    PaymentsAddUp
    MoneyIsNoticed
PROPERTIES
    CheckoutsEnd
