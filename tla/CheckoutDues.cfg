CONSTANTS
    d1 = d1
    d2 = d2
    Dues = {d1, d2}
    NoDue = NoDue
    DueOrder <- MCDueOrder
    Students = {s1}
    Checkouts = {c1, c2}
    Handlers = {h1, h2}
    Charges = {g1}
    None = None
    Manual = Manual
    Total = 3
    Face = 1
    Received = {3}
    Hosted = FALSE
    MaxInterrupts = 0
SPECIFICATION Spec
SYMMETRY Symmetry
CHECK_DEADLOCK FALSE
INVARIANTS
    TypeOK
PROPERTIES
    
    ImplementsCollection
