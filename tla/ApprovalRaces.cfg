CONSTANTS
    Users = {a, b, c}
    FirstLead = a
    FirstSeats = {b, c}
    FirstReps = {b, c}
    Payouts = {p1}
    Handlers = {h1, h2}
    AdminRoles = {"lead", "co"}
    MaxChanges = 2
    MaxInterrupts = 1
SPECIFICATION Spec
CONSTRAINT SigningOrTeam
SYMMETRY Symmetry
CHECK_DEADLOCK FALSE
INVARIANTS
    TypeOK
    ReleasedByTwo
PROPERTIES
    DecisionsAreFinal
    CurrentSignatoriesCount
    LeadIsSound
    ChangesAreSafe
