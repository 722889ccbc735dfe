CONSTANTS
    Users = {a, b, c}
    FirstLead = a
    FirstSeats = {b, c}
    FirstReps = {b, c}
    Payouts = {p1}
    Handlers = {h1}
    AdminRoles = {"lead", "co"}
    MaxChanges = 2
    MaxInterrupts = 1
SPECIFICATION FairSpec
CHECK_DEADLOCK FALSE
PROPERTIES
    EventuallyDecided
