SPECIFICATION RepsSpec
CONSTANTS
    Reps = {h1, h2}
    Files = {x1, x2, x3}
    NoFile = NoFile
    MaxRefusals = 3
    MaxOverlapAttempts = 0
    Admins = {h1, h2}
    NoAdmin = NoAdmin
    Voters = {v1, v2}
    Categories = {c1, c2}
    Desks = {x1, x2, x3}
    MaxQuantity = 2
    Tellers = {h1, h2}
    Groups = {g1, g2}
    Codes = {k1, k2}
    NoOne = NoOne
    Limits = {0, 1}
    Percents = {50, 100}
    Cashiers = {h1, h2}
    Banks = {x1, x2, x3}
    Leads = {a1, a2}
    Entries = {1, 2, 3}
    None = None
    MAX_BENEFICIARIES = 2
    Requests = {x1, x2, x3}
    Bodies = {b1, b2}
    Prices = {1, 24, 25, 75, 10001, 50025}
    MaxDues = 3
    Gross = {99999, 100000, 100001, 4999999, 5000000, 5000001}
    Discounts = {0, 1, 33, 50, 99, 100}
    Naira = {0, 1, 12}
    Digits = {0, 4, 5, 9}
    MaxDecimals = 4
SYMMETRY Symmetry
CHECK_DEADLOCK FALSE
INVARIANTS
    RepsTypeOK
    ApplicantIsVetted
    PollIsFair
    AccountsAreRight
    OneEffectPerKey
    ReplayIsOfSameRequest
    AmountsAddUp
PROPERTIES
    RedemptionsHold
    DecisionsHold
