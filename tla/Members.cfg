SPECIFICATION MembersSpec
CONSTANTS
    Tokens = {t1, t2}
    Links = {l1}
    Passwords = {p1, p2}
    Handlers = {h1, h2}
    NoPassword = NoPassword
    NoToken = NoToken
    Google = Google
    Stale = Stale
    Clerks = {h1, h2}
    People = {s1, s2}
    Outsiders = {s2}
    Candidates = {s1}
    Lead = Lead
    Nobody = Nobody
    Faces = {1, 2}
    Passes = {w1, w2, w3}
SYMMETRY Symmetry
CHECK_DEADLOCK FALSE
INVARIANTS
    MembersTypeOK
    SessionsAreEarned
    DueIsHonest
    RemindedOnce
PROPERTIES
    ClosedIsFinal
