CONSTANTS
    Events = {a, m, p}
    Malformed = {m}
    Ignored = {}
    Poison = {p}
    Workers = {w1, w2}
    NoRun = NoRun
    MAX_ATTEMPTS = 2
    BATCH = 2
    SlowWorkers = FALSE
    MaxCrashes = 1
    MaxThrows = 1
    MaxStoreErrors = 1
SPECIFICATION FairSpec
INVARIANTS
    TypeOK
    ExclusiveClaim
PROPERTIES
    EventsSettle
