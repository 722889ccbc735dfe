CONSTANTS
    Events = {a, i, p}
    Malformed = {}
    Ignored = {i}
    Poison = {p}
    Workers = {w1, w2}
    NoRun = NoRun
    MAX_ATTEMPTS = 2
    BATCH = 2
    SlowWorkers = TRUE
    MaxCrashes = 0
    MaxThrows = 1
    MaxStoreErrors = 1
SPECIFICATION Spec
SYMMETRY Symmetry
INVARIANTS
    EventsAreKept
