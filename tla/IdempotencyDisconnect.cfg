SPECIFICATION IdempotencySpec
CONSTANTS
    Requests = {r1, r2}
    Bodies = {b1, b2}
INVARIANTS
    NeverTwiceAtOnce
CHECK_DEADLOCK FALSE
