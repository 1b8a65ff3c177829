SPECIFICATION Spec
CONSTANTS
    Procs = {p1, p2}
    Redis = Redis
    Backend = "redis"
    Callbacks = {c1, c2, c3}
    Codes = {k1, k2}
    PendingTTL = 3
    ResultTTL = 2
    MaxAge = 5
    MaxFaults = 1
    None = None
SYMMETRY Alike
INVARIANTS
    TypeOK
    HandledOnce
    CompletedReaches
    TokenIsTaken
CHECK_DEADLOCK FALSE
