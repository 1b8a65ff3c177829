SPECIFICATION FairSpec
CONSTANTS
    Requests = {r1, r2, r3}
    Keys = {k1}
    Prints = {body1, body2}
    KeyOf <- MCKeyOf
    PrintOf <- MCPrintOf
    r1 = r1
    r2 = r2
    r3 = r3
    r4 = r4
    k1 = k1
    k2 = k2
    body1 = body1
    body2 = body2
    Procs = {p1}
    Redis = Redis
    Backend = "redis"
    LockTTL = 2
    RecordTTL = 3
    MayOverrun = FALSE
    MaxFaults = 0
    MaxCrashes = 1
    None = None
INVARIANTS
    NoRunOverRecord
PROPERTIES
    KeepsPromise
    LocksEnd
