SPECIFICATION LimiterSpec
CONSTANTS
    Procs = {p1, p2}
    p1 = p1
    p2 = p2
    Redis = Redis
    Backend = "redis"
    Limit = 2
    Seconds = 2
    Second = 2
    Skew <- Disagree
    MaxTime = 9
    MaxFaults = 2
INVARIANTS
    LimiterTypeOK
    
    RetryAfterSuffices
PROPERTIES
    RefusesOnlyWhenFull
