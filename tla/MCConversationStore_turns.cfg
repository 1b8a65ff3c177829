CONSTANTS
    Workspaces = {w1}
    Turns = {t1, t2}
    Studios = {s1}
    None = None
    MaxConvs = 2
    KeepLast = 1
    MaxCleanups = 1
    MaxFaults = 1
SPECIFICATION Spec
INVARIANTS
    TypeOK
    CounterTellsEmpty
    
PROPERTIES
    AnswersAreKept
CHECK_DEADLOCK FALSE
