SPECIFICATION Spec
CONSTANTS
    Devices = {d1, d2}
    Items = {i1, i2}
    MaxSnapshots = 4
    Quota = 4
    Grain = 1
    LocalAhead <- InUTC
    MaxEdits = 2
    MaxBackups = 1
    MaxFaults = 1
SYMMETRY Alike
INVARIANTS
    TypeOK
    
    
    
