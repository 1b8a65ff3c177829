CONSTANTS
    Paths = {a, b}
    Texts = {x, y}
    Absent = Absent
    Cut = Cut
    Calls = {c1, c2}
    MaxHistory = 2
    MaxCalls = 4
    MaxMishaps = 1
SPECIFICATION Spec
SYMMETRY Alike
VIEW Told
INVARIANTS
    TypeOK
    UndoRestores
    BackupsAreThere
PROPERTIES
    ChangesLoseNothing
CHECK_DEADLOCK FALSE
