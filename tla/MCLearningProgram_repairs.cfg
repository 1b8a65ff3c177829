SPECIFICATION Spec
CONSTANTS
    N = 2
    MaxRepairs = 2
    MaxDue = 1
    None = None
INVARIANTS
    TypeOK
    FocusIsOpen
    RepairsLeadToTheirLesson
    FlagIsBacked
PROPERTY
    LessonsAreGated
