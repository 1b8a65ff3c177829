SPECIFICATION Spec
CONSTANTS
    Passwords = {pw1, pw2}
    Overwrites = FALSE
    MaxFaults = 3
    None = None
SYMMETRY Alike
INVARIANTS
    TypeOK
    OpensAsTold
    
PROPERTY
    EncryptedLeavesNothingPlain
CHECK_DEADLOCK FALSE
