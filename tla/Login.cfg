SPECIFICATION Spec
CONSTANTS
    Logins = {1, 2}
    MaxCallbacks = 4
CHECK_DEADLOCK FALSE
INVARIANTS
    TypeOK
    OwnCodeOnly
PROPERTY
    LoginEnds
