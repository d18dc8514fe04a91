CONSTANTS
    Interval = 4
    IdleAbort = 20
    UsesKeepalive = FALSE
SPECIFICATION Spec
INVARIANT
    NoIdleAbort
