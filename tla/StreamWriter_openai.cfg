CONSTANTS
    Interval = 4
    IdleAbort = 20
    UsesKeepalive = TRUE
SPECIFICATION FairSpec
INVARIANTS
    OneWriter
    NoWriteAfterReturn
    StickyError
    PingsBoundSilence
PROPERTIES
    HandlerReturns
