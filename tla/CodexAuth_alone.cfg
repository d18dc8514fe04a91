CONSTANTS
    r1 = r1
    r2 = r2
    r3 = r3
    Callers = {r1, r2, r3}
    Lifetimes = {0, 4}
    Leeway = 2
    Faults = {"transient", "lostReply", "persistFails", "restart", "crash", "revoked"}
    MaxTime = 6
    MaxGen = 3
    MaxGrants = 1
SPECIFICATION FairSpec
INVARIANTS
    OneRefreshAtATime
    NeverPresentsSpentToken
PROPERTIES
    RefusedOnlyIfGrantDead
    HandedOutFresh
    SuccessIsShared
    EveryCallReturns
