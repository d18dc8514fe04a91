CONSTANTS
    r1 = r1
    r2 = r2
    r3 = r3
    Callers = {r1, r2}
    Lifetimes = {3}
    Leeway = 2
    Faults = {"transient", "lostReply", "persistFails", "crash", "cli", "cliState", "login"}
    MaxTime = 4
    MaxGen = 3
    MaxGrants = 2
SPECIFICATION Spec
SYMMETRY
    AlikeCallers
INVARIANT
    NeverPresentsSpentToken
