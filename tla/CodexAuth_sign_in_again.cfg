CONSTANTS
    r1 = r1
    r2 = r2
    r3 = r3
    Callers = {r1, r2}
    Lifetimes = {4}
    Leeway = 2
    Faults = {"revoked", "login"}
    MaxTime = 6
    MaxGen = 3
    MaxGrants = 2
SPECIFICATION Spec
PROPERTY
    RefusedOnlyIfGrantDead
