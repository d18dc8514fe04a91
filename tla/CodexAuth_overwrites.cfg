CONSTANTS
    r1 = r1
    r2 = r2
    r3 = r3
    Callers = {r1}
    Lifetimes = {4}
    Leeway = 2
    Faults = {"cliState", "login"}
    MaxTime = 4
    MaxGen = 2
    MaxGrants = 2
SPECIFICATION Spec
PROPERTY
    OthersKept
