CONSTANTS
    c1 = c1
    c2 = c2
    MaxRestartAttempts = 5
    Callers = {c1, c2}
    MaxCuts = 2
SPECIFICATION FairSpec
INVARIANTS
    OneChild
    CallsAreCurrent
PROPERTY Recovers
