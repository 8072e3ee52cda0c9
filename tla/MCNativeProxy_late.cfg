CONSTANTS
    c1 = c1
    c2 = c2
    MaxRestartAttempts = 3
    Callers = {c1}
    MaxCuts = 0
SPECIFICATION FairSpec
PROPERTY CrashRestarts
