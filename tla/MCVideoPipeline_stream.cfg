CONSTANTS
    t1 = t1
    t2 = t2
    small = small
    large = large
    NoThread = NoThread
    NoSource = NoSource
    Threads = {t1, t2}
    Sizes = {small, large}
    Rates = {60}
    BufferCount = 2
    MaxFaults = 1
    Sockets = {1, 2}
    MaxConnections = 2
SPECIFICATION DaemonFairSpec
INVARIANTS
    NoStrayThread
    FormatIsCurrent
PROPERTIES
    CallsReturn
    StreamDelivers
    ImplementsCapture
CHECK_DEADLOCK FALSE
CONSTRAINTS
    OverlapEnds
    DaemonSource
