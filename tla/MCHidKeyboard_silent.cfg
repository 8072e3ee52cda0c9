CONSTANTS
    w1 = w1
    w2 = w2
    m1 = m1
    Keys = {4, 5}
    Mods = {}
    BufSize = 2
    Workers = {w1}
    Macros = {m1}
    CanDetach = FALSE
    CanLose = TRUE
    MaxCallbacks = 1
SPECIFICATION FairSpec
INVARIANTS
    BufferWellFormed
    NoOrphanKey
PROPERTIES
    SilentReleases
