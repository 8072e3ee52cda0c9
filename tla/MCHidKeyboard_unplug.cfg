CONSTANTS
    w1 = w1
    w2 = w2
    m1 = m1
    Keys = {4, 5}
    Mods = {224}
    BufSize = 1
    Workers = {w1, w2}
    Macros = {}
    CanDetach = TRUE
    CanLose = TRUE
    MaxCallbacks = 1
SPECIFICATION Spec
INVARIANTS
    HostInSync
