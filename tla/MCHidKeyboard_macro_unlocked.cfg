CONSTANTS
    w1 = w1
    w2 = w2
    m1 = m1
    Keys = {4}
    Mods = {}
    BufSize = 1
    Workers = {w1}
    Macros = {m1}
    CanDetach = FALSE
    CanLose = FALSE
    MaxCallbacks = 1
SPECIFICATION Spec
INVARIANTS
    HostInSync
