CONSTANTS
    s1 = s1
    s2 = s2
    None = None
    Sessions = {s1, s2}
    MaxGamepads = 1
    SleepMode = TRUE
    Kinds = {"kbd", "pad"}
    QueueCap = 1
    MaxMessages <- OneMessage
SPECIFICATION Spec
SYMMETRY Symmetry
INVARIANTS
    TypeOK
    BooksAgree
    IdleIsOff
    OnlyLateKeysHeld
CHECK_DEADLOCK FALSE
