CONSTANTS
    c1 = c1
    c2 = c2
    Nobody = Nobody
    Callers = {c1, c2}
    Texts <- MCTexts
    DefaultEDID <- MCDefault
    Logs <- MCLogs
    Timings <- MCTimings
    Qualities = {0, 10, 800, 2000}
    MaxInt = 32767
    BlockSize = 2
SPECIFICATION Spec
INVARIANTS
    TypeOK
    NeverRefused
    EncoderAccepts
    ReadsBack
    StatusIsNewest
