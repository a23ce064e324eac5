SPECIFICATION Spec
CONSTANTS
    Requests = {r1, r2}
    IPs = {i1, i2}
    Captchas = {c1, c2, c3}
    None = None
    FailLimit = 2
    FailWindow = 1
    BlockDuration = 1
    CaptchaTTL = 2
    U64 = 100
    MaxTime = 3
SYMMETRY Symmetry
INVARIANTS CountedFailuresAreRecent LimitIsActedOn
CHECK_DEADLOCK FALSE
