SPECIFICATION Spec
CONSTANTS
    Requests = {r1, r2}
    Tokens = {t1, t2}
    Passwords = {p1, p2}
    Empty = Empty
    Torn = Torn
    SessionTTL = 1
    MaxTime = 2
    MaxCrashes = 1
SYMMETRY Symmetry
INVARIANTS SessionsFollowPassword 
CHECK_DEADLOCK FALSE
