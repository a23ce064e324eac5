SPECIFICATION Spec
CONSTANTS
    Clients = {k1}
    Conns = {c1, c2}
    NoClient = NoClient
    NoConn = NoConn
    Torn = Torn
    Reads = {q1}
    HistoryPoints = 1
    MaxBytes = 2
    MaxCrashes = 1
INVARIANTS NothingCountedTwice QuietReadsAreComplete SavedTotalsSurvive
CHECK_DEADLOCK FALSE
