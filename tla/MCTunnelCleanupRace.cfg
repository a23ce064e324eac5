SPECIFICATION Spec
CONSTANTS
    NoConn = NoConn
    NoClient = NoClient
    Conns = {c1, c2}
    Clients = {k1}
    Kicks = {q1}
    Window = 1
    MaxTime = 1
PROPERTIES CleanupSparesNewSession
CHECK_DEADLOCK FALSE
