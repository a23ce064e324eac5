SPECIFICATION FairSpec
CONSTANTS
    NoConn = NoConn
    NoClient = NoClient
    Conns = {c1, c2}
    Clients = {k1}
    Kicks = {q1}
    Window = 1
    MaxTime = 2
INVARIANTS ServedUnlessKicked MergedNotOnline
PROPERTIES KickHoldsForLaterConnections ImplementsTable LostTunnelIsCleanedUp KickEndsTheTunnel KickAnswered
CHECK_DEADLOCK FALSE
