SPECIFICATION Spec
CONSTANTS
    Sids = {s1, s2}
    Chunks = 2
    WireCap = 1
    DataCap = 1
    TunnelMayEnd = FALSE
SYMMETRY Symmetry
INVARIANTS StreamsInOrder ReturnedHandlerLeavesNothing
CHECK_DEADLOCK FALSE
