SPECIFICATION FairSpec
CONSTANTS
    Sids = {s1}
    Chunks = 3
    WireCap = 2
    DataCap = 1
    TunnelMayEnd = TRUE
INVARIANTS TypeOK StreamsInOrder
PROPERTIES PublicEndReachesClient ClientForwardsEnd OpenDecided
CHECK_DEADLOCK FALSE
