SPECIFICATION FairBeatSpec
CONSTANTS
    HbMin = 5
    HbMax = 7
    MissMax = 3
    Slack = 2
    CheckEvery = 2
    Delay = 2
    MaxInFlight = 4
INVARIANTS HealthyTunnelLives SilenceIsBounded
PROPERTY GoneClientIsDropped
CHECK_DEADLOCK FALSE
