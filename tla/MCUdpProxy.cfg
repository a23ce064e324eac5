SPECIFICATION Spec
CONSTANTS
    Peers = {a, b}
    NoPeer = NoPeer
    MaxSessions = 1
    MaxIds = 2
    MaxSocks = 2
SYMMETRY Symmetry
INVARIANTS AnswersGoToAsker MapMatchesTable OneAskerPerSocket
PROPERTY SentUnderOwnEntry
CHECK_DEADLOCK FALSE
