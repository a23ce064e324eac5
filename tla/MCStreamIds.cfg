SPECIFICATION FairAllocSpec
CONSTANTS
    Callers = {t1, t2, t3}
    First = 2
    MaxStreams = 7
INVARIANT IdsDense
PROPERTIES ImplementsPool NextReturns
