SPECIFICATION Spec
CONSTANTS
    r1 = r1
    r2 = r2
    old = old
    Attempts = {r1, r2, old}
    N = 3
    Embedded <- MCEmbedded
    Nobody = Nobody
    MaxFaults = 2
INVARIANTS
    TypeOK
    OneTransaction
    InOrder
    FailsOnlyOnFault
    DoneIsComplete
PROPERTIES
    EveryAttemptEnds
    ImplementsLog
CHECK_DEADLOCK FALSE
