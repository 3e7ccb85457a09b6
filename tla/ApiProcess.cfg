SPECIFICATION Spec
CONSTANTS
    Requests = {q1, q2, q3}
    Environments <- MCEnvironments
INVARIANTS
    TypeOK
    CleanExitSentAll
    NoAddDuringWait
    NoExitInQuery
    OneReportIsEnough
PROPERTIES
    StopsByItself
    StartsComplete
CHECK_DEADLOCK FALSE
