SPECIFICATION Spec
CONSTANTS
    Accounts <- MCAccounts
    AtStart <- MCAtStart
    MaxValue = 5
    MaxFaults = 1
INVARIANTS
    TypeOK
    CurrentVersionIsFile
PROPERTIES
    SuccessCanLogIn
CHECK_DEADLOCK FALSE
