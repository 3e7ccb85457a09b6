SPECIFICATION Spec
CONSTANTS
    Accounts <- MCAccounts
    AtStart <- MCAtStart
    MaxValue = 5
    MaxFaults = 1
PROPERTIES
    WindowCloses
CHECK_DEADLOCK FALSE
