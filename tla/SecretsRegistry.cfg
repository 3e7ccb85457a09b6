SPECIFICATION Spec
CONSTANTS
    Accounts <- MCAccounts
    AtStart <- MCAtStart
    MaxValue = 5
    MaxFaults = 0
PROPERTIES
    RotationReachesRegistry
CHECK_DEADLOCK FALSE
