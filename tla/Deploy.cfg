SPECIFICATION Spec
CONSTANTS
    api = api
    web = web
    g1 = g1
    g2 = g2
    bad = bad
    Svcs = {api, web}
    Images = {g1, g2, bad}
    Good = {g1, g2}
    NoImage = NoImage
    OnFailure <- MCOnFailure
    Slots = {p1, p2}
    Commands <- MCCommands
    NoProc = NoProc
    Hosts <- MCHosts
    MaxCommands = 3
    MaxFaults = 1
INVARIANTS
    TypeOK
PROPERTIES
    ShippedIsNotReverted
    SuccessIsRunning
    StackSuccessIsRunning
    FailureIsNotRecorded
    BadImageIsRolledBack
    LockIsReleased
CHECK_DEADLOCK FALSE
