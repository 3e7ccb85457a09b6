SPECIFICATION Spec
CONSTANTS
    Subnets = {s1, s2}
    KeyPairs = {k1, k2, k3}
    Versions = {v1, v2}
    None = None
    MaxFaults = 1
    MaxDrifts = 2
INVARIANTS
    TypeOK
    FinishedIsReady
    DryRunForetells
PROPERTIES
    RerunChangesNothing
