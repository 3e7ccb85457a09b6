SPECIFICATION Spec
CONSTANTS
    n1 = n1
    a1 = a1
    a2 = a2
    c1 = c1
    c2 = c2
    t1 = t1
    t2 = t2
    NoteIds = {n1}
    Keys = {a1, a2, d1}
    Owner <- MCOwner
    Dotted = {d1}
    NoKey = NoKey
    NoNote = NoNote
    Conns = {c1, c2}
    MaxFaults = 1
    Tabs = {t1, t2}
    NoConn = NoConn
INVARIANTS
    TypeOK
    OwnEffectShows
    OneTabIsExact
PROPERTIES
    BusyEnds
CONSTRAINT TwoFiles
CHECK_DEADLOCK FALSE
