SPECIFICATION Spec
CONSTANTS
    n1 = n1
    n2 = n2
    a1 = a1
    a2 = a2
    c1 = c1
    c2 = c2
    NoteIds = {n1, n2}
    Keys = {a1, a2}
    Owner <- MCOwner
    Dotted = {}
    NoKey = NoKey
    NoNote = NoNote
    Conns = {c1, c2}
    MaxFaults = 1
INVARIANTS
    TypeOK
    ReferenceIsOwn
    AttachmentStored
PROPERTIES
    DroppedIsOwed
    DeletedForGood
    ImplementsStore
    OwedIsDeleted
    CreatedIsAnnounced
CHECK_DEADLOCK FALSE
