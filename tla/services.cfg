SPECIFICATION Spec
CONSTANTS
    Callers = {p1, p2}
    Names = {n1, n2, n3}
    Pair = {d1, d2}
    MaxDevices = 1
    MaxMessages = 2
    None = None
INVARIANTS
    TypeOK
    
    
    LogoutIsFinal
    ContactsAreMutual
    DMStaysPrivate
    OneDMPerPair
    
PROPERTY
    ReceiptsInOrder
SYMMETRY Symmetry
CHECK_DEADLOCK FALSE
