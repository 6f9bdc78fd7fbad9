SPECIFICATION Spec
CONSTANTS
    Callers = {p1, p2, p3}
    MaxCalls = 4
    MaxLosses = 2
    None = None
SYMMETRY Symmetry
INVARIANTS TypeOK WarmSeqsUnique NumberedInOrder
CHECK_DEADLOCK FALSE
