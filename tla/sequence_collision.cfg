SPECIFICATION Spec
CONSTANTS
    Callers = {p1, p2}
    MaxCalls = 4
    MaxLosses = 0
    None = None
SYMMETRY Symmetry
INVARIANT UniqueSeqs
CHECK_DEADLOCK FALSE
