SPECIFICATION Spec
CONSTANTS
    Callers = {p1, p2}
    MaxSends = 2
    MaxEdits = 1
    MaxClock = 1
    None = None
    Deleted = Deleted
SYMMETRY Symmetry
INVARIANTS TypeOK StaleIsPending LatestIsShown
PROPERTIES NeverOlder DeletedForGood
CHECK_DEADLOCK FALSE
