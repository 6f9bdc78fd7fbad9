SPECIFICATION Spec
CONSTANTS
    Callers = {p1, p2}
    Users = {alice, bob}
    Tokens = {t1, t2, t3}
    MaxLate = 1
    None = None
SYMMETRY Symmetry
INVARIANTS TypeOK CacheCoherent NoAbandonedLock
PROPERTY RegisterSpec
