SPECIFICATION Spec
CONSTANTS
    Senders = {s1, s2}
    Codes = {c1, c2}
    OtpTTL = 5
    AttemptsTTL = 15
    LockTTL = 15
    ResendTTL = 1
    MaxAttempts = 5
    MaxIssues = 3
    None = None
SYMMETRY Symmetry
INVARIANTS TypeOK GuessesBounded UsedOnce
PROPERTY SentCodeStands
