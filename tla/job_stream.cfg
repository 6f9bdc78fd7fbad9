SPECIFICATION FairSpec
CONSTANTS
    Jobs = {j1}
    Readers = {w1, w2}
    Reclaimers = {r1}
    BatchSize = 2
    MaxRetries = 1
    MaxEntries = 3
    MaxFaults = 3
    None = None
INVARIANTS TypeOK NothingVanishes DeadAfterRetries
PROPERTY JobsSettle
CHECK_DEADLOCK FALSE
