SPECIFICATION Spec
CONSTANTS
    Jobs = {j1}
    Readers = {w1}
    Reclaimers = {r1}
    BatchSize = 2
    MaxRetries = 1
    MaxEntries = 3
    MaxFaults = 0
    None = None
INVARIANT OneCopy
CHECK_DEADLOCK FALSE
