SPECIFICATION Spec
CONSTANTS
    Pair = {d1, d2}
    Items = {1, 2, 3}
    MaxTime = 2
    MaxLimit = 2
    MaxSeq = 3
    MaxFaults = 2
    None = None
INVARIANTS
    
    ViewingTracks
    PresenceTracks
    AnnouncedIsTrue
    SeedSynced
PROPERTY
    SeedRecovers
CHECK_DEADLOCK FALSE
