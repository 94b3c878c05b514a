SPECIFICATION FairSpec
CONSTANTS
    d1 = d1
    d2 = d2
    v1 = v1
    v2 = v2
    Event = {d1, d2}
    VersionOf <- MCVersionOf
    Bases <- MCBases
    Device = {m1}
    Worker = {w1}
    PageSize = 2
    BatchSize = 2
    CursorCap = 3
    None = None
INVARIANTS
    
    OnlyOvertakenEventsAreMissed
PROPERTY
    EveryEventIsPublished
CHECK_DEADLOCK FALSE
