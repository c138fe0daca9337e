SPECIFICATION FairSpec
CONSTANTS
    c1 = c1  c2 = c2
    Conns = {c1, c2}
    Streams <- Clients
    WireGuardMin = 4
    SniffLimit = 5
    Limits = {1, 2}
    DefaultLimit = 2
    MaxEdits = 1
    MaxCrashes = 1
INVARIANTS
    SegmentsDoNotMatter
    EveryDecisionRecorded
    RingIsNewest
PROPERTY
    EveryConnectionDecided
CHECK_DEADLOCK FALSE
