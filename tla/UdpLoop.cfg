SPECIFICATION FairSpec
CONSTANTS
    k1 = k1  s1 = s1  s2 = s2
    Clients = {k1}
    Sessions = {s1, s2}
    None = None
    Quota = 2
    MaxUp = 2
    MaxDown = 2
INVARIANTS
    NoOrphanSocket
    RegisteredIsMapped
    UpIsBilled
    LossIsBounded
PROPERTIES
    KilledIsReaped
    ClosedListenerEmpties
CHECK_DEADLOCK FALSE
