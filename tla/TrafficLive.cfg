SPECIFICATION FairSpec
CONSTANTS
    u1 = u1  u2 = u2  g1 = g1  g2 = g2  c1 = c1  c2 = c2
    Users = {u1}
    Groups = {g1}
    Conns = {c1, c2}
    UserOf <- SoleOwner
    FirstGroup <- SoleGroup
    Quota <- QuotaOne
    None = None
    MaxUnits <- OneSilent
    MaxResets = 1
    MaxMoves = 0
PROPERTIES
    OverQuotaIsCut
    EveryUnitSettles
    ImplementsLedger
CHECK_DEADLOCK FALSE
