SPECIFICATION Spec
CONSTANTS
    u1 = u1  u2 = u2  g1 = g1  g2 = g2  c1 = c1  c2 = c2
    Users = {u1, u2}
    Groups = {g1, g2}
    Conns = {c1, c2}
    UserOf <- TwoOwners
    FirstGroup <- SoleGroup
    Quota <- QuotaInG1
    None = None
    MaxUnits <- OneEach
    MaxResets = 1
    MaxMoves = 1
INVARIANTS
    Conservation
    NothingLeftBehind
    UserTotalIsExact
    GroupCoversUsers
CHECK_DEADLOCK FALSE
