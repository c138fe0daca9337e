SPECIFICATION Spec
CONSTANTS
    r1 = r1  r2 = r2  r3 = r3  h1 = h1  h2 = h2  alice = alice  bob = bob
    Rules = {r1, r2, r3}
    Nums = {1, 2, 3}
    Users = {alice, bob}
    RangeOf <- Ranges
    Taken <- Busy
    Handlers = {h1, h2}
    None = None
    MaxRequests = 3
    MaxOverlaps = 1
    MaxFails = 1
INVARIANTS
    UniqueNumbers
    OwnersExist
    NoStrayListener
    EveryRuleListens
    ServesItsRule
SYMMETRY Alike
CHECK_DEADLOCK FALSE
