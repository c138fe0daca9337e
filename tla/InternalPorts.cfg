SPECIFICATION Spec
CONSTANTS
    h1 = h1  h2 = h2  d1 = d1
    None = None
    Handlers = {h1, h2}
    Dials = {d1}
    Pool = {20000, 20001}
    MaxRules = 3
    MaxRequests = 4
    MaxOverlaps = 1
    MaxCrowded = 3
INVARIANTS
    OneRulePerPort
    
    NothingLeaks
SYMMETRY Alike
CHECK_DEADLOCK FALSE
