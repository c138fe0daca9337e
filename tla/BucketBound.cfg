SPECIFICATION BucketSpec
CONSTANTS
    c1 = c1  c2 = c2  b1 = b1  b2 = b2
    Callers = {c1, c2}
    Buckets = {b1, b2}
    NoBucket = NoBucket
    Rate = 2
    MaxAsk = 3
    MaxTime = 3
INVARIANTS
    NeverOverdrawn
    SleepPays
    ExcessIsBounded
SYMMETRY Alike
CHECK_DEADLOCK FALSE
