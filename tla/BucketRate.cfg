SPECIFICATION BucketSpec
CONSTANTS
    c1 = c1  c2 = c2  b1 = b1  b2 = b2
    Callers = {c1}
    Buckets = {b1}
    NoBucket = NoBucket
    Rate = 2
    MaxAsk = 2
    MaxTime = 4
INVARIANT
    RateKept
CHECK_DEADLOCK FALSE
