SPECIFICATION Spec
CONSTANTS
    s1 = s1  s2 = s2  s3 = s3  i1 = i1  i2 = i2  i3 = i3  i4 = i4
    Savers = {s1, s2, s3}
    Inodes = {i1, i2, i3, i4}
    None = None
    Torn = Torn
    MaxChanges = 4
    MaxCrashes = 1
INVARIANTS
    CrashSafeAlone
    CompleteAtRest
SYMMETRY Alike
CHECK_DEADLOCK FALSE
