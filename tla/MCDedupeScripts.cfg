SPECIFICATION Spec
CONSTANTS
    Paths = {p1, p2}
    Scripts = {s1, s2, s3}
    MaxForeign = 0
    None = None
CHECK_DEADLOCK FALSE
INVARIANTS
    CopyKeptByAny
