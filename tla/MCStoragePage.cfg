SPECIFICATION PageSpec
CONSTANTS
    Paths = {p1, p2, p3}
    Scripts = {s1, s2}
    MaxForeign = 1
    Dirs = {"root", "sub"}
    Root = "root"
    CacheLimit = 1
    GroupCounts = {1}
    MaxScans = 2
    Trees <- SomeTrees
    RootSize = 1
    Workers = {w1, w2}
    None = None
    Failed = Failed
CHECK_DEADLOCK FALSE
INVARIANTS
    MapOfThisDirectory
    NewestScanHeard
    ScanIsDiskUsage
    LastCopyKept
    EveryPathReads
PROPERTIES
    DestroysOnlyVerified
