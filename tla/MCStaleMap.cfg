SPECIFICATION Spec
CONSTANTS
    Dirs = {"root", "sub"}
    Root = "root"
    CacheLimit = 1
    GroupCounts = {1, 2}
    MaxScans = 2
CHECK_DEADLOCK FALSE
INVARIANT NoDeletedItemCached
