SPECIFICATION RolloutSpec
CONSTANTS
    Contents = {1, 2}
    OnDisk = 1
    MaxInstalls = 1
    MaxFaults = 2
    Absent = Absent
    Stopped = Stopped
    Updates = {u1, u2}
    Targets = {"r1", "n1", "r2", "n2", "n3"}
    Relays = {"r1", "r2"}
    Hub = "hub"
    Parent <- DeepTree
    Declared = {"r1", "r2", "n2", "n3"}
    Parallel = 2
    MaxRuns = 2
    MaxFailures = 2
    MaxMoves = 2
CHECK_DEADLOCK FALSE
INVARIANTS
    
    InstalledIsRunning
    
PROPERTY UpdateReplacesCompared
