SPECIFICATION NodeSpec
CONSTANTS
    Clients = {c1, c2}
    PIDs = {1, 2, 3, 4}
    MaxConnections = 1
    MaxRequests = 2
    MaxStarts = 3
    Readers = {r1, r2, r3}
    TTL = 3
    MaxCollect = 1
    Procs = {serve}
    Retention = 2
    PrunePeriod = 2
    MaxMinute = 6
    MaxProcessStarts = 3
    MaxBacks = 1
    MaxFaults = 2
SYMMETRY Symmetry
CHECK_DEADLOCK FALSE
INVARIANTS
    SlotsBalanced
    
    NoZeroRates
    SamplesKept
    FileBounded
PROPERTY OnlyConfirmedSignalled
