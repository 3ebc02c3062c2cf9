SPECIFICATION PollingSpec
CONSTANTS
    Nodes = {n1, n2}
    Clusters = {k1, k2}
    Sessions = {s1}
    Refresh = 2
    SlurmRefresh <- UnevenIntervals
    RetryInitial = 2
    RetryMaximum = 3
    HistoryInterval = 1
    FailureCap = 2
INVARIANTS
    LatestOutcomePublished
    IdleRetryHonoured
PROPERTIES
    EveryNodePolled
    
