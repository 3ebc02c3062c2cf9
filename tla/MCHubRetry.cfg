SPECIFICATION PollingSpec
CONSTANTS
    Nodes = {n1, n2}
    Clusters = {}
    Sessions = {s1}
    Refresh = 2
    SlurmRefresh <- UnevenIntervals
    RetryInitial = 1
    RetryMaximum = 3
    HistoryInterval = 2
    FailureCap = 3
INVARIANT EveryRetryHonoured
