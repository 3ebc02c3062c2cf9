SPECIFICATION SessionSpec
CONSTANTS
    Nodes = {n1}
    Pids = {p1}
    None = None
    MaxAuthFailures = 1
    MaxRefresh = 2
    MaxRequests = 1
    PIDs <- ThreePIDs
    Tables <- SomeTables
    Queries <- SomeQueries
    Rows = 2
    NumClusters = 2
    Partitions <- GPUPartition
    Answers <- SomeAnswers
    Dashboards <- SomeDashboards
    GPUTypes = {"a", "b"}
    Untyped = "any"
    PageStep = 2
    Configs <- SomeConfigs
    Terminals <- SomeTerminals
INVARIANTS
    HubRefreshAlive
    DetailRefreshAlive
    
    FitIsReal
    OverviewIsWhole
PROPERTIES
    
    ExplanationFollowsJob
    SelectionFollowsProcess
