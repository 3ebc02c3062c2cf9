SPECIFICATION GoroutinesSpec
CONSTANTS
    Calls = {c1, c2}
    Conns = {k1, k2}
    NameCount = 3
    Kinds <- SomeKinds
    Workers = {w1, w2}
    MaxChanges = 1
    None = None
CHECK_DEADLOCK FALSE
INVARIANTS
    PoolClean
    DeadlineClosesOwnConnection
    RetryOnlyWithoutAnswer
    
PROPERTIES
    ImplementsExclusiveLink
    CallsReturn
    PipelineEnds
