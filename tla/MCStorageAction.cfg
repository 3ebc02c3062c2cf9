SPECIFICATION Spec
CONSTANTS
    Slots = 2
    MaxChanges = 3
    MaxActions = 2
    None = None
CHECK_DEADLOCK FALSE
INVARIANTS
    OnlyConfirmedRemoved
    RemovedIsArchived
    NothingVanishes
PROPERTIES
    RestoreReplacesOnlyNewcomers
    ForeignArchivesKept
