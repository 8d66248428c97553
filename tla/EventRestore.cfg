SPECIFICATION RestoreSpec
CONSTANTS
    Events = {1, 2}
    NoEvent = NoEvent
    priority <- MCPriority
    Managed = {}
    ExitEvents = {}
    MaxTick = 1
INVARIANTS
    RescheduledAsSaved
CHECK_DEADLOCK FALSE
