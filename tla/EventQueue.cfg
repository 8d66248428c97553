SPECIFICATION Spec
CONSTANTS
    Events = {1, 2, 3, 4}
    NoEvent = NoEvent
    priority <- MCPriority
    Managed = {3}
    ExitEvents = {4}
    MaxTick = 1
INVARIANTS
    TypeOK
    FlagsMatchList
    NoDanglingEvent
PROPERTIES
    ImplementsQueue
CHECK_DEADLOCK FALSE
