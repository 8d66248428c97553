SPECIFICATION FairSpec
CONSTANTS
    N = 2
    simQuantum = 2
    MaxTick = 4
    LocalEvents = {"a", "c"}
    home <- MCHome
    user <- MCUser
    Exits = {"x"}
    Stats = {}
    OwnDelays = {1}
    AsyncDelays = {2}
    StatDelays = {}
    StatRepeat = 0
    AvoidTies = TRUE
INVARIANTS
    NothingInThePast
    WithinQuantum
PROPERTIES
    SimulateReturns
    
