SPECIFICATION Spec
CONSTANTS
    N = 2
    simQuantum = 2
    MaxTick = 4
    LocalEvents = {"a"}
    home <- MCHome
    user <- MCUser
    Exits = {"x"}
    Stats = {}
    OwnDelays = {1}
    AsyncDelays = {3}
    StatDelays = {}
    StatRepeat = 0
    AvoidTies = FALSE
INVARIANTS
    OneBarrierAtATime
