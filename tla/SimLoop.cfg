SPECIFICATION Spec
CONSTANTS
    N = 3
    simQuantum = 2
    MaxTick = 5
    LocalEvents = {"a", "c"}
    home <- MCHome
    user <- MCUser
    Exits = {}
    Stats = {s, r}
    OwnDelays = {}
    AsyncDelays = {3}
    StatDelays = {1}
    StatRepeat = 1
    AvoidTies = TRUE
SYMMETRY StatSymmetry
INVARIANTS
    TypeOK
    OneBarrierAtATime
    StoppedTogether
    FlagsTruthful
    
