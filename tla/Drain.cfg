SPECIFICATION FairSpec
CONSTANTS
    Objects = {1, 2, 3, 4}
    Late = {4}
    Sources = {1, 2}
    sendsTo <- MCSendsTo
    MaxWork = 2
INVARIANTS
    CountMatches
    DrainedIsQuiet
    DrainCycle
PROPERTIES
    DrainEnds
