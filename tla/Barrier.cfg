SPECIFICATION FairSpec
CONSTANTS
    Threads = {t1, t2, t3, t4}
    GenMod = 2
INVARIANTS
    GenerationInv
    OneWinner
PROPERTIES
    ImplementsBarrier
    EveryWaiterReturns
