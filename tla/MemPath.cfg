SPECIFICATION FairSpec
CONSTANTS
    Masters = {"cpu", "io"}
    Requests = {1, 2, 3, 4, 5, 6, 7}
    Workloads = {{1, 2, 3, 4}, {4, 5, 6, 7}, {1, 3, 4}}
    Checkpointed = {{1, 3, 4}}
    Owner <- MCOwner
    Posted = {3}
    Line <- MCLine
    Dest <- MCDest
    ReqQueueLimit = 1
    RespQueueLimit = 1
    NoMaster = NoMaster
    MaxAhead = 1
INVARIANTS TypeOK NoAssertFails PromiseKept SlotsReserved RetryOwed BoundedOvertaking 
PROPERTIES Implements Settles
