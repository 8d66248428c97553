SPECIFICATION FairSpec
CONSTANTS
    Threads = {t1}
    Fds = {1, 2, 3}
    Listening <- Sockets
INVARIANTS
    
    ProcessedIsReady

    
    
