CONSTANTS
    t1 = t1
    t2 = t2
    Threads <- PeerThreads
    L2 <- MCL2
    MaxEvents = 1
    MaxPeerLines = 2
    EventTypes = {"exec_approval", "user_input"}
    Null = Null
    CreatedCap = 1
SPECIFICATION PeerSpec
CONSTRAINT SubThreadSilent
INVARIANT RegisteredHasWaiter
CHECK_DEADLOCK FALSE
