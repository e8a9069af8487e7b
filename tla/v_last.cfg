CONSTANTS
    t1 = t1
    t2 = t2
    Threads <- TwoThreads
    L2 <- MCL2
    MaxEvents = 1
    EventTypes = {"exec_approval"}
    ParentMayAbort = FALSE
    Null = Null
    CreatedCap = 2
SPECIFICATION Spec
INVARIANT ResultIsLast
CHECK_DEADLOCK FALSE
