CONSTANTS
    t1 = t1
    t2 = t2
    Threads <- OneThread
    L2 <- MCL2
    MaxEvents = 1
    EventTypes = {"exec_approval"}
    ParentMayAbort = TRUE
    Null = Null
    CreatedCap = 2
SPECIFICATION FairSpec
PROPERTY AwaitedAnswerArrives
CHECK_DEADLOCK FALSE
