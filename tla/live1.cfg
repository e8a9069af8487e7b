CONSTANTS
    t1 = t1
    t2 = t2
    Threads <- OneThread
    L2 <- MCL2
    MaxEvents = 2
    EventTypes = {"user_input", "exec_approval", "patch_approval", "exec_end", "other"}
    ParentMayAbort = FALSE
    Null = Null
    CreatedCap = 2
SPECIFICATION FairSpec
PROPERTY AwaitedAnswerArrives
PROPERTY DelegateReturns
PROPERTY ExchangeFairSpec
CHECK_DEADLOCK FALSE
