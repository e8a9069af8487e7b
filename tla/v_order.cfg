CONSTANTS
    t1 = t1
    t2 = t2
    Threads <- OneThread
    L2 <- MCL2
    MaxEvents = 2
    EventTypes = {"exec_end"}
    ParentMayAbort = FALSE
    Null = Null
    CreatedCap = 2
SPECIFICATION Spec
INVARIANT CommandsInThreadOrder
CHECK_DEADLOCK FALSE
