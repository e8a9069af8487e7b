CONSTANTS
    t1 = t1
    t2 = t2
    Threads <- TwoThreads
    L2 <- MCL2
    MaxEvents = 1
    EventTypes = {"exec_approval", "patch_approval"}
    ParentMayAbort = TRUE
    Null = Null
    CreatedCap = 2
SPECIFICATION Spec
INVARIANT TypeOK
INVARIANT InFlightRegistered
INVARIANT AnswerCorrelation
INVARIANT CreatedThreadDrained
PROPERTY ExchangeSpec
CHECK_DEADLOCK FALSE
