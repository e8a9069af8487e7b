CONSTANTS
    ToolNames <- MCToolNames
    DiffChunks = 10
    ErrChunks = 10
    PipeCap = 4
    GitMayDieEarly = TRUE
SPECIFICATION ApplySpec
CHECK_DEADLOCK FALSE
PROPERTY ApplyDiffReturns
