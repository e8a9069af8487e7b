CONSTANTS
    MaxBytes = 4
    Widths = {1, 2, 3}
    MaxChars = 3
    Tasks <- MCTasks
    Contexts <- MCContexts
    Blank <- MCBlank
    None = None
    Cmds <- MCCmds
    MaxTests = 3
    dirA = dirA
    dirB = dirB
    Paths <- TwoPaths
    NoPayload = NoPayload
    FileIds = {1, 2, 3}
    NameKinds = {"plain"}
    Pads = {FALSE}
    MaxUntracked = 3
SPECIFICATION Spec
INVARIANT PromptMatchesSpec
INVARIANT LayerOrderIsSpecOrder
INVARIANT DiffMatchesSpec
