CONSTANTS
    MaxBytes = 4
    Widths = {1, 2, 3}
    MaxChars = 3
    Tasks <- MCTasks
    Contexts <- MCContexts
    Blank <- MCBlank
    None = None
    Cmds <- MCCmds
    MaxTests = 3
    dirA = dirA
    dirB = dirB
    Paths <- TwoPaths
    NoPayload = NoPayload
    FileIds = {1, 2}
    NameKinds = {"plain", "special"}
    Pads = {FALSE}
    MaxUntracked = 2
SPECIFICATION Spec
INVARIANT DiffMatchesSpec
