-------------------------- MODULE MC_AgentTreeHelpers --------------------------
(***************************************************************************)
(* The worker's pure helpers, the config layer order and the final diff,   *)
(* checked in one run.  A behaviour is about one of them (focus): its      *)
(* input ranges over its bounded set while the others keep a fixed one, so *)
(* the states are the sum of the four input spaces, not their product.    *)
(***************************************************************************)
EXTENDS AgentTreeTruncate, AgentTreePrompt, ConfigLayerSource, AgentTreeWorktree

CONSTANTS dirA, dirB

VARIABLE focus

TwoPaths == {dirA, dirB}

\* A task, an empty, a whitespace-only and a non-blank context.
MCTasks == {"fix the bug"}
MCContexts == {"", " \n", "see issue"}
MCBlank == {"", " \n"}
MCCmds == {"cargo test", "just fmt"}

Focus == {"truncate", "prompt", "layer", "worktree"}

helperVars == <<text, request, layer, wtVars, focus>>

\* The fixed inputs of the helpers not in focus.
IdleText == CHOOSE x \in Texts : TRUE
IdleRequest == CHOOSE r \in Requests : TRUE
IdleLayer == CHOOSE l \in Layers : TRUE
IdleWorktree ==
    /\ tree = CHOOSE t \in Worktrees : TRUE
    /\ wpc = "done" /\ paths = <<>> /\ combined = <<>> /\ result = "none"

Init ==
    /\ focus \in Focus
    /\ IF focus = "truncate" THEN TruncInit ELSE text = IdleText
    /\ IF focus = "prompt" THEN PromptInit ELSE request = IdleRequest
    /\ IF focus = "layer" THEN LayerInit ELSE layer = IdleLayer
    /\ IF focus = "worktree" THEN WorktreeInit ELSE IdleWorktree

\* A finished diff is followed by the diff of another worktree.
NextWorktree ==
    /\ wpc = "done"
    /\ tree' \in Worktrees
    /\ wpc' = "tracked" /\ paths' = <<>> /\ combined' = <<>> /\ result' = "none"

\* The worktree diff's steps, one disjunct each; the others stay put.
Others == <<text, request, layer, focus>>

Next ==
    \/ focus = "truncate" /\ NextText /\ UNCHANGED <<request, layer, wtVars, focus>>
    \/ focus = "prompt" /\ NextRequest /\ UNCHANGED <<text, layer, wtVars, focus>>
    \/ focus = "layer" /\ NextLayer /\ UNCHANGED <<text, request, wtVars, focus>>
    \/ DiffTracked /\ UNCHANGED Others
    \/ ListUntracked /\ UNCHANGED Others
    \/ DiffUntracked /\ UNCHANGED Others
    \/ DiffDone /\ UNCHANGED Others
    \/ focus = "worktree" /\ NextWorktree /\ UNCHANGED Others

Spec == Init /\ [][Next]_helperVars
=============================================================================
