----------------------------- MODULE AgentTreeVars -----------------------------
(***************************************************************************)
(* The state shared by the worker process (AgentTreeWorker) and the        *)
(* parent's delegate handler (AgentTreeDelegate): the two pipes between    *)
(* them, and each side's private state, which the other side's steps leave *)
(* unchanged.                                                              *)
(***************************************************************************)
EXTENDS AgentTreeIpc

VARIABLES
    toWorker,     \* lines written to the worker's stdin, not yet read
    toParent,     \* lines written to the worker's stdout, not yet read
    parentGone,   \* the parent has dropped its ends of both pipes
    workerExited, \* the worker process has ended
    mainPc,       \* where run() is
    disp,         \* the stdin task
    sup,          \* the drain supervisor task
    drains,       \* one record per spawned per-thread drain
    pending,      \* pending_*: kind -> request keys holding a oneshot sender
    slot,         \* key -> value sent on its oneshot, not yet received
    cancelled,    \* event_loop_cancel
    commands,     \* the shared command log
    status, events, emitted, waiting, submitted, createdRx, \* agent threads
    ppc,          \* where delegate::handle is
    cur,          \* the Need* it is answering
    outcome       \* what the tool call returned

pipeVars   == <<toWorker, toParent>>
taskVars   == <<mainPc, disp, sup, drains, pending, slot, cancelled, commands>>
agentVars  == <<status, events, emitted, waiting, submitted, createdRx>>
workerOwn  == <<workerExited, taskVars, agentVars>>
workerVars == <<pipeVars, workerOwn>>
parentVars == <<ppc, cur, outcome, parentGone>>
vars       == <<pipeVars, workerOwn, parentVars>>
=============================================================================
