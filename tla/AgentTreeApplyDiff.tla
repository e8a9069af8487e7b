---------------------------- MODULE AgentTreeApplyDiff ----------------------------
(***************************************************************************)
(* The parent's agent_tree tools in codex-rs/core/src/tools/handlers/      *)
(* agent_tree.rs: AgentTreeHandler::handle, which routes a call by tool    *)
(* name, and apply_diff::handle, which pipes the diff into                 *)
(* `git apply --whitespace=nowarn -` and waits for it.                     *)
(*                                                                         *)
(* The handler and the git child are two processes joined by two pipes    *)
(* of PipeCap chunks each: git's stdin, which carries the DiffChunks       *)
(* chunks of the diff, and git's stderr.  (git apply writes nothing on     *)
(* stdout unless asked for a summary, so that pipe stays empty.)  The      *)
(* agent_tree_delegate route ends here: AgentTreeDelegate models it.       *)
(***************************************************************************)
EXTENDS Naturals

CONSTANTS
    ToolNames,       \* tool names a call may carry, both agent_tree tools among them
    DiffChunks,      \* pipe-sized chunks in the diff
    ErrChunks,       \* chunks of stderr git writes when the patch does not apply
    PipeCap,         \* chunks a pipe buffers before its writer blocks
    GitMayDieEarly   \* git may fail in its setup, before it reads stdin

ASSUME /\ {"agent_tree_delegate", "agent_tree_apply_diff"} \subseteq ToolNames
       /\ {DiffChunks, ErrChunks, PipeCap} \subseteq Nat \ {0}
       /\ GitMayDieEarly \in BOOLEAN

VARIABLES
    hpc,          \* where the handler is
    outcome,      \* what handle returned
    written,      \* diff chunks write_all has put into git's stdin
    stdinClosed,  \* the write end of git's stdin is closed (dropped)
    errRead,      \* stderr chunks the handler has read
    gpc,          \* where git is
    gitRead,      \* diff chunks git has read
    errOut,       \* stderr chunks git has written
    gitOk         \* git's exit status is success

vars == <<hpc, outcome, written, stdinClosed, errRead,
          gpc, gitRead, errOut, gitOk>>

\* The FunctionCallError variant, or Ok, of each outcome.
Outcomes == {"none", "applied", "delegated", "unsupported_payload",
             "bad_args", "unsupported_tool", "spawn_failed",
             "write_failed", "git_failed"}
Fatal == {"write_failed"}

TypeOK ==
    /\ hpc \in {"dispatch", "spawn", "write", "shutdown", "wait", "done"}
    /\ outcome \in Outcomes
    /\ written \in 0..DiffChunks /\ gitRead \in 0..written
    /\ errOut \in 0..ErrChunks /\ errRead \in 0..errOut
    /\ written - gitRead <= PipeCap /\ errOut - errRead <= PipeCap
    /\ stdinClosed \in BOOLEAN /\ gitOk \in BOOLEAN
    /\ gpc \in {"none", "setup", "read", "report", "exited"}

ApplyInit ==
    /\ hpc = "dispatch" /\ outcome = "none"
    /\ written = 0 /\ stdinClosed = FALSE /\ errRead = 0
    /\ gpc = "none" /\ gitRead = 0 /\ errOut = 0 /\ gitOk = FALSE

Return(o) == hpc' = "done" /\ outcome' = o

gitVars == <<gpc, gitRead, errOut, gitOk>>

-----------------------------------------------------------------------------
(* The handler.                                                            *)

\* AgentTreeHandler::handle: a non-Function payload is refused; the tool
\* name picks the handler, whose arguments parse_arguments may reject.
Dispatch ==
    /\ hpc = "dispatch"
    /\ \E isFunction, parses \in BOOLEAN, tool \in ToolNames :
          CASE ~isFunction -> Return("unsupported_payload")
            [] tool \notin {"agent_tree_delegate", "agent_tree_apply_diff"}
                 -> Return("unsupported_tool")
            [] ~parses -> Return("bad_args")
            [] tool = "agent_tree_delegate" -> Return("delegated")
            [] OTHER -> hpc' = "spawn" /\ UNCHANGED outcome
    /\ UNCHANGED <<written, stdinClosed, errRead, gitVars>>

\* Command::new("git")...spawn(); a spawn failure is a RespondToModel.
\* child.stdin.take() cannot be None: stdin was piped.
Spawn ==
    /\ hpc = "spawn"
    /\ \/ Return("spawn_failed") /\ UNCHANGED gpc
       \/ hpc' = "write" /\ gpc' = "setup" /\ UNCHANGED outcome
    /\ UNCHANGED <<written, stdinClosed, errRead, gitRead, errOut, gitOk>>

\* One chunk of write_all: it blocks while the pipe is full, and fails with
\* EPIPE once git has exited, which the handler returns as Fatal (dropping
\* the child's stdin with it).
WriteChunk ==
    /\ hpc = "write"
    /\ written < DiffChunks
    /\ \/ /\ gpc = "exited"
          /\ Return("write_failed")
          /\ stdinClosed' = TRUE
          /\ UNCHANGED written
       \/ /\ gpc # "exited"
          /\ written - gitRead < PipeCap
          /\ written' = written + 1
          /\ IF written' = DiffChunks THEN hpc' = "shutdown" ELSE UNCHANGED hpc
          /\ UNCHANGED <<outcome, stdinClosed>>
    /\ UNCHANGED <<errRead, gitVars>>

\* stdin.shutdown(): tokio's ChildStdin on Unix implements poll_shutdown
\* as Ready(Ok(())) without closing the descriptor, and the `stdin` taken
\* out of the child stays alive until handle returns; wait_with_output
\* only drops child.stdin, already None.  The pipe stays open.
Shutdown ==
    /\ hpc = "shutdown"
    /\ hpc' = "wait"
    /\ UNCHANGED <<outcome, written, stdinClosed, errRead, gitVars>>

\* wait_with_output reads stdout and stderr to EOF while it waits.
ReadErr ==
    /\ hpc = "wait"
    /\ errRead < errOut
    /\ errRead' = errRead + 1
    /\ UNCHANGED <<hpc, outcome, written, stdinClosed, gitVars>>

\* Both pipes at EOF and the child reaped: a failed status is returned as
\* "git apply failed: <stderr>", a success as {applied: true, ...}.
WaitExit ==
    /\ hpc = "wait"
    /\ gpc = "exited"
    /\ errRead = errOut
    /\ Return(IF gitOk THEN "applied" ELSE "git_failed")
    /\ UNCHANGED <<written, stdinClosed, errRead, gitVars>>

-----------------------------------------------------------------------------
(* git apply, the environment.  It reads the whole patch before it checks  *)
(* or applies anything; a setup failure (a bad config file, an unsafe       *)
(* repository) ends it before it reads stdin.                              *)

\* A setup failure prints its one "fatal:" line and exits.
GitDieEarly ==
    /\ gpc = "setup"
    /\ GitMayDieEarly
    /\ errOut' = 1 /\ gpc' = "exited" /\ gitOk' = FALSE
    /\ UNCHANGED <<hpc, outcome, written, stdinClosed, errRead, gitRead>>

GitStart ==
    /\ gpc = "setup"
    /\ gpc' = "read"
    /\ UNCHANGED <<hpc, outcome, written, stdinClosed, errRead, gitRead,
                   errOut, gitOk>>

GitRead ==
    /\ gpc = "read"
    /\ gitRead < written
    /\ gitRead' = gitRead + 1
    /\ UNCHANGED <<hpc, outcome, written, stdinClosed, errRead, gpc, errOut,
                   gitOk>>

\* At EOF the patch applies, or does not and git reports why.
GitApply ==
    /\ gpc = "read"
    /\ stdinClosed /\ gitRead = written
    /\ gitOk' \in BOOLEAN
    /\ gpc' = IF gitOk' THEN "exited" ELSE "report"
    /\ UNCHANGED <<hpc, outcome, written, stdinClosed, errRead, gitRead, errOut>>

\* One chunk of the error report; it blocks on a full pipe, and ends git
\* (SIGPIPE) once the handler has returned and dropped the read end.
GitReport ==
    /\ gpc = "report"
    /\ IF errOut = ErrChunks \/ hpc = "done"
       THEN gpc' = "exited" /\ UNCHANGED errOut
       ELSE errOut - errRead < PipeCap /\ errOut' = errOut + 1 /\ UNCHANGED gpc
    /\ UNCHANGED <<hpc, outcome, written, stdinClosed, errRead, gitRead, gitOk>>

-----------------------------------------------------------------------------
HandlerStep ==
    Dispatch \/ Spawn \/ WriteChunk \/ Shutdown \/ ReadErr \/ WaitExit

GitStep == GitDieEarly \/ GitStart \/ GitRead \/ GitApply \/ GitReport

\* Both processes have stopped; nothing is left to happen.
Finished ==
    /\ hpc = "done" /\ gpc \in {"none", "exited"}
    /\ UNCHANGED vars

ApplyNext == HandlerStep \/ GitStep \/ Finished

\* The tokio task running handle is polled whenever it can make progress,
\* and the OS runs git; neither may stop while it can take a step.
ApplySpec == ApplyInit /\ [][ApplyNext]_vars
                       /\ WF_vars(HandlerStep) /\ WF_vars(GitStep)

-----------------------------------------------------------------------------
(* Properties.                                                             *)

\* Spec sections 4.4 and 6: the agent_tree_apply_diff call returns, with
\* {applied, stdout, stderr} or git's error: the write, the shutdown and
\* wait_with_output leave neither git nor the handler blocked on a pipe
\* the other will never touch again.
ApplyDiffReturns == <>(hpc = "done")

\* Spec sections 4.4 and 6: agent_tree_apply_diff returns its result, or a
\* user-facing error carrying git's stderr; it is never Fatal.
FailureIsUserFacing == outcome \notin Fatal
=============================================================================
