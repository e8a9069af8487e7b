-------------------------- MODULE AgentTreeDelegate --------------------------
(***************************************************************************)
(* The parent side: delegate::handle of                                     *)
(* codex-rs/core/src/tools/handlers/agent_tree.rs.  It writes the           *)
(* WorkRequest to the worker's stdin, then reads the worker's stdout one   *)
(* line at a time, answering each Need* inline through the session before  *)
(* reading the next line, until a WorkerResult, an Error or EOF.  When the *)
(* call returns, the child's stdin and stdout handles are dropped           *)
(* (parentGone); the child itself is not killed.                           *)
(***************************************************************************)
EXTENDS AgentTreeVars

CONSTANT
    ParentMayAbort   \* whether the tool call can be cancelled mid-way

Outcomes == {"none", "result", "worker_error", "unexpected_exit", "fatal",
             "aborted"}

DelegateTypeOK ==
    /\ ppc \in {"start", "read", "ask", "done"}
    /\ cur \in {Null} \cup NeedMsgs
    /\ outcome \in Outcomes
    /\ parentGone = (ppc = "done")

\* The call returns: the child's stdin and stdout are dropped with it.
ReturnWith(o) ==
    /\ ppc' = "done"
    /\ outcome' = o
    /\ parentGone' = TRUE
    /\ cur' = Null

\* Spawn `<self> agent-tree-worker` and write the WorkRequest line.
WriteWorkRequest ==
    /\ UNCHANGED workerOwn
    /\ ppc = "start"
    /\ toWorker' = Append(toWorker, WorkRequestMsg)
    /\ ppc' = "read"
    /\ UNCHANGED <<toParent, cur, outcome, parentGone>>

ReadLine ==
    /\ UNCHANGED workerOwn
    /\ ppc = "read"
    /\ toParent # <<>>
    /\ toParent' = Tail(toParent)
    /\ LET m == Head(toParent) IN
         \/ /\ m.type = "need"
            /\ ppc' = "ask"
            /\ cur' = m
            /\ UNCHANGED <<outcome, parentGone>>
         \/ /\ m.type = "result"
            /\ ReturnWith("result")
         \/ /\ m.type = "error"
            /\ ReturnWith("worker_error")
         \* Log and the P->W variants are ignored
         \/ /\ m.type \notin {"need", "result", "error"}
            /\ UNCHANGED <<ppc, cur, outcome, parentGone>>
    /\ UNCHANGED toWorker

\* stdout closed before a WorkerResult: child.wait(), then
\* "agent_tree worker exited unexpectedly".
ReadEof ==
    /\ UNCHANGED workerOwn
    /\ ppc = "read"
    /\ toParent = <<>>
    /\ workerExited
    /\ ReturnWith("unexpected_exit")
    /\ UNCHANGED <<toWorker, toParent>>

\* request_user_input / request_command_approval / request_patch_approval:
\* the session yields the user's decision, or the type's default when it
\* has none (no response, or the patch receiver is cancelled).  The answer
\* line is then written; a write to an exited child fails (Fatal).
AnswerNeed ==
    /\ UNCHANGED workerOwn
    /\ ppc = "ask"
    /\ \E v \in {Default, Decision(cur.kind, cur.key)} :
          IF workerExited
          THEN ReturnWith("fatal") /\ UNCHANGED toWorker
          ELSE /\ toWorker' = Append(toWorker, AnswerMsg(cur.kind, cur.key, v))
               /\ ppc' = "read"
               /\ cur' = Null
               /\ UNCHANGED <<outcome, parentGone>>
    /\ UNCHANGED toParent

\* The orchestrator's turn is interrupted: the handle() future is dropped
\* at whatever await it was in.
Abort ==
    /\ UNCHANGED workerOwn
    /\ ParentMayAbort
    /\ ppc # "done"
    /\ ReturnWith("aborted")
    /\ UNCHANGED <<toWorker, toParent>>

DelegateInit ==
    /\ ppc = "start"
    /\ cur = Null
    /\ outcome = "none"
    /\ parentGone = FALSE

DelegateNext == WriteWorkRequest \/ ReadLine \/ ReadEof \/ AnswerNeed \/ Abort

\* The handler runs on a tokio task (weakly fair); AnswerNeed also stands
\* for the user eventually answering the prompt.
DelegateFairness ==
    WF_<<toWorker, toParent, parentVars>>(WriteWorkRequest \/ ReadLine
                                          \/ ReadEof \/ AnswerNeed)
=============================================================================
