----------------------------- MODULE AgentTreeIpc -----------------------------
(***************************************************************************)
(* The IPC vocabulary of codex-rs/core/src/agent_tree/ipc.rs, abstracted to *)
(* what routes a line: its variant (the serde "type" tag), the interactive *)
(* kind of a Need*/answer, and its AgentTreeRequestKey.  Payloads (prompts, *)
(* commands, diffs, log text) are left out: no property reads them.         *)
(***************************************************************************)
EXTENDS Naturals, Sequences

CONSTANTS
    Threads,      \* ThreadIds the ThreadManager hands out
    MaxEvents,    \* bound: events one thread emits
    Null

\* The three interactive variants, each with its own pending registry.
Kinds == {"user_input", "exec_approval", "patch_approval"}

EventIds == 1..MaxEvents

\* AgentTreeRequestKey { thread_id, event_id }; equality is the derived one.
Keys == Threads \X EventIds

\* What an answer carries: the decision taken for one request, or the
\* default of its type (empty answers map, ReviewDecision::default()).
Decision(k, key) == [for |-> <<k, key>>]
Default == [for |-> <<>>]
Values == {Default} \cup {Decision(k, key) : k \in Kinds, key \in Keys}

\* WorkerCommandResult, reduced to the ExecCommandEnd it came from.
Command == [thread : Threads, id : EventIds]

\* AgentTreeIpcMessage variants.  "garbage" is a line serde cannot parse.
NeedMsg(k, key) == [type |-> "need", kind |-> k, key |-> key]
AnswerMsg(k, key, v) == [type |-> "answer", kind |-> k, key |-> key, val |-> v]
WorkRequestMsg == [type |-> "work_request"]
LogMsg == [type |-> "log"]
ErrorMsg == [type |-> "error"]
ResultMsg(cmds) == [type |-> "result", commands |-> cmds]
GarbageLine == [type |-> "garbage"]

NeedMsgs == [type : {"need"}, kind : Kinds, key : Keys]
=============================================================================
