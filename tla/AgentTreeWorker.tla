--------------------------- MODULE AgentTreeWorker ---------------------------
(***************************************************************************)
(* The agent-tree worker process: run() of                                 *)
(* codex-rs/cli/src/agent_tree_worker.rs.  Its tasks are                   *)
(*   - the main task (read the WorkRequest, set up, start the L2 thread,  *)
(*     wait for it, emit the WorkerResult),                               *)
(*   - the stdin task, which routes answers into the pending registries,  *)
(*   - the drain supervisor, which spawns a drain per known thread and per *)
(*     thread-created broadcast,                                           *)
(*   - one drain per spawned drain, which turns agent events into Need*   *)
(*     lines and submits the answers back to the agent.                    *)
(* Agent threads (ThreadManager / CodexThread) are external: they are the *)
(* environment actions at the end, not mapped to this repository.          *)
(* The pipes are shared with the parent (AgentTreeDelegate): toWorker is  *)
(* the worker's stdin, toParent its stdout; parentGone says the parent    *)
(* has dropped both ends, workerExited that this process has ended.        *)
(***************************************************************************)
EXTENDS AgentTreeVars, FiniteSets

LOCAL Seqs == INSTANCE SequencesExt

CONSTANTS
    L2,           \* the thread run() starts itself
    EventTypes,   \* agent events the threads may emit
    CreatedCap    \* capacity of ThreadManager's thread-created broadcast

AllEventTypes == Kinds \cup {"exec_end", "other"}

ASSUME /\ L2 \in Threads
       /\ EventTypes \subseteq AllEventTypes
       /\ MaxEvents \in Nat \ {0}
       /\ CreatedCap \in Nat \ {0}

\* The receiver's queue holds thread ids and, at its head, the marker of a
\* tokio broadcast RecvError::Lagged.
Lagged == "lagged"

\* broadcast::Sender::send: it never waits; once CreatedCap values are
\* unread the oldest is overwritten, and the receiver's next recv() returns
\* Lagged before the values still held.
Broadcast(q, t) ==
    LET ids == SelectSeq(Append(q, t), LAMBDA x : x # Lagged)
    IN IF Len(ids) <= CreatedCap THEN Append(q, t) ELSE <<Lagged>> \o Tail(ids)

Event == [id : EventIds, type : EventTypes]

DrainPcs == {"loop", "record", "insert", "send", "await", "exited"}
NewDrain(t) == [thread |-> t, pc |-> "loop", ev |-> Null]

WorkerTypeOK ==
    /\ mainPc \in {"read_request", "setup", "start", "log", "spawn", "prompt",
                   "wait", "join", "diff", "result", "returned", "exited"}
    /\ disp \in {"none", "running", "stopped"}
    /\ sup \in {"none", "listing", "loop", "exited"}
    /\ \A d \in DOMAIN drains :
          /\ drains[d].thread \in Threads
          /\ drains[d].pc \in DrainPcs
          /\ drains[d].ev \in Event \cup {Null}
    /\ pending \in [Kinds -> SUBSET Keys]
    /\ slot \in [Keys -> Values \cup {Null}]
    /\ cancelled \in BOOLEAN
    /\ commands \in Seq(Command)
    /\ status \in [Threads -> {"none", "init", "running", "final"}]
    /\ events \in [Threads -> Seq(Event)]
    /\ emitted \in [Threads -> 0..MaxEvents]
    /\ waiting \in [Threads -> SUBSET EventIds]
    /\ createdRx \in Seq(Threads \cup {Lagged})
    /\ workerExited \in BOOLEAN

-----------------------------------------------------------------------------
(* send(): one whole line under the stdout lock.  Once the parent has     *)
(* dropped the read end the write fails (broken pipe) and nothing lands.  *)
Writable == ~parentGone

SendLine(m) == toParent' = IF Writable THEN Append(toParent, m) ELSE toParent

WorkerAlive == ~workerExited

\* run() returns, Ok or Err; the process ends in ProcessExit.
Return == mainPc' = "returned"

ReadWorkRequest ==
    /\ WorkerAlive
    /\ UNCHANGED parentVars
    /\ mainPc = "read_request"
    /\ \/ /\ toWorker # <<>>
          /\ toWorker' = Tail(toWorker)
          /\ LET m == Head(toWorker) IN
               \/ /\ m.type = "work_request"
                  /\ disp' = "running"
                  /\ mainPc' = "setup"
                  /\ UNCHANGED toParent
               \* a line that is not JSON: the ? returns without a message
               \/ /\ m.type = "garbage"
                  /\ Return
                  /\ UNCHANGED <<disp, toParent>>
               \/ /\ m.type \notin {"work_request", "garbage"}
                  /\ SendLine(ErrorMsg)
                  /\ Return
                  /\ UNCHANGED disp
       \* EOF before the first line: "missing WorkRequest"
       \/ /\ toWorker = <<>>
          /\ parentGone
          /\ SendLine(ErrorMsg)
          /\ Return
          /\ UNCHANGED <<toWorker, disp>>
    /\ UNCHANGED <<workerExited, sup, drains, pending, slot, cancelled,
                   commands, agentVars>>

\* git rev-parse --show-toplevel, then git worktree add; either may fail,
\* and the ? returns from run() without writing an error line.
Setup ==
    /\ WorkerAlive
    /\ UNCHANGED parentVars
    /\ mainPc = "setup"
    /\ mainPc' \in {"start", "returned"}
    /\ UNCHANGED <<pipeVars, workerExited, disp, sup, drains, pending, slot,
                   cancelled, commands, agentVars>>

\* subscribe_thread_created() precedes start_thread(), so the receiver
\* also sees the creation of L2 itself.
StartThread ==
    /\ WorkerAlive
    /\ UNCHANGED parentVars
    /\ mainPc = "start"
    /\ \/ /\ status' = [status EXCEPT ![L2] = "init"]
          /\ createdRx' = Broadcast(createdRx, L2)
          /\ mainPc' = "log"
       \/ /\ Return
          /\ UNCHANGED <<status, createdRx>>
    /\ UNCHANGED <<pipeVars, workerExited, disp, sup, drains, pending, slot,
                   cancelled, commands, events, emitted, waiting, submitted>>

SendStartedLog ==
    /\ WorkerAlive
    /\ UNCHANGED parentVars
    /\ mainPc = "log"
    /\ SendLine(LogMsg)
    /\ mainPc' = IF Writable THEN "spawn" ELSE "returned"
    /\ UNCHANGED <<toWorker, workerExited, disp, sup, drains, pending, slot,
                   cancelled, commands, agentVars>>

SpawnSupervisor ==
    /\ WorkerAlive
    /\ UNCHANGED parentVars
    /\ mainPc = "spawn"
    /\ sup' = "listing"
    /\ mainPc' = "prompt"
    /\ UNCHANGED <<pipeVars, workerExited, disp, drains, pending, slot,
                   cancelled, commands, agentVars>>

\* l2_thread.submit(Op::UserInput { prompt }); a failed submit returns
\* from run() through ?.
SubmitPrompt ==
    /\ WorkerAlive
    /\ UNCHANGED parentVars
    /\ mainPc = "prompt"
    /\ \/ status' = [status EXCEPT ![L2] = "running"] /\ mainPc' = "wait"
       \/ Return /\ UNCHANGED status
    /\ UNCHANGED <<pipeVars, workerExited, disp, sup, drains, pending, slot,
                   cancelled, commands, events, emitted, waiting, submitted,
                   createdRx>>

\* is_final_status: Completed, Errored, Shutdown, NotFound.
IsFinalStatus(st) == st = "final"

\* Mutant: the event loop is never cancelled.
WaitFinalNoCancel ==
    /\ WorkerAlive
    /\ UNCHANGED parentVars
    /\ mainPc = "wait"
    /\ IsFinalStatus(status[L2])
    /\ mainPc' = "join"
    /\ UNCHANGED <<pipeVars, workerExited, disp, sup, drains, pending, slot,
                   cancelled, commands, agentVars>>

\* wait_for_final_message polls agent_status until is_final_status, then
\* run() cancels the event loop.
WaitFinal ==
    /\ WorkerAlive
    /\ UNCHANGED parentVars
    /\ mainPc = "wait"
    /\ IsFinalStatus(status[L2])
    /\ cancelled' = TRUE
    /\ mainPc' = "join"
    /\ UNCHANGED <<pipeVars, workerExited, disp, sup, drains, pending, slot,
                   commands, agentVars>>

\* drain_task.await joins the supervisor only, never the drains it spawned.
JoinSupervisor ==
    /\ WorkerAlive
    /\ UNCHANGED parentVars
    /\ mainPc = "join"
    /\ sup = "exited"
    /\ mainPc' = "diff"
    /\ UNCHANGED <<pipeVars, workerExited, disp, sup, drains, pending, slot,
                   cancelled, commands, agentVars>>

GenerateDiff ==
    /\ WorkerAlive
    /\ UNCHANGED parentVars
    /\ mainPc = "diff"
    /\ mainPc' \in {"result", "returned"}
    /\ UNCHANGED <<pipeVars, workerExited, disp, sup, drains, pending, slot,
                   cancelled, commands, agentVars>>

\* The command log is snapshotted, then the WorkerResult line is sent.
SendResult ==
    /\ WorkerAlive
    /\ UNCHANGED parentVars
    /\ mainPc = "result"
    /\ SendLine(ResultMsg(commands))
    /\ Return
    /\ UNCHANGED <<toWorker, workerExited, disp, sup, drains, pending, slot,
                   cancelled, commands, agentVars>>

\* run() has returned: the runtime and every task with it are gone.
ProcessExit ==
    /\ WorkerAlive
    /\ UNCHANGED parentVars
    /\ mainPc = "returned"
    /\ mainPc' = "exited"
    /\ workerExited' = TRUE
    /\ UNCHANGED <<pipeVars, disp, sup, drains, pending, slot, cancelled,
                   commands, agentVars>>
-----------------------------------------------------------------------------
(* The stdin task.                                                         *)

\* Mutant: a copy-pasted dispatch arm hands patch answers to the
\* exec-approval registry.
DeliverPatchToExec(k, key, v) ==
    LET reg == IF k = "patch_approval" THEN "exec_approval" ELSE k IN
    IF key \in pending[reg]
    THEN /\ pending' = [pending EXCEPT ![reg] = @ \ {key}]
         /\ slot' = [slot EXCEPT ![key] = v]
    ELSE UNCHANGED <<pending, slot>>

\* Mutant: request keys compared on event_id alone, so an answer may be
\* taken by another thread's request with the same event id.
DeliverByEventId(k, key, v) ==
    IF \E other \in pending[k] : other[2] = key[2]
    THEN \E other \in pending[k] :
            /\ other[2] = key[2]
            /\ pending' = [pending EXCEPT ![k] = @ \ {other}]
            /\ slot' = [slot EXCEPT ![other] = v]
    ELSE UNCHANGED <<pending, slot>>

\* Mutant: the sender is looked up with get() instead of remove(), so it
\* stays registered after the answer went through it.
DeliverKeepKey(k, key, v) ==
    IF key \in pending[k]
    THEN /\ slot' = [slot EXCEPT ![key] = v]
         /\ UNCHANGED pending
    ELSE UNCHANGED <<pending, slot>>

\* deliver_*_answer: remove the sender for the key and send the value on
\* it; an answer whose key is not registered is dropped.
Deliver(k, key, v) ==
    IF key \in pending[k]
    THEN /\ pending' = [pending EXCEPT ![k] = @ \ {key}]
         /\ slot' = [slot EXCEPT ![key] = v]
    ELSE UNCHANGED <<pending, slot>>

DispatchLine ==
    /\ WorkerAlive
    /\ UNCHANGED parentVars
    /\ disp = "running"
    /\ toWorker # <<>>
    /\ toWorker' = Tail(toWorker)
    /\ LET m == Head(toWorker) IN
         \/ /\ m.type = "answer"
            /\ Deliver(m.kind, m.key, m.val)
            /\ UNCHANGED <<disp, toParent>>
         \/ /\ m.type = "log"
            /\ UNCHANGED <<disp, toParent, pending, slot>>
         \* an inbound error is echoed and ends the task
         \/ /\ m.type = "error"
            /\ SendLine(ErrorMsg)
            /\ disp' = "stopped"
            /\ UNCHANGED <<pending, slot>>
         \* parse error: the ? ends the task silently
         \/ /\ m.type = "garbage"
            /\ disp' = "stopped"
            /\ UNCHANGED <<toParent, pending, slot>>
         \* "ignored IPC message" warning; a failed send ends the task
         \/ /\ m.type \notin {"answer", "log", "error", "garbage"}
            /\ SendLine(LogMsg)
            /\ disp' = IF Writable THEN "running" ELSE "stopped"
            /\ UNCHANGED <<pending, slot>>
    /\ UNCHANGED <<workerExited, mainPc, sup, drains, cancelled, commands,
                   agentVars>>

DispatchEof ==
    /\ WorkerAlive
    /\ UNCHANGED parentVars
    /\ disp = "running"
    /\ toWorker = <<>>
    /\ parentGone
    /\ disp' = "stopped"
    /\ UNCHANGED <<pipeVars, workerExited, mainPc, sup, drains, pending, slot,
                   cancelled, commands, agentVars>>

-----------------------------------------------------------------------------
(* The drain supervisor.                                                   *)

\* list_thread_ids() and a drain for each thread get_thread() finds.
SupervisorList ==
    /\ WorkerAlive
    /\ UNCHANGED parentVars
    /\ sup = "listing"
    /\ LET known == Seqs!SetToSeq({t \in Threads : status[t] # "none"})
       IN drains' = drains \o [i \in DOMAIN known |-> NewDrain(known[i])]
    /\ sup' = "loop"
    /\ UNCHANGED <<pipeVars, workerExited, mainPc, disp, pending, slot,
                   cancelled, commands, agentVars>>

\* select! between cancellation and the broadcast: when both are ready
\* either branch may be taken.  `let Ok(id) = created else { break }`: a
\* Lagged error ends the loop (Closed cannot happen while ThreadManager
\* lives); get_thread of a created thread succeeds.
SupervisorRecv ==
    /\ WorkerAlive
    /\ UNCHANGED parentVars
    /\ sup = "loop"
    /\ createdRx # <<>>
    /\ createdRx' = Tail(createdRx)
    /\ \/ /\ Head(createdRx) # Lagged
          /\ drains' = Append(drains, NewDrain(Head(createdRx)))
          /\ UNCHANGED sup
       \/ /\ Head(createdRx) = Lagged
          /\ sup' = "exited"
          /\ UNCHANGED drains
    /\ UNCHANGED <<pipeVars, workerExited, mainPc, disp, pending, slot,
                   cancelled, commands, status, events, emitted, waiting,
                   submitted>>

\* Mutant: the loop also ends when the cancel branch is not ready, as an
\* `else => break` arm would.
SupervisorCancelUnguarded ==
    /\ WorkerAlive
    /\ UNCHANGED parentVars
    /\ sup = "loop"
    /\ sup' = "exited"
    /\ UNCHANGED <<pipeVars, workerExited, mainPc, disp, drains, pending, slot,
                   cancelled, commands, agentVars>>

SupervisorCancel ==
    /\ WorkerAlive
    /\ UNCHANGED parentVars
    /\ sup = "loop"
    /\ cancelled
    /\ sup' = "exited"
    /\ UNCHANGED <<pipeVars, workerExited, mainPc, disp, drains, pending, slot,
                   cancelled, commands, agentVars>>

-----------------------------------------------------------------------------
(* A per-thread drain (spawn_thread_event_drain) and its handlers.        *)

\* A thread gets at most two drains: one from list_thread_ids and one from
\* its thread-created broadcast.
DrainIds == 1..2 * Cardinality(Threads)

\* Drain d has been spawned and is at pc.
DrainAt(d, pc) == d \in DOMAIN drains /\ drains[d].pc = pc

SetDrain(d, pc, ev) ==
    drains' = [drains EXCEPT ![d] = [@ EXCEPT !.pc = pc, !.ev = ev]]

\* Mutant: every drain builds its keys with the L2 thread id.
KeyOfL2(d) == <<L2, drains[d].ev.id>>

\* Mutant: an off-by-one in the event id the key is built from.
KeyOfNextId(d) == <<drains[d].thread, drains[d].ev.id + 1>>

\* AgentTreeRequestKey::new(thread_id, event.id) in the drain.
KeyOf(d) == <<drains[d].thread, drains[d].ev.id>>

\* The match on event.msg: interactive requests go to handle_*, and an
\* ExecCommandEnd to the command log.
HandlerOf(ty) == IF ty \in Kinds THEN "insert" ELSE "record"

\* select! between cancellation and next_event(); an event is routed by
\* its type, and any other event is ignored.
DrainNext(d) ==
    LET t == drains[d].thread
        ev == Head(events[t])
    IN /\ DrainAt(d, "loop")
       /\ WorkerAlive
       /\ UNCHANGED parentVars
       /\ events[t] # <<>>
       /\ events' = [events EXCEPT ![t] = Tail(@)]
       /\ IF ev.type = "other" THEN SetDrain(d, "loop", Null)
                               ELSE SetDrain(d, HandlerOf(ev.type), ev)
       /\ UNCHANGED <<pipeVars, workerExited, mainPc, disp, sup, pending, slot,
                      cancelled, commands, status, emitted, waiting,
                      submitted, createdRx>>

DrainCancel(d) ==
    /\ WorkerAlive
    /\ UNCHANGED parentVars
    /\ DrainAt(d, "loop")
    /\ cancelled
    /\ SetDrain(d, "exited", Null)
    /\ UNCHANGED <<pipeVars, workerExited, mainPc, disp, sup, pending, slot,
                   cancelled, commands, agentVars>>

\* ExecCommandEnd: push onto the command log under its lock.
DrainRecord(d) ==
    /\ WorkerAlive
    /\ UNCHANGED parentVars
    /\ DrainAt(d, "record")
    /\ commands' = Append(commands, [thread |-> drains[d].thread,
                                     id |-> drains[d].ev.id])
    /\ SetDrain(d, "loop", Null)
    /\ UNCHANGED <<pipeVars, workerExited, mainPc, disp, sup, pending, slot,
                   cancelled, agentVars>>

\* handle_*: register the oneshot sender under the request key ...
DrainInsert(d) ==
    /\ WorkerAlive
    /\ UNCHANGED parentVars
    /\ DrainAt(d, "insert")
    /\ pending' = [pending EXCEPT ![drains[d].ev.type] = @ \cup {KeyOf(d)}]
    /\ SetDrain(d, "send", drains[d].ev)
    /\ UNCHANGED <<pipeVars, workerExited, mainPc, disp, sup, slot,
                   cancelled, commands, agentVars>>

\* ... then send the Need* line.  A failed send returns Err from the
\* handler before the await; the drain logs it (that send fails too) and
\* goes on, and the sender stays registered.
DrainSend(d) ==
    /\ WorkerAlive
    /\ UNCHANGED parentVars
    /\ DrainAt(d, "send")
    /\ SendLine(NeedMsg(drains[d].ev.type, KeyOf(d)))
    /\ IF Writable THEN SetDrain(d, "await", drains[d].ev)
                   ELSE SetDrain(d, "loop", Null)
    /\ UNCHANGED <<toWorker, workerExited, mainPc, disp, sup, pending, slot,
                   cancelled, commands, agentVars>>

\* Mutant: rx.try_recv().unwrap_or_default() in place of rx.await, so a
\* handler that finds no answer yet submits the default at once.
DrainReplyNoWait(d) ==
    LET t == drains[d].thread
        key == KeyOf(d)
        val == IF slot[key] # Null THEN slot[key] ELSE Default
    IN /\ DrainAt(d, "await")
       /\ WorkerAlive
       /\ UNCHANGED parentVars
       /\ slot' = [slot EXCEPT ![key] = Null]
       /\ submitted' = submitted \cup
             {[thread |-> t, id |-> key[2], kind |-> drains[d].ev.type,
               val |-> val]}
       /\ waiting' = [waiting EXCEPT ![t] = @ \ {key[2]}]
       /\ SetDrain(d, "loop", Null)
       /\ UNCHANGED <<pipeVars, workerExited, mainPc, disp, sup, pending,
                      cancelled, commands, status, events, emitted, createdRx>>

\* rx.await, then thread.submit(Op::UserInputAnswer / ExecApproval /
\* PatchApproval) with what it received.  The sender is only dropped with
\* its registry, which lives as long as the process, so the unwrap_or
\* default is never taken here: the await completes once a value was sent.
DrainReply(d) ==
    LET t == drains[d].thread
        key == KeyOf(d)
    IN /\ DrainAt(d, "await")
       /\ WorkerAlive
       /\ UNCHANGED parentVars
       /\ slot[key] # Null
       /\ slot' = [slot EXCEPT ![key] = Null]
       /\ submitted' = submitted \cup
             {[thread |-> t, id |-> key[2], kind |-> drains[d].ev.type,
               val |-> slot[key]]}
       /\ waiting' = [waiting EXCEPT ![t] = @ \ {key[2]}]
       /\ SetDrain(d, "loop", Null)
       /\ UNCHANGED <<pipeVars, workerExited, mainPc, disp, sup, pending,
                      cancelled, commands, status, events, emitted, createdRx>>

-----------------------------------------------------------------------------
(* Agent threads, the environment.  A running thread emits events with    *)
(* consecutive ids; an interactive event blocks it from finishing until  *)
(* its answer is submitted; L2 may create further threads (Collab), which *)
(* the ThreadManager broadcasts.                                           *)

AgentEmit(t, ty) ==
    /\ WorkerAlive
    /\ UNCHANGED parentVars
    /\ status[t] = "running"
    /\ emitted[t] < MaxEvents
    /\ events' = [events EXCEPT ![t] = Append(@, [id |-> emitted[t] + 1,
                                                  type |-> ty])]
    /\ emitted' = [emitted EXCEPT ![t] = @ + 1]
    /\ waiting' = IF ty \in Kinds
                  THEN [waiting EXCEPT ![t] = @ \cup {emitted[t] + 1}]
                  ELSE waiting
    /\ UNCHANGED <<pipeVars, workerExited, taskVars, status, submitted,
                   createdRx>>

AgentSpawn(t) ==
    /\ WorkerAlive
    /\ UNCHANGED parentVars
    /\ status[L2] = "running"
    /\ status[t] = "none"
    /\ status' = [status EXCEPT ![t] = "running"]
    /\ createdRx' = Broadcast(createdRx, t)
    /\ UNCHANGED <<pipeVars, workerExited, taskVars, events, emitted, waiting,
                   submitted>>

AgentFinish(t) ==
    /\ WorkerAlive
    /\ UNCHANGED parentVars
    /\ status[t] = "running"
    /\ waiting[t] = {}
    /\ status' = [status EXCEPT ![t] = "final"]
    /\ UNCHANGED <<pipeVars, workerExited, taskVars, events, emitted, waiting,
                   submitted, createdRx>>

-----------------------------------------------------------------------------
WorkerInit ==
    /\ toWorker = <<>>
    /\ toParent = <<>>
    /\ workerExited = FALSE
    /\ mainPc = "read_request"
    /\ disp = "none"
    /\ sup = "none"
    /\ drains = <<>>
    /\ pending = [k \in Kinds |-> {}]
    /\ slot = [key \in Keys |-> Null]
    /\ cancelled = FALSE
    /\ commands = <<>>
    /\ status = [t \in Threads |-> "none"]
    /\ events = [t \in Threads |-> <<>>]
    /\ emitted = [t \in Threads |-> 0]
    /\ waiting = [t \in Threads |-> {}]
    /\ submitted = {}
    /\ createdRx = <<>>

MainStep ==
    \/ ReadWorkRequest \/ Setup \/ StartThread \/ SendStartedLog
    \/ SpawnSupervisor \/ SubmitPrompt \/ WaitFinal \/ JoinSupervisor
    \/ GenerateDiff \/ SendResult

DispatcherStep == DispatchLine \/ DispatchEof

SupervisorStep == SupervisorList \/ SupervisorRecv \/ SupervisorCancel

DrainStep(d) ==
    \/ DrainNext(d) \/ DrainCancel(d) \/ DrainRecord(d) \/ DrainInsert(d)
    \/ DrainSend(d) \/ DrainReply(d)

AgentStep ==
    \/ \E t \in Threads, ty \in EventTypes : AgentEmit(t, ty)
    \/ \E t \in Threads \ {L2} : AgentSpawn(t)
    \/ \E t \in Threads : AgentFinish(t)

WorkerNext ==
    \/ MainStep \/ ProcessExit \/ DispatcherStep \/ SupervisorStep
    \/ \E d \in DrainIds : DrainStep(d)
    \/ AgentStep

\* Tokio runs every ready task: each task is weakly fair.  The agent
\* threads are not: nothing obliges an agent to finish.
WorkerFairness ==
    /\ WF_workerVars(MainStep)
    /\ WF_workerVars(ProcessExit)
    /\ WF_workerVars(DispatcherStep)
    /\ WF_workerVars(SupervisorStep)
    /\ \A d \in DrainIds : WF_workerVars(DrainStep(d))
=============================================================================
