--------------------------- MODULE AgentTreeSystem ---------------------------
(***************************************************************************)
(* The orchestrator's agent_tree_delegate call and the worker process it   *)
(* spawns, joined by the two pipes: toWorker (the child's stdin) and       *)
(* toParent (the child's stdout).                                           *)
(***************************************************************************)
EXTENDS AgentTreeWorker, AgentTreeDelegate

Init == WorkerInit /\ DelegateInit

\* Once the call has returned and the worker has exited, nothing is left
\* to happen: the cfgs say CHECK_DEADLOCK FALSE for that final state.
Next == WorkerNext \/ DelegateNext

Spec == Init /\ [][Next]_vars

FairSpec == Spec /\ WorkerFairness /\ DelegateFairness

TypeOK == WorkerTypeOK /\ DelegateTypeOK

LOCAL Fn == INSTANCE Functions

-----------------------------------------------------------------------------
(* Properties.                                                             *)

\* The requests the parent can still answer: Need* lines it has not read,
\* the one it is asking the user about, and answers it has written that
\* the stdin task has not read.
InFlight ==
    {<<m.kind, m.key>> : m \in {l \in Fn!Range(toParent) : l.type = "need"}}
    \cup (IF ppc = "ask" THEN {<<cur.kind, cur.key>>} ELSE {})
    \cup {<<m.kind, m.key>> : m \in {l \in Fn!Range(toWorker) : l.type = "answer"}}

\* Every request in flight between the processes is still registered in the
\* worker's pending map of its kind, so its answer will find the oneshot
\* (handle_* must insert the sender before the Need* line goes out, and
\* only a delivery may remove it).
InFlightRegistered ==
    ~workerExited => \A x \in InFlight : x[2] \in pending[x[1]]

\* What a drain submits to an agent thread for request (thread, event) of a
\* kind is the decision the user took for that very request, or the
\* default: answers are never crossed between threads, events or kinds.
AnswerCorrelation ==
    \A s \in submitted :
        s.val \in {Default, Decision(s.kind, <<s.thread, s.id>>)}

\* A handler that sent its Need* and awaits the answer gets it and submits
\* it to its agent, unless the worker process ends first: no agent thread
\* is left blocked on a request (section 7 of the spec).
AwaitedAnswerArrives ==
    \A d \in DrainIds :
        DrainAt(d, "await") ~> (~DrainAt(d, "await") \/ workerExited)

\* Spec section 4.3.2: the supervisor drains every known thread and then
\* every newly created one until the cancellation fires.  While it has not
\* fired, each thread that exists has a drain, or its creation still waits
\* in the broadcast receiver of a supervisor that is still looping (or
\* about to list the threads).  An early end of the supervisor loop, or a
\* creation overwritten in the broadcast, leaves a thread whose requests
\* never reach the parent.
CreatedThreadDrained ==
    ~cancelled /\ ~workerExited =>
        \A t \in Threads : status[t] # "none" =>
            \/ sup \in {"none", "listing"}
            \/ \E d \in DOMAIN drains : drains[d].thread = t
            \/ sup = "loop" /\ t \in Fn!Range(createdRx)

\* The WorkerResult is the last line the worker writes (spec section 5):
\* run() cancels and awaits the drain supervisor before it sends the
\* result, so no drain may still write a Need* request after it: nothing
\* follows it on toParent, and once the parent has taken it nothing is
\* left behind it.
ResultIsLast ==
    /\ \A i \in DOMAIN toParent :
          toParent[i].type = "result" => i = Len(toParent)
    /\ outcome = "result" => toParent = <<>>

\* The command log keeps the order in which each thread's ExecCommandEnd
\* events were emitted (spec section 5: per-thread event order is
\* preserved, the log reflects completion order).
CommandsInThreadOrder ==
    \A i, j \in DOMAIN commands :
        (i < j /\ commands[i].thread = commands[j].thread)
            => commands[i].id < commands[j].id

\* A worker that fails before its result reports the failure with an
\* error line (spec section 7), so the delegate never has to fall back on
\* "agent_tree worker exited unexpectedly".
FailureReported == outcome # "unexpected_exit"

\* Once L2 reaches a final status, the agent_tree_delegate call returns.
DelegateReturns == (status[L2] = "final") ~> (ppc = "done")

-----------------------------------------------------------------------------
(* Refinement: the worker and the parent together implement the exchange  *)
(* of AgentTreeExchange.  A request is done once a drain has submitted    *)
(* it, answered while its value waits in the oneshot of a drain awaiting *)
(* it, and asked while its sender is registered.                          *)

\* The submissions made for request r.
SubmittedFor(r) ==
    {s \in submitted : s.kind = r[1] /\ <<s.thread, s.id>> = r[2]}

\* A drain awaits request r and its oneshot holds a value.
AnsweredNow(r) ==
    /\ slot[r[2]] # Null
    /\ \E d \in DOMAIN drains :
          /\ drains[d].pc = "await"
          /\ drains[d].ev.type = r[1]
          /\ KeyOf(d) = r[2]

PhaseOf(r) ==
    CASE SubmittedFor(r) # {} -> "done"
      [] AnsweredNow(r)       -> "answered"
      [] r[2] \in pending[r[1]] -> "asked"
      [] OTHER                -> "idle"

AnswerOf(r) ==
    CASE SubmittedFor(r) # {} -> (CHOOSE s \in SubmittedFor(r) : TRUE).val
      [] AnsweredNow(r)       -> slot[r[2]]
      [] OTHER                -> Null

Exchange == INSTANCE AgentTreeExchange
    WITH phase <- [r \in Kinds \X Keys |-> PhaseOf(r)],
         answer <- [r \in Kinds \X Keys |-> AnswerOf(r)],
         open <- ~workerExited

\* Every step of the worker and the parent is a step of the exchange: a
\* request is registered before it is answered, answered only with the
\* user's decision for it or the default, submitted once, and submitted
\* with the very value the stdin task delivered to its oneshot.
ExchangeSpec == Exchange!ExSpec

\* Under the tasks' fairness, the worker also keeps the exchange's
\* liveness promise: while it runs, every registered request is answered
\* and its answer submitted to the agent thread.
ExchangeFairSpec == Exchange!ExFairSpec

=============================================================================
