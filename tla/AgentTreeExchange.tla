---------------------------- MODULE AgentTreeExchange ----------------------------
(***************************************************************************)
(* What the worker promises an agent thread about its interactive         *)
(* requests (spec sections 4.3.2 and 7), with the pipes, tasks and        *)
(* registries hidden.  A request is an interactive kind and the           *)
(* AgentTreeRequestKey of the event that raised it.  It is asked of the    *)
(* user, answered with the user's decision for it or the default, and the *)
(* answer is submitted back to the thread: once, and unchanged.  The      *)
(* service ends when the worker process exits.                            *)
(***************************************************************************)
EXTENDS AgentTreeIpc

VARIABLES
    phase,    \* phase[r]: "idle", "asked", "answered" or "done"
    answer,   \* answer[r]: the value given for r, Null before that
    open      \* the worker process is still running

exVars == <<phase, answer, open>>

Requests == Kinds \X Keys

\* What the user may answer to request r.
AnswersFor(r) == {Default, Decision(r[1], r[2])}

ExchangeTypeOK ==
    /\ phase \in [Requests -> {"idle", "asked", "answered", "done"}]
    /\ answer \in [Requests -> Values \cup {Null}]
    /\ open \in BOOLEAN

ExInit ==
    /\ phase = [r \in Requests |-> "idle"]
    /\ answer = [r \in Requests |-> Null]
    /\ open = TRUE

\* The handler registers the request and shows it to the user.
Ask(r) ==
    /\ open
    /\ phase[r] = "idle"
    /\ phase' = [phase EXCEPT ![r] = "asked"]
    /\ UNCHANGED <<answer, open>>

\* The user's answer reaches the handler waiting for it.
Answer(r, v) ==
    /\ open
    /\ phase[r] = "asked"
    /\ phase' = [phase EXCEPT ![r] = "answered"]
    /\ answer' = [answer EXCEPT ![r] = v]
    /\ UNCHANGED open

\* The handler submits the answer it received to the agent thread.
Submit(r) ==
    /\ open
    /\ phase[r] = "answered"
    /\ phase' = [phase EXCEPT ![r] = "done"]
    /\ UNCHANGED <<answer, open>>

Close ==
    /\ open
    /\ open' = FALSE
    /\ UNCHANGED <<phase, answer>>

ExNext ==
    \/ \E r \in Requests :
          \/ Ask(r)
          \/ \E v \in AnswersFor(r) : Answer(r, v)
          \/ Submit(r)
    \/ Close

ExSpec == ExInit /\ [][ExNext]_exVars

\* While the worker runs, an asked request is answered and the answer
\* submitted.
ExFairSpec ==
    /\ ExSpec
    /\ \A r \in Requests :
          /\ WF_exVars(\E v \in AnswersFor(r) : Answer(r, v))
          /\ WF_exVars(Submit(r))
=============================================================================
