------------------------ MODULE MC_AgentTreeWorkerPeer ------------------------
(***************************************************************************)
(* The worker process on its own, its stdin driven by an arbitrary peer:   *)
(* `agent-tree-worker` reads whatever is written to it, so besides answers *)
(* the peer may write a first line that is not a WorkRequest, logs, error  *)
(* lines, unparsable lines and variants meant for the other direction, and *)
(* may close the pipes at any point.                                       *)
(***************************************************************************)
EXTENDS AgentTreeWorker

CONSTANTS t1, t2, MaxPeerLines

PeerThreads == {t1, t2}

\* Bound: t2 is a sub-thread that only exists.  Its creation, broadcast
\* after L2's into a receiver of capacity 1, is what makes the supervisor's
\* recv() return Lagged; its events add nothing the peer's lines do not.
SubThreadSilent == emitted[t2] = 0
MCL2 == t1

\* Bound: at most MaxPeerLines unread lines in the two pipes together.
Room == Len(toWorker) + Len(toParent) < MaxPeerLines

\* Lines the peer may write other than answers.  A WorkerResult stands for
\* every variant the stdin task does not expect.
OtherLines == {WorkRequestMsg, LogMsg, ErrorMsg, GarbageLine, ResultMsg(<<>>)}

PeerWrite ==
    /\ UNCHANGED <<workerOwn, ppc, cur, outcome>>
    /\ ~parentGone
    /\ Room
    /\ \E m \in OtherLines : toWorker' = Append(toWorker, m)
    /\ UNCHANGED <<toParent, parentGone>>

\* Read the next worker line; a Need* may be answered, with any value.
PeerRead ==
    /\ UNCHANGED <<workerOwn, ppc, cur, outcome>>
    /\ ~parentGone
    /\ toParent # <<>>
    /\ toParent' = Tail(toParent)
    /\ LET m == Head(toParent) IN
         IF m.type = "need" /\ Room
         THEN \E v \in {Default, Decision(m.kind, m.key)} :
                 toWorker' = Append(toWorker, AnswerMsg(m.kind, m.key, v))
         ELSE UNCHANGED toWorker
    /\ UNCHANGED parentGone

PeerClose ==
    /\ UNCHANGED <<workerOwn, ppc, cur, outcome>>
    /\ ~parentGone
    /\ parentGone' = TRUE
    /\ UNCHANGED <<toWorker, toParent>>

\* The peer's own state is not modelled beyond parentGone.
PeerInit ==
    /\ WorkerInit
    /\ parentGone = FALSE
    /\ ppc = "start" /\ cur = Null /\ outcome = "none"

PeerNext == WorkerNext \/ PeerWrite \/ PeerRead \/ PeerClose

PeerSpec == PeerInit /\ [][PeerNext]_vars

TypeOK == WorkerTypeOK

\* Every sender left in a pending registry belongs to a handler still
\* sending its Need* or awaiting the answer, so a delivered answer takes its
\* sender out; only a Need* that could not be written (the peer is gone)
\* leaves one behind.
RegisteredHasWaiter ==
    \A k \in Kinds, key \in Keys :
        key \in pending[k] =>
            \/ parentGone
            \/ \E d \in DOMAIN drains :
                  /\ drains[d].pc \in {"send", "await"}
                  /\ drains[d].ev.type = k
                  /\ KeyOf(d) = key
=============================================================================
