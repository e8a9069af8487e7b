------------------------- MODULE MC_AgentTreeSystem -------------------------
(* Model values for the thread ids; L2 is the first of them. *)
EXTENDS AgentTreeSystem

CONSTANTS t1, t2

OneThread == {t1}
TwoThreads == {t1, t2}
MCL2 == t1
=============================================================================
