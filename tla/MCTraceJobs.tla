----------------------------- MODULE MCTraceJobs -----------------------------
(***************************************************************************)
(* The instances of TraceJobs that TLC checks: every constant is given in  *)
(* a configuration.                                                        *)
(***************************************************************************)
EXTENDS TraceJobs

CONSTANT Other  \* a query that is made only to meet a full queue

\* The other query comes while another trace waits and nothing was synchronised yet,
\* and finds the queue full at once; and the database stays up while there are two
\* roots (outages meet a root and its extension).
OtherMeetsFullQueue ==
    LET calling == {e \in Enqueuers : sender[e] # Idle /\ variant[sender[e].job] = Other} IN
    /\ created' # created /\ variant'[created'] = Other => Len(queue) = QueueSize /\ syncCreated = 0
    /\ calling # {} => \E e \in calling : sender'[e] = Idle
    /\ created' > 1 /\ root'[created'] = NoTrace => reachable'
=============================================================================
