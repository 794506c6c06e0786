----------------------------- MODULE SyncService -----------------------------
(***************************************************************************)
(* What the sync manager promises to whoever enqueues, reads and stops     *)
(* sync jobs, the trace manager above all: an address has a key, a new job *)
(* takes it, and once a job is closed nothing but a stop, or the sweep of  *)
(* a restart, changes its document.  SyncJobs implements it; TraceJobs is  *)
(* built on it.                                                            *)
(***************************************************************************)
EXTENDS Naturals

CONSTANTS
    Addresses,
    MaxJobs         \* bound: jobs ever created

Jobs == 1 .. MaxJobs
NoJob == 0

Live   == {"queued", "running"}
Result == {"succeeded", "partial"}

VARIABLES
    status,     \* job documents, "none" before their creation
    addr,       \* and their addresses
    created,    \* jobs created so far
    active,     \* the keys: address -> job
    open        \* jobs that Enqueue or the worker may still write

vars == <<status, addr, created, active, open>>

Init ==
    /\ status = [i \in Jobs |-> "none"]
    /\ addr = [i \in Jobs |-> CHOOSE a \in Addresses : TRUE]
    /\ created = 0
    /\ active = [a \in Addresses |-> NoJob]
    /\ open = {}

\* Enqueue for an address whose key nobody holds; otherwise the caller is given
\* the job that holds it.
Enqueue(a) ==
    /\ active[a] = NoJob
    /\ created < MaxJobs
    /\ created' = created + 1
    /\ status' = [status EXCEPT ![created'] = "queued"]
    /\ addr' = [addr EXCEPT ![created'] = a]
    /\ active' = [active EXCEPT ![a] = created']
    /\ open' = open \cup {created'}

\* A job is marked, or reports.
Run(i) ==
    /\ i \in open
    /\ status' = [status EXCEPT ![i] = "running"]
    /\ UNCHANGED <<addr, created, active, open>>

\* A job ends, for want of room in the queue too.
Finish(i, st) ==
    /\ i \in open
    /\ status' = [status EXCEPT ![i] = st]
    /\ open' = open \ {i}
    /\ UNCHANGED <<addr, created, active>>

\* A job ends without a word: it was stopped, or its document cannot be read or
\* written.
Abandon(i) ==
    /\ i \in open
    /\ open' = open \ {i}
    /\ UNCHANGED <<status, addr, created, active>>

\* A stop, however late it writes.
Stop(i) ==
    /\ status[i] # "none"
    /\ status' = [status EXCEPT ![i] = "stopped"]
    /\ UNCHANGED <<addr, created, active, open>>

\* The key is given back.
Release(a) ==
    /\ active[a] # NoJob
    /\ active' = [active EXCEPT ![a] = NoJob]
    /\ UNCHANGED <<status, addr, created, open>>

\* The start-up sweep of interrupted jobs.
Sweep ==
    /\ status' = [i \in Jobs |-> IF status[i] \in Live THEN "failed" ELSE status[i]]
    /\ UNCHANGED <<addr, created, active, open>>

\* A restarted process knows no keys and works on nothing.
Restart ==
    /\ active' = [a \in Addresses |-> NoJob]
    /\ open' = {}
    /\ UNCHANGED <<status, addr, created>>

Next ==
    \/ \E a \in Addresses : Enqueue(a) \/ Release(a)
    \/ \E i \in Jobs :
          \/ Run(i) \/ Abandon(i) \/ Stop(i)
          \/ \E st \in Result \cup {"failed"} : Finish(i, st)
    \/ Sweep \/ Restart

Spec == Init /\ [][Next]_vars
=============================================================================
