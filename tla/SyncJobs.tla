------------------------------ MODULE SyncJobs ------------------------------
(***************************************************************************)
(* The life of a sync job (syncer/manager.go): HTTP and trace goroutines   *)
(* that enqueue and stop jobs, the one worker goroutine of Manager.Run,    *)
(* and the sync_jobs collection they share.  What a job fetches is in      *)
(* AscendingSync and RecentSync; there a stop is one step, here it is the  *)
(* read, the write and the cancellation it is made of.                     *)
(*                                                                         *)
(* Jobs are numbered in the order they are created; 0 is no job.  Every    *)
(* write replaces the whole document with its writer's copy.               *)
(***************************************************************************)
EXTENDS Naturals, Sequences, FiniteSets

CONSTANTS
    Addresses,
    Enqueuers,      \* goroutines that call Enqueue
    Stoppers,       \* goroutines that call Stop
    QueueSize,      \* SYNC_QUEUE_SIZE
    MaxJobs         \* bound: jobs ever created

ASSUME ConstantsAssumption ==
    /\ Addresses # {}
    /\ QueueSize \in Nat \ {0}
    /\ MaxJobs \in Nat

Jobs == 1 .. MaxJobs
NoJob == 0

Live  == {"queued", "running"}
Result == {"succeeded", "partial"}
Ended == Result \cup {"failed", "stopped"}

VARIABLES
    reachable,  \* the database answers
    phase,      \* of Manager.Run: "starting", "serving", "dead"
    status,     \* job documents, "none" before their creation
    addr,       \* and their addresses
    created,    \* jobs created so far
    active,     \* Manager.active: address -> job
    queue,      \* Manager.queue
    sender,     \* Enqueue calls past their critical section
    stopper,    \* Stop calls past their read
    worker,     \* place and job of Manager.process
    cancelled   \* the context of the job in process is cancelled

docVars == <<status, addr, created>>
keyVars == <<active, queue, sender>>
vars == <<reachable, phase, docVars, keyVars, stopper, worker, cancelled>>

Idle == [pc |-> "idle", job |-> NoJob]
At(place, i) == [pc |-> place, job |-> i]

Init ==
    /\ reachable = TRUE
    /\ phase = "starting"
    /\ status = [i \in Jobs |-> "none"]
    /\ addr = [i \in Jobs |-> CHOOSE a \in Addresses : TRUE]
    /\ created = 0
    /\ active = [a \in Addresses |-> NoJob]
    /\ queue = <<>>
    /\ sender = [e \in Enqueuers |-> Idle]
    /\ stopper = [s \in Stoppers |-> Idle]
    /\ worker = Idle
    /\ cancelled = FALSE
-----------------------------------------------------------------------------
(* Enqueue *)

\* The critical section: an address with a key gets the job that holds it (and
\* nothing changes), any other a new job and the key.
Enqueue(e, a) ==
    /\ sender[e] = Idle
    /\ reachable /\ created < MaxJobs
    /\ active[a] = NoJob
    /\ created' = created + 1
    /\ status' = [status EXCEPT ![created'] = "queued"]
    /\ addr' = [addr EXCEPT ![created'] = a]
    /\ active' = [active EXCEPT ![a] = created']
    /\ sender' = [sender EXCEPT ![e] = At("send", created')]
    /\ UNCHANGED <<reachable, phase, queue, stopper, worker, cancelled>>

Send(e) ==
    /\ sender[e].pc = "send"
    /\ Len(queue) < QueueSize
    /\ queue' = Append(queue, sender[e].job)
    /\ sender' = [sender EXCEPT ![e] = Idle]
    /\ UNCHANGED <<reachable, phase, docVars, active, stopper, worker, cancelled>>

\* Mutant of QueueFull: the key is kept.
QueueFullKeepingKey(e) ==
    /\ sender[e].pc = "send"
    /\ Len(queue) = QueueSize
    /\ sender' = [sender EXCEPT ![e].pc = "reject"]
    /\ UNCHANGED <<reachable, phase, docVars, active, queue, stopper, worker, cancelled>>

\* No room: the key is released before the job is marked.
QueueFull(e) ==
    /\ sender[e].pc = "send"
    /\ Len(queue) = QueueSize
    /\ active' = [active EXCEPT ![addr[sender[e].job]] = NoJob]
    /\ sender' = [sender EXCEPT ![e].pc = "reject"]
    /\ UNCHANGED <<reachable, phase, docVars, queue, stopper, worker, cancelled>>

\* The result of this write is dropped.
Reject(e) ==
    /\ sender[e].pc = "reject"
    /\ status' = IF reachable THEN [status EXCEPT ![sender[e].job] = "failed"] ELSE status
    /\ sender' = [sender EXCEPT ![e] = Idle]
    /\ UNCHANGED <<reachable, phase, addr, created, active, queue, stopper, worker, cancelled>>
-----------------------------------------------------------------------------
(* Stop *)

StopRead(s, i) ==
    /\ stopper[s] = Idle
    /\ reachable
    /\ status[i] \in Live
    /\ stopper' = [stopper EXCEPT ![s] = At("save", i)]
    /\ UNCHANGED <<reachable, phase, docVars, keyVars, worker, cancelled>>

StopSave(s) ==
    /\ stopper[s].pc = "save"
    /\ IF reachable
       THEN /\ status' = [status EXCEPT ![stopper[s].job] = "stopped"]
            /\ stopper' = [stopper EXCEPT ![s].pc = "cancel"]
       ELSE /\ stopper' = [stopper EXCEPT ![s] = Idle]
            /\ UNCHANGED status
    /\ UNCHANGED <<reachable, phase, addr, created, keyVars, worker, cancelled>>

\* FailAddressSync, and only when it succeeds the cancellation.
StopCancel(s) ==
    /\ stopper[s].pc = "cancel"
    /\ cancelled' = (cancelled \/ (reachable /\ worker.job = stopper[s].job))
    /\ stopper' = [stopper EXCEPT ![s] = Idle]
    /\ UNCHANGED <<reachable, phase, docVars, keyVars, worker>>
-----------------------------------------------------------------------------
(* Manager.Run and process *)

\* Mutant of Recover: the sweep fails results too.
RecoverEverything ==
    /\ phase = "starting"
    /\ phase' = IF reachable THEN "serving" ELSE "dead"
    /\ status' = IF reachable
                 THEN [i \in Jobs |-> IF status[i] # "none" THEN "failed" ELSE status[i]]
                 ELSE status
    /\ UNCHANGED <<reachable, addr, created, keyVars, stopper, worker, cancelled>>

\* Mutant of Recover: jobs still waiting are passed over.
RecoverRunningOnly ==
    /\ phase = "starting"
    /\ phase' = IF reachable THEN "serving" ELSE "dead"
    /\ status' = IF reachable
                 THEN [i \in Jobs |-> IF status[i] = "running" THEN "failed" ELSE status[i]]
                 ELSE status
    /\ UNCHANGED <<reachable, addr, created, keyVars, stopper, worker, cancelled>>

\* FailInterruptedJobs, while the HTTP server may already be serving; when it
\* fails Run returns, and the server goes on without a worker.
Recover ==
    /\ phase = "starting"
    /\ phase' = IF reachable THEN "serving" ELSE "dead"
    /\ status' = IF reachable
                 THEN [i \in Jobs |-> IF status[i] \in Live THEN "failed" ELSE status[i]]
                 ELSE status
    /\ UNCHANGED <<reachable, addr, created, keyVars, stopper, worker, cancelled>>

\* The job comes off the channel and its context is registered for Stop.
Receive ==
    /\ phase = "serving"
    /\ worker = Idle /\ queue # <<>>
    /\ worker' = At("load", Head(queue))
    /\ queue' = Tail(queue)
    /\ UNCHANGED <<reachable, phase, docVars, active, sender, stopper, cancelled>>

Load ==
    /\ worker.pc = "load"
    /\ worker' = [worker EXCEPT !.pc =
                    IF reachable /\ status[worker.job] # "stopped" THEN "mark" ELSE "release"]
    /\ UNCHANGED <<reachable, phase, docVars, keyVars, stopper, cancelled>>

Write(st) == status' = IF reachable THEN [status EXCEPT ![worker.job] = st] ELSE status

\* A job that cannot be marked is left as it is.
MarkRunning ==
    /\ worker.pc = "mark"
    /\ Write("running")
    /\ worker' = [worker EXCEPT !.pc = IF reachable THEN "work" ELSE "release"]
    /\ UNCHANGED <<reachable, phase, addr, created, keyVars, stopper, cancelled>>

\* Mutant of Report: a report that comes after the end.
ReportAnytime ==
    /\ worker.job # NoJob
    /\ Write("running")
    /\ UNCHANGED <<reachable, phase, addr, created, keyVars, stopper, worker, cancelled>>

\* saveProgress, any number of times.
Report ==
    /\ worker.pc = "work"
    /\ Write("running")
    /\ UNCHANGED <<reachable, phase, addr, created, keyVars, stopper, worker, cancelled>>

\* finish and finishFailed: a failed write is only logged.
Finish ==
    /\ worker.pc = "work"
    /\ \E st \in Ended \ {"stopped"} : Write(st)
    /\ worker' = [worker EXCEPT !.pc = "release"]
    /\ UNCHANGED <<reachable, phase, addr, created, keyVars, stopper, cancelled>>

\* The work ends with context.Canceled: no write.
Abandon ==
    /\ worker.pc = "work" /\ cancelled
    /\ worker' = [worker EXCEPT !.pc = "release"]
    /\ UNCHANGED <<reachable, phase, docVars, keyVars, stopper, cancelled>>

\* Mutant of Release: the key stays behind a stopped job.
ReleaseUnlessStopped ==
    /\ worker.pc = "release"
    /\ active' = IF status[worker.job] = "stopped" THEN active
                 ELSE [active EXCEPT ![addr[worker.job]] = NoJob]
    /\ worker' = Idle
    /\ cancelled' = FALSE
    /\ UNCHANGED <<reachable, phase, docVars, queue, sender, stopper>>

\* Mutant of Release: the finished job stays registered with the idle worker.
ReleaseKeepingJob ==
    /\ worker.pc = "release"
    /\ active' = [active EXCEPT ![addr[worker.job]] = NoJob]
    /\ worker' = [worker EXCEPT !.pc = "idle"]
    /\ cancelled' = FALSE
    /\ UNCHANGED <<reachable, phase, docVars, queue, sender, stopper>>

\* The deferred calls of process.
Release ==
    /\ worker.pc = "release"
    /\ active' = [active EXCEPT ![addr[worker.job]] = NoJob]
    /\ worker' = Idle
    /\ cancelled' = FALSE
    /\ UNCHANGED <<reachable, phase, docVars, queue, sender, stopper>>
-----------------------------------------------------------------------------
(* The environment *)

\* The process dies and is started again.
Crash ==
    /\ phase' = "starting"
    /\ active' = [a \in Addresses |-> NoJob]
    /\ queue' = <<>>
    /\ sender' = [e \in Enqueuers |-> Idle]
    /\ stopper' = [s \in Stoppers |-> Idle]
    /\ worker' = Idle
    /\ cancelled' = FALSE
    /\ UNCHANGED <<reachable, docVars>>

Outage ==
    /\ reachable' = ~reachable
    /\ UNCHANGED <<phase, docVars, keyVars, stopper, worker, cancelled>>
-----------------------------------------------------------------------------
EnqueueStep(e) == Send(e) \/ QueueFull(e) \/ Reject(e)
StopStep(s)    == StopSave(s) \/ StopCancel(s)
WorkerStep     == Receive \/ Load \/ MarkRunning \/ Finish \/ Abandon \/ Release

Next ==
    \/ \E e \in Enqueuers : (\E a \in Addresses : Enqueue(e, a)) \/ EnqueueStep(e)
    \/ \E s \in Stoppers : (\E i \in Jobs : StopRead(s, i)) \/ StopStep(s)
    \/ Recover \/ WorkerStep \/ Report
    \/ Crash \/ Outage

\* Goroutines are scheduled, and a job's work ends: every explorer call has a
\* timeout and a number of retries, and a job has finitely many of them.
Fairness ==
    /\ \A e \in Enqueuers : WF_vars(EnqueueStep(e))
    /\ \A s \in Stoppers : WF_vars(StopStep(s))
    /\ WF_vars(Recover)
    /\ WF_vars(WorkerStep)

Spec == Init /\ [][Next]_vars /\ Fairness
-----------------------------------------------------------------------------
\* Every variable has its type.
TypeOK ==
    /\ reachable \in BOOLEAN /\ cancelled \in BOOLEAN
    /\ phase \in {"starting", "serving", "dead"}
    /\ status \in [Jobs -> {"none"} \cup Live \cup Ended]
    /\ addr \in [Jobs -> Addresses]
    /\ created \in 0 .. MaxJobs
    /\ active \in [Addresses -> Jobs \cup {NoJob}]
    /\ queue \in Seq(Jobs)
    /\ sender \in [Enqueuers -> [pc : {"send", "reject"}, job : Jobs] \cup {Idle}]
    /\ stopper \in [Stoppers -> [pc : {"save", "cancel"}, job : Jobs] \cup {Idle}]
    /\ worker \in [pc : {"load", "mark", "work", "release"}, job : Jobs] \cup {Idle}

\* A job on its way into the queue, in the queue, or in process.
Sending(i) == \E e \in Enqueuers : sender[e] = At("send", i)
Queued(i)  == \E k \in DOMAIN queue : queue[k] = i
InHand(i)  == Sending(i) \/ Queued(i) \/ worker.job = i

\* An address's key is held exactly while a job of it is in somebody's hands, and
\* by that job: no two jobs of one address ever run or wait together, and no
\* address is locked by a job that is gone.  RecentSync and AscendingSync rest on it.
KeysMatch == \A a \in Addresses, i \in Jobs : active[a] = i <=> addr[i] = a /\ InHand(i)

\* A result once recorded is only ever replaced by a Stop that read the job before
\* it was recorded.
ResultsStand ==
    [][\A i \in Jobs :
          status[i] \in Result =>
              \/ status'[i] = status[i]
              \/ status'[i] = "stopped" /\ \E s \in Stoppers : stopper[s] = At("save", i)]_vars

\* Every job of an address gives the address back, whatever fails on its way: an
\* enqueued address can be enqueued anew, unless there is no worker at all.
KeysReleased ==
    \A a \in Addresses :
        active[a] # NoJob /\ phase # "dead" ~> active[a] = NoJob \/ phase = "dead"

\* Jobs that their Enqueue call, the queue or the worker may still write.
Open == {i \in Jobs : \/ \E e \in Enqueuers : sender[e].job = i
                      \/ Queued(i)
                      \/ worker.job = i /\ worker.pc # "release"}

Service == INSTANCE SyncService WITH open <- Open

\* The manager keeps the promise the trace manager is built on: whatever happens
\* between its goroutines, its documents and keys move as SyncService says.
ImplementsService == Service!Spec

Stopped(i) == \E s \in Stoppers : stopper[s].job = i
Stays == <>[](phase = "serving") /\ []reachable

\* While the database answers and the process ends up running, every job that
\* nobody stops gets a final status, also the ones an earlier process left behind
\* and the ones the start-up sweep failed too early.
JobsEnd ==
    Stays => \A i \in Jobs : []~Stopped(i) => <>[](status[i] \notin Live)

\* The documentation's statement, stopped jobs included: cancellation becomes an
\* explicit status of the job.
StoppedJobsEnd ==
    Stays => \A i \in Jobs : <>[](status[i] \notin Live)
-----------------------------------------------------------------------------
(* The inductive invariant behind KeysMatch and ResultsStand.                *)

\* A job is in one pair of hands: one Enqueue call's, one place of the queue, or
\* the worker's.
OneHolder ==
    /\ \A e, f \in Enqueuers : sender[e].job = sender[f].job /\ sender[e] # Idle => e = f
    /\ \A k, m \in DOMAIN queue : queue[k] = queue[m] => k = m
    /\ \A e \in Enqueuers, k \in DOMAIN queue : sender[e].job # queue[k]
    /\ \A e \in Enqueuers : sender[e] # Idle => sender[e].job # worker.job
    /\ \A k \in DOMAIN queue : queue[k] # worker.job

\* Nobody holds a job that has not been created.
Fresh ==
    /\ \A i \in Jobs : i > created => status[i] = "none"
    /\ \A e \in Enqueuers : sender[e].job <= created
    /\ \A k \in DOMAIN queue : queue[k] <= created
    /\ \A s \in Stoppers : stopper[s].job <= created
    /\ worker.job <= created

\* A job with a result is out of every hand but the worker's that is letting it go.
ResultsUnheld ==
    /\ \A e \in Enqueuers : sender[e] # Idle => status[sender[e].job] \notin Result
    /\ \A k \in DOMAIN queue : status[queue[k]] \notin Result
    /\ worker.pc \in {"load", "mark", "work"} => status[worker.job] \notin Result

IInv == TypeOK /\ KeysMatch /\ OneHolder /\ Fresh /\ ResultsUnheld

\* What ImplementsService needs besides: the documents are those of the jobs created.
Known == \A i \in Jobs : i <= created => status[i] # "none"
=============================================================================
