------------------------------ MODULE TraceJobs ------------------------------
(***************************************************************************)
(* The trace manager (tracer/manager.go) on top of the sync service: HTTP  *)
(* goroutines that enqueue, extend and stop traces, the one trace worker,  *)
(* which enqueues sync jobs and polls them, and the trace_jobs collection. *)
(*                                                                         *)
(* An extension grows a finished root trace by the neighbourhood of one of *)
(* its addresses.  result[i] tells whose findings the result of i holds:   *)
(* its own, and those of the extensions merged into it.  What a traversal  *)
(* finds is a choice, except that a root's cannot start from a seed that   *)
(* is not synced.  Every save replaces the whole document with its         *)
(* writer's copy.                                                          *)
(***************************************************************************)
EXTENDS Naturals, Sequences, FiniteSets

CONSTANTS
    Addresses,
    Variants,       \* direction, depth and asset of a query
    Windows,        \* block ranges a traversal may ask for
    Enqueuers,      \* goroutines that call Enqueue or EnqueueExtension
    Stoppers,       \* goroutines that call Stop
    QueueSize,      \* 100 in the code
    MaxTraces,      \* bound: trace jobs ever created
    MaxSyncs        \* bound: sync jobs ever created

ASSUME ConstantsAssumption ==
    /\ Addresses # {} /\ Variants # {}
    /\ QueueSize \in Nat \ {0}
    /\ MaxTraces \in Nat /\ MaxSyncs \in Nat

Traces == 1 .. MaxTraces
NoTrace == 0
Syncs == 1 .. MaxSyncs
NoSync == 0

\* What a traversal may find missing: a window of an address, or, for the seed
\* itself, all that is configured.
Whole == "whole"
Dependencies == Addresses \X (Windows \cup {Whole})

VARIABLES
    syncStatus, syncAddr, syncCreated, syncActive, syncOpen,
    book        \* address documents: "synced" over the required range, "high" frequency, or "open"

syncVars == <<syncStatus, syncAddr, syncCreated, syncActive, syncOpen, book>>

Sync == INSTANCE SyncService
        WITH MaxJobs <- MaxSyncs, status <- syncStatus, addr <- syncAddr,
             created <- syncCreated, active <- syncActive, open <- syncOpen

Live   == {"queued", "waiting_sync", "running"}
Result == {"succeeded", "partial"}
Ended  == Result \cup {"failed", "stopped"}

VARIABLES
    reachable,  \* the database answers
    phase,      \* of Manager.Run: "starting", "serving", "dead"
    status,     \* trace documents, "none" before their creation
    seed,       \* SeedAddress of a root, ExtensionAddress of an extension
    variant,
    root,       \* the root of an extension
    syncs,      \* SyncJobIDs
    result,     \* whose findings the result holds
    created,    \* traces created so far
    active,     \* Manager.active: query -> trace,
    extending,  \* and root -> extension
    queue,      \* Manager.queue
    sender,     \* Enqueue and EnqueueExtension calls past their critical section
    stopper,    \* Stop calls past their read
    worker,     \* place and job of Manager.process, and its local variables
    cancelled   \* the context of the job in process is cancelled

docVars  == <<status, syncs, result>>
newVars  == <<seed, variant, root, created>>
keyVars  == <<active, extending>>
callVars == <<queue, sender, stopper>>
vars == <<syncVars, reachable, phase, docVars, newVars, keyVars, callVars, worker, cancelled>>

Idle == [pc |-> "idle", job |-> NoTrace]
At(place, i) == [pc |-> place, job |-> i]
NotStopping == [pc |-> "idle", job |-> NoTrace, ids |-> {}, sync |-> NoSync]

\* The worker's local variables: its copy of SyncJobIDs, the sync job it waits for
\* and the address it is for, the dependencies attempted, the addresses given up,
\* whether the outcome is partial, its copy of the result, and an extension's copy
\* of its root.
NoRoot == [status |-> "none", syncs |-> {}, result |-> {}]
Working(place, i) ==
    [pc |-> place, job |-> i, ids |-> {}, wait |-> NoSync, need |-> CHOOSE a \in Addresses : TRUE,
     tried |-> {}, lost |-> {}, partial |-> FALSE, out |-> {}, base |-> NoRoot]
Resting == Working("idle", NoTrace)

Job == worker.job
IsRoot(i) == root[i] = NoTrace
Query(i) == <<seed[i], variant[i]>>

Init ==
    /\ Sync!Init
    /\ book = [a \in Addresses |-> "open"]
    /\ reachable = TRUE
    /\ phase = "starting"
    /\ status = [i \in Traces |-> "none"]
    /\ seed = [i \in Traces |-> CHOOSE a \in Addresses : TRUE]
    /\ variant = [i \in Traces |-> CHOOSE v \in Variants : TRUE]
    /\ root = [i \in Traces |-> NoTrace]
    /\ syncs = [i \in Traces |-> {}]
    /\ result = [i \in Traces |-> {}]
    /\ created = 0
    /\ active = [q \in Addresses \X Variants |-> NoTrace]
    /\ extending = [r \in Traces |-> NoTrace]
    /\ queue = <<>>
    /\ sender = [e \in Enqueuers |-> Idle]
    /\ stopper = [s \in Stoppers |-> NotStopping]
    /\ worker = Resting
    /\ cancelled = FALSE

\* A save: the document becomes its writer's copy.
Save(i, st, ids, out) ==
    /\ status' = [status EXCEPT ![i] = st]
    /\ syncs' = [syncs EXCEPT ![i] = ids]
    /\ result' = [result EXCEPT ![i] = out]
-----------------------------------------------------------------------------
(* Enqueue and EnqueueExtension *)

Create(e, a, v, r) ==
    /\ sender[e] = Idle
    /\ reachable /\ created < MaxTraces
    /\ created' = created + 1
    /\ status' = [status EXCEPT ![created'] = "queued"]
    /\ seed' = [seed EXCEPT ![created'] = a]
    /\ variant' = [variant EXCEPT ![created'] = v]
    /\ root' = [root EXCEPT ![created'] = r]
    /\ sender' = [sender EXCEPT ![e] = At("send", created')]
    /\ UNCHANGED <<syncVars, reachable, phase, syncs, result, queue, stopper, worker, cancelled>>

\* A query with a key gets the trace that holds it (and nothing changes).
Enqueue(e, a, v) ==
    /\ active[<<a, v>>] = NoTrace
    /\ Create(e, a, v, NoTrace)
    /\ active' = [active EXCEPT ![<<a, v>>] = created']
    /\ UNCHANGED extending

\* The root is read, and the key taken, one extension of a root at a time.
EnqueueExtension(e, r, a) ==
    /\ IsRoot(r) /\ status[r] \in Result
    /\ extending[r] = NoTrace
    /\ Create(e, a, variant[r], r)
    /\ extending' = [extending EXCEPT ![r] = created']
    /\ UNCHANGED active

Sending == UNCHANGED <<syncVars, reachable, phase, docVars, newVars, stopper, worker, cancelled>>

Send(e) ==
    /\ sender[e].pc = "send"
    /\ Len(queue) < QueueSize
    /\ queue' = Append(queue, sender[e].job)
    /\ sender' = [sender EXCEPT ![e] = Idle]
    /\ Sending /\ UNCHANGED keyVars

ReleaseKey(i) ==
    IF IsRoot(i) THEN active' = [active EXCEPT ![Query(i)] = NoTrace] /\ UNCHANGED extending
    ELSE extending' = [extending EXCEPT ![root[i]] = NoTrace] /\ UNCHANGED active

\* Mutant of QueueFull: the key is kept.
QueueFullKeepingKey(e) ==
    /\ sender[e].pc = "send"
    /\ Len(queue) = QueueSize
    /\ sender' = [sender EXCEPT ![e] = Idle]
    /\ Sending /\ UNCHANGED <<keyVars, queue>>

\* No room: the key is given back, and the document stays queued.
QueueFull(e) ==
    /\ sender[e].pc = "send"
    /\ Len(queue) = QueueSize
    /\ ReleaseKey(sender[e].job)
    /\ sender' = [sender EXCEPT ![e] = Idle]
    /\ Sending /\ UNCHANGED queue
-----------------------------------------------------------------------------
(* Stop *)

Unheard == UNCHANGED <<reachable, phase, newVars, keyVars, queue, sender, worker>>

\* A stop of a root that has ended is one of its latest extension.
Target(i) ==
    LET extensions == {e \in Traces : root[e] = i /\ e <= created} IN
    IF status[i] \in Live \/ ~IsRoot(i) \/ extensions = {} THEN i
    ELSE CHOOSE e \in extensions : \A f \in extensions : f <= e

StopRead(s, i) ==
    /\ stopper[s] = NotStopping
    /\ reachable
    /\ status[Target(i)] \in Live
    /\ stopper' = [stopper EXCEPT ![s] =
                     [pc |-> "save", job |-> Target(i), ids |-> syncs[Target(i)], sync |-> NoSync]]
    /\ Unheard /\ UNCHANGED <<syncVars, docVars, cancelled>>

StopSave(s) ==
    /\ stopper[s].pc = "save"
    /\ IF reachable
       THEN /\ Save(stopper[s].job, "stopped", stopper[s].ids, {})
            /\ stopper' = [stopper EXCEPT ![s].pc = "cancel"]
       ELSE /\ stopper' = [stopper EXCEPT ![s] = NotStopping]
            /\ UNCHANGED docVars
    /\ Unheard /\ UNCHANGED <<syncVars, cancelled>>

StopCancel(s) ==
    /\ stopper[s].pc = "cancel"
    /\ cancelled' = (cancelled \/ Job = stopper[s].job)
    /\ stopper' = [stopper EXCEPT ![s].pc = "sync"]
    /\ Unheard /\ UNCHANGED <<syncVars, docVars>>

\* The sync jobs of the copy are stopped one by one; an error is dropped.
StopSyncRead(s) ==
    /\ stopper[s].pc = "sync"
    /\ \/ /\ stopper[s].ids = {}
          /\ stopper' = [stopper EXCEPT ![s] = NotStopping]
       \/ \E k \in stopper[s].ids :
             LET rest == [stopper[s] EXCEPT !.ids = @ \ {k}] IN
             stopper' = [stopper EXCEPT ![s] =
                IF reachable /\ syncStatus[k] \in Sync!Live
                THEN [rest EXCEPT !.pc = "syncsave", !.sync = k] ELSE rest]
    /\ Unheard /\ UNCHANGED <<syncVars, docVars, cancelled>>

StopSyncSave(s) ==
    /\ stopper[s].pc = "syncsave"
    /\ IF reachable
       THEN /\ Sync!Stop(stopper[s].sync)
            /\ book' = [book EXCEPT ![syncAddr[stopper[s].sync]] = "open"]
       ELSE UNCHANGED syncVars
    /\ stopper' = [stopper EXCEPT ![s].pc = "sync", ![s].sync = NoSync]
    /\ Unheard /\ UNCHANGED <<docVars, cancelled>>
-----------------------------------------------------------------------------
(* Manager.Run *)

\* FailInterruptedTraceJobs; when it fails the server goes on without a worker.
Recover ==
    /\ phase = "starting"
    /\ phase' = IF reachable THEN "serving" ELSE "dead"
    /\ status' = IF reachable
                 THEN [i \in Traces |-> IF status[i] \in Live THEN "failed" ELSE status[i]]
                 ELSE status
    /\ UNCHANGED <<syncVars, reachable, syncs, result, newVars, keyVars, callVars, worker, cancelled>>

Receive ==
    /\ phase = "serving"
    /\ worker = Resting /\ queue # <<>>
    /\ worker' = Working("load", Head(queue))
    /\ queue' = Tail(queue)
    /\ UNCHANGED <<syncVars, reachable, phase, docVars, newVars, keyVars, sender, stopper, cancelled>>

\* The next place; local variables that are not read there are reset.
Goto(place) ==
    worker' = CASE place = "release" -> Working(place, Job)
                [] place \in {"fail", "failsave"} ->
                      [Working(place, Job) EXCEPT !.ids = worker.ids, !.out = worker.out]
                [] OTHER -> [worker EXCEPT !.pc = place]

\* Steps of the worker that write documents, and those that do not even that.
Writing == UNCHANGED <<syncVars, reachable, phase, newVars, keyVars, callVars, cancelled>>
Silent == Writing /\ UNCHANGED docVars

\* The document is read: an unreadable job gives its key back, a stopped root returns
\* before that is deferred.
Load ==
    /\ worker.pc = "load"
    /\ IF reachable /\ status[Job] # "stopped"
       THEN /\ worker' = [worker EXCEPT !.pc = IF IsRoot(Job) THEN "begin" ELSE "root",
                                        !.ids = syncs[Job], !.need = seed[Job]]
            /\ UNCHANGED <<keyVars, cancelled>>
       ELSE /\ IF reachable /\ IsRoot(Job) THEN UNCHANGED keyVars ELSE ReleaseKey(Job)
            /\ worker' = Resting
            /\ cancelled' = FALSE
    /\ UNCHANGED <<syncVars, reachable, phase, docVars, newVars, callVars>>

\* Roots save with the server's context, extensions with the job's.
Serves == reachable /\ (IsRoot(Job) \/ ~cancelled)

\* save, or fail
SaveStep(place, st, then) ==
    /\ worker.pc = place
    /\ IF Serves THEN Save(Job, st, worker.ids, worker.out) /\ Goto(then)
                 ELSE Goto("fail") /\ UNCHANGED docVars
    /\ Writing

\* An extension's first read of its root.
ReadRoot ==
    /\ worker.pc = "root"
    /\ Goto(IF Serves THEN "begin" ELSE "fail")
    /\ Silent

Begin == SaveStep("begin", "waiting_sync", IF IsRoot(Job) THEN "seed" ELSE "ask")

\* The seed's document is read; a high-frequency seed is not synchronised again.
ReadSeed ==
    /\ worker.pc = "seed"
    /\ \/ reachable /\ ~cancelled /\ book[seed[Job]] # "high" /\ Goto("ask")
       \/ /\ reachable /\ ~cancelled /\ book[seed[Job]] = "high"
          /\ worker' = [worker EXCEPT !.pc = "mark", !.partial = TRUE]
       \/ ~(reachable /\ ~cancelled) /\ Goto("fail")
    /\ Silent

\* syncJobs.Enqueue: the job that holds the address's key, a new one, or an error.  (A
\* job created and rejected by a full sync queue is nobody's, and left out.)
Ask ==
    /\ worker.pc = "ask"
    /\ \/ /\ Serves /\ syncActive[worker.need] # NoSync
          /\ worker' = [worker EXCEPT !.pc = "note", !.wait = syncActive[worker.need]]
          /\ UNCHANGED syncVars
       \/ /\ Serves /\ Sync!Enqueue(worker.need)
          /\ worker' = [worker EXCEPT !.pc = "note", !.wait = syncCreated']
          /\ UNCHANGED book
       \/ Goto("fail") /\ UNCHANGED syncVars
    /\ UNCHANGED <<reachable, phase, docVars, newVars, keyVars, callVars, cancelled>>

\* The sync job's id is saved with the trace.
Note ==
    /\ worker.pc = "note"
    /\ LET ids == worker.ids \cup {worker.wait} IN
       IF Serves THEN /\ Save(Job, "waiting_sync", ids, worker.out)
                      /\ worker' = [worker EXCEPT !.pc = "wait", !.ids = ids]
                 ELSE /\ worker' = [Working("fail", Job) EXCEPT !.ids = ids, !.out = worker.out]
                      /\ UNCHANGED docVars
    /\ Writing

FirstWait == worker.tried = {}

SyncEnds(st) ==
    worker' = [worker EXCEPT !.pc = IF FirstWait THEN "mark" ELSE "trace", !.wait = NoSync,
                             !.partial = @ \/ (IsRoot(Job) /\ st = "partial")]

\* Mutant of Poll: a failed sync job ends the wait like any other.
PollIgnoringFailure ==
    /\ worker.pc = "wait"
    /\ LET st == syncStatus[worker.wait] IN
       \/ cancelled /\ Goto(IF IsRoot(Job) \/ FirstWait THEN "release" ELSE "fail")
       \/ ~cancelled /\ ~reachable /\ Goto("fail")
       \/ ~cancelled /\ reachable /\ st \in Sync!Result \cup {"failed"} /\ SyncEnds(st)
    /\ Silent

\* waitSync: one look at the sync job that ends the wait.
Poll ==
    /\ worker.pc = "wait"
    /\ LET st == syncStatus[worker.wait] IN
       \/ cancelled /\ Goto(IF IsRoot(Job) \/ FirstWait THEN "release" ELSE "fail")
       \/ ~cancelled /\ ~reachable /\ Goto("fail")
       \/ ~cancelled /\ reachable /\ st \in Sync!Result /\ SyncEnds(st)
       \/ ~cancelled /\ reachable /\ st = "failed" /\ Goto("fail")
    /\ Silent

Mark == SaveStep("mark", "running", "trace")

\* Mutant of Miss: a dependency is synchronised as often as it is asked for.
MissRetrying(d) == worker' = [worker EXCEPT !.pc = "again", !.tried = @ \cup {d}, !.need = d[1]]

\* A dependency that is asked for again is given up.
Miss(d) ==
    worker' = IF d \in worker.tried
              THEN [worker EXCEPT !.lost = @ \cup {d[1]}, !.partial = @ \/ IsRoot(Job)]
              ELSE [worker EXCEPT !.pc = "again", !.tried = @ \cup {d}, !.need = d[1]]

\* Graph.Trace or ExtendBranch: the seed comes first, given up or not; then any
\* address not given up may be missing.
Traverse ==
    /\ worker.pc = "trace"
    /\ IF cancelled \/ ~reachable THEN Goto("fail")
       ELSE IF IsRoot(Job) /\ book[seed[Job]] = "open" THEN Miss(<<seed[Job], Whole>>)
       ELSE \/ \E a \in Addresses \ worker.lost, w \in Windows : Miss(<<a, w>>)
            \/ IsRoot(Job) /\ worker' = [worker EXCEPT !.pc = "finish", !.out = {Job}]
            \/ /\ ~IsRoot(Job)
               /\ \E p \in BOOLEAN : worker' = [worker EXCEPT !.pc = "reread", !.partial = p]
    /\ Silent

\* An error of the explorer or of the analysis.
TraverseFails ==
    /\ worker.pc = "trace"
    /\ Goto("fail")
    /\ Silent

Again == SaveStep("again", "waiting_sync", "ask")

Outcome == IF worker.partial THEN "partial" ELSE "succeeded"

Finish == SaveStep("finish", Outcome, "release")

\* The root is read again,
Reread ==
    /\ worker.pc = "reread"
    /\ LET r == root[Job] IN
       IF Serves
       THEN worker' = [worker EXCEPT !.pc = "merge",
                          !.base = [status |-> status[r], syncs |-> syncs[r], result |-> result[r]]]
       ELSE Goto("fail")
    /\ Silent

\* Mutant of Merge: the extension replaces the root's result.
MergeReplacing ==
    /\ worker.pc = "merge"
    /\ IF Serves
       THEN /\ Save(root[Job], IF worker.partial THEN "partial" ELSE worker.base.status,
                    worker.base.syncs, {Job})
            /\ worker' = [worker EXCEPT !.pc = "close", !.out = {Job}, !.base = NoRoot]
       ELSE Goto("fail") /\ UNCHANGED docVars
    /\ Writing

\* Mutant of Merge: a failed save of the root is ignored.
MergeUnsaved ==
    /\ worker.pc = "merge"
    /\ worker' = [worker EXCEPT !.pc = "close", !.out = {Job}, !.base = NoRoot]
    /\ IF Serves
       THEN Save(root[Job], IF worker.partial THEN "partial" ELSE worker.base.status,
                 worker.base.syncs, worker.base.result \cup {Job})
       ELSE UNCHANGED docVars
    /\ Writing

\* the extension merged into it, and the whole document written back.
Merge ==
    /\ worker.pc = "merge"
    /\ IF Serves
       THEN /\ Save(root[Job], IF worker.partial THEN "partial" ELSE worker.base.status,
                    worker.base.syncs, worker.base.result \cup {Job})
            /\ worker' = [worker EXCEPT !.pc = "close", !.out = {Job}, !.base = NoRoot]
       ELSE Goto("fail") /\ UNCHANGED docVars
    /\ Writing

Close == SaveStep("close", Outcome, "release")

\* fail: a job that reads stopped stays so.
Fail ==
    /\ worker.pc = "fail"
    /\ Goto(IF reachable /\ status[Job] = "stopped" THEN "release" ELSE "failsave")
    /\ Silent

FailSave ==
    /\ worker.pc = "failsave"
    /\ IF reachable THEN Save(Job, "failed", worker.ids, worker.out) ELSE UNCHANGED docVars
    /\ Goto("release")
    /\ Writing

\* Mutant of Release: the worker keeps its job.
ReleaseKeepingJob ==
    /\ worker.pc = "release"
    /\ ReleaseKey(Job)
    /\ worker' = Working("idle", Job)
    /\ cancelled' = FALSE
    /\ UNCHANGED <<syncVars, reachable, phase, docVars, newVars, callVars>>

\* The deferred calls of process and processExtension.
Release ==
    /\ worker.pc = "release"
    /\ ReleaseKey(Job)
    /\ worker' = Resting
    /\ cancelled' = FALSE
    /\ UNCHANGED <<syncVars, reachable, phase, docVars, newVars, callVars>>
-----------------------------------------------------------------------------
(* The environment *)

Others == UNCHANGED <<reachable, phase, docVars, newVars, keyVars, callVars, worker, cancelled>>

\* Other clients enqueue sync jobs, and the sync worker goes about its work: a job that
\* runs changes its own address and those it finds.  (A job whose narrow window leaves
\* its address open although it succeeds is left out.)
SyncEnqueue(a) == Sync!Enqueue(a) /\ UNCHANGED book /\ Others

SyncRun(k) ==
    /\ Sync!Run(k)
    /\ book' \in [Addresses -> {"open", "synced", "high"}]
    /\ Others

SyncFinish(k, st) ==
    /\ Sync!Finish(k, st)
    /\ \E mark \in CASE st = "succeeded" -> {"synced"}
                     [] st = "partial"   -> {"synced", "high"}
                     [] st = "failed"    -> {"open", book[syncAddr[k]]} :
          book' = [book EXCEPT ![syncAddr[k]] = mark]
    /\ Others

SyncLetsGo ==
    /\ \/ \E k \in Syncs : Sync!Abandon(k)
       \/ \E a \in Addresses : syncActive[a] \notin syncOpen /\ Sync!Release(a)
       \/ Sync!Sweep
    /\ UNCHANGED book /\ Others

\* The process dies and is started again.
Crash ==
    /\ Sync!Restart
    /\ phase' = "starting"
    /\ active' = [q \in Addresses \X Variants |-> NoTrace]
    /\ extending' = [r \in Traces |-> NoTrace]
    /\ queue' = <<>>
    /\ sender' = [e \in Enqueuers |-> Idle]
    /\ stopper' = [s \in Stoppers |-> NotStopping]
    /\ worker' = Resting
    /\ cancelled' = FALSE
    /\ UNCHANGED <<book, reachable, docVars, newVars>>

Outage ==
    /\ reachable' = ~reachable
    /\ UNCHANGED <<syncVars, phase, docVars, newVars, keyVars, callVars, worker, cancelled>>
-----------------------------------------------------------------------------
SendStep(e) == Send(e) \/ QueueFull(e)
StopStep(s) == StopSave(s) \/ StopCancel(s) \/ StopSyncRead(s) \/ StopSyncSave(s)
WorkerStep ==
    \/ Receive \/ Load \/ ReadRoot \/ Begin \/ ReadSeed \/ Ask \/ Note \/ Poll \/ Mark
    \/ Traverse \/ Again \/ Finish \/ Reread \/ Merge \/ Close \/ Fail \/ FailSave \/ Release

SyncStep ==
    \/ \E a \in Addresses : SyncEnqueue(a)
    \/ \E k \in Syncs : SyncRun(k) \/ \E st \in Sync!Result \cup {"failed"} : SyncFinish(k, st)
    \/ SyncLetsGo

Next ==
    \/ \E e \in Enqueuers, a \in Addresses :
          \/ \E v \in Variants : Enqueue(e, a, v)
          \/ \E r \in 1 .. created : EnqueueExtension(e, r, a)
    \/ \E e \in Enqueuers : SendStep(e)
    \/ \E s \in Stoppers : (\E i \in 1 .. created : StopRead(s, i)) \/ StopStep(s)
    \/ Recover \/ WorkerStep \/ TraverseFails
    \/ SyncStep
    \/ Crash \/ Outage

\* Goroutines are scheduled.  Nothing is assumed of clients, of the sync worker, or of
\* errors.
Fairness ==
    /\ \A e \in Enqueuers : WF_vars(SendStep(e))
    /\ \A s \in Stoppers : WF_vars(StopStep(s))
    /\ WF_vars(Recover)
    /\ WF_vars(WorkerStep)

Spec == Init /\ [][Next]_vars /\ Fairness
-----------------------------------------------------------------------------
Places ==
    {"idle", "load", "root", "begin", "seed", "ask", "note", "wait", "mark", "trace", "again",
     "finish", "reread", "merge", "close", "fail", "failsave", "release"}
Documents == [status : {"none"} \cup Live \cup Ended, syncs : SUBSET Syncs, result : SUBSET Traces]

\* Every variable has its type; a worker at rest has forgotten its last job.
TypeOK ==
    /\ syncStatus \in [Syncs -> {"none", "failed", "stopped"} \cup Sync!Live \cup Sync!Result]
    /\ syncAddr \in [Syncs -> Addresses] /\ syncActive \in [Addresses -> 0 .. MaxSyncs]
    /\ syncCreated \in 0 .. MaxSyncs /\ syncOpen \subseteq Syncs
    /\ book \in [Addresses -> {"open", "synced", "high"}]
    /\ reachable \in BOOLEAN /\ cancelled \in BOOLEAN
    /\ phase \in {"starting", "serving", "dead"}
    /\ status \in [Traces -> {"none"} \cup Live \cup Ended]
    /\ seed \in [Traces -> Addresses] /\ variant \in [Traces -> Variants]
    /\ root \in [Traces -> 0 .. MaxTraces]
    /\ syncs \in [Traces -> SUBSET Syncs]
    /\ result \in [Traces -> SUBSET Traces]
    /\ created \in 0 .. MaxTraces
    /\ active \in [Addresses \X Variants -> 0 .. MaxTraces]
    /\ extending \in [Traces -> 0 .. MaxTraces]
    /\ queue \in Seq(Traces) /\ Len(queue) <= QueueSize
    /\ sender \in [Enqueuers -> [pc : {"send"}, job : Traces] \cup {Idle}]
    /\ stopper \in [Stoppers -> [pc : {"save", "cancel", "sync", "syncsave"}, job : Traces,
                                 ids : SUBSET Syncs, sync : 0 .. MaxSyncs] \cup {NotStopping}]
    /\ worker \in [pc : Places, job : 0 .. MaxTraces, ids : SUBSET Syncs, wait : 0 .. MaxSyncs,
                   need : Addresses, tried : SUBSET Dependencies, lost : SUBSET Addresses,
                   partial : BOOLEAN, out : SUBSET Traces, base : Documents]
    /\ worker.pc = "idle" => worker = Resting

InHand(i) ==
    \/ \E e \in Enqueuers : sender[e].job = i
    \/ \E k \in DOMAIN queue : queue[k] = i
    \/ Job = i

Holds(i) == IF IsRoot(i) THEN active[Query(i)] = i ELSE extending[root[i]] = i

\* A trace that is on its way or in process holds its key, so that no query is traced
\* twice at a time and no root extended by two at once; a key that is held without
\* that is a stopped root's, which process forgets to release.
KeysMatch ==
    \A i \in 1 .. created :
        /\ InHand(i) => Holds(i)
        /\ Holds(i) => InHand(i) \/ (status[i] = "stopped" /\ IsRoot(i))

\* An extension that ended well is part of its root's result, and an extension on
\* incomplete data has made the root's outcome partial, whatever failed or was stopped
\* meanwhile, unless a late stop has wiped the root.
ExtensionsMerged ==
    \A e \in 1 .. created :
        LET r == root[e] IN
        r # NoTrace /\ status[e] \in Result /\ r \in result[r] =>
            e \in result[r] /\ (status[e] = "partial" => status[r] # "succeeded")

LateStop(i) == \E s \in Stoppers : stopper[s].pc = "save" /\ stopper[s].job = i

\* A recorded outcome is not taken back, and no finding in it is lost: an extension
\* may only add to it and turn it partial, and only a stop that read the job before it
\* ended may replace it.
OutcomesStand ==
    [][\A i \in Traces :
          status[i] \in Result /\ ~LateStop(i) =>
              status'[i] \in {status[i], "partial"} /\ result[i] \subseteq result'[i]]_vars

\* A root that reads succeeded, and not partial, rests on sync jobs that all succeeded
\* (stopped ones among them were stopped after the fact).
SucceededMeansSynced ==
    \A i \in 1 .. created :
        status[i] = "succeeded" /\ IsRoot(i) =>
            \A k \in syncs[i] : syncStatus[k] \in {"succeeded", "stopped"}
-----------------------------------------------------------------------------
(* The inductive invariant behind the theorems: what the properties leave unsaid. *)

\* Extensions and roots have places of their own, and a place knows its job.
Placed ==
    /\ worker.pc # "idle" => Job \in Traces
    /\ worker.pc \in {"root", "reread", "merge", "close"} => ~IsRoot(Job)
    /\ worker.pc \in {"seed", "finish"} => IsRoot(Job)
    /\ worker.pc \in {"note", "wait"} => worker.wait \in Syncs

\* Nobody else has the job a sender, a place in the queue, or the worker has.
OneHolder ==
    /\ \A e \in Enqueuers : sender[e] # Idle =>
          /\ Job # sender[e].job
          /\ \A k \in DOMAIN queue : queue[k] # sender[e].job
          /\ \A f \in Enqueuers : sender[f].job = sender[e].job => f = e
    /\ \A k \in DOMAIN queue :
          queue[k] # Job /\ \A m \in DOMAIN queue : queue[k] = queue[m] => k = m

\* Everybody handles traces that there are, and what there is to come is blank.
Fresh ==
    /\ \A i \in Traces : i > created =>
          status[i] = "none" /\ syncs[i] = {} /\ result[i] = {} /\ root[i] = NoTrace
    /\ \A e \in Enqueuers : sender[e].job <= created
    /\ \A k \in DOMAIN queue : queue[k] <= created
    /\ \A s \in Stoppers : stopper[s].job <= created
    /\ Job <= created
    /\ \A i \in Traces : root[i] # NoTrace => root[i] <= created /\ IsRoot(root[i])

Extended(i) == \E e \in Traces : root[e] = i

\* A trace that has its result, or ever had an extension, is past its last save, and
\* holds its key no longer than the worker takes to give it back.
Past(i) == (InHand(i) => Job = i /\ worker.pc = "release") /\ (Holds(i) => InHand(i))
Done == \A i \in 1 .. created : status[i] \in Result \/ Extended(i) => Past(i)

\* The root that an extension read is the root as it stands, unless it was stopped
\* since; and it has the extensions that ended before.
Based ==
    worker.pc = "merge" =>
        LET r == root[Job] base == worker.base IN
        /\ status[r] \in Result => base.status = status[r] /\ base.result = result[r]
        /\ \A e \in 1 .. created :
              root[e] = r /\ status[e] \in Result /\ r \in base.result =>
                  e \in base.result /\ (status[e] = "partial" => base.status # "succeeded")

\* An extension is merged when it comes to save its own outcome.
Merged ==
    worker.pc = "close" =>
        LET r == root[Job] IN
        r \in result[r] => Job \in result[r] /\ (worker.partial => status[r] # "succeeded")

\* A sync job that succeeded, and maybe was stopped afterwards, for good.
Settled(k) == syncStatus[k] \in {"succeeded", "stopped"} /\ k \notin syncOpen

\* Sync jobs to come are blank, and one that has its result is closed.
SyncsFresh ==
    /\ \A k \in Syncs : k > syncCreated => syncStatus[k] = "none"
    /\ \A k \in syncOpen : k <= syncCreated /\ syncStatus[k] \notin Sync!Result

Unprocessed(i) == InHand(i) /\ (Job = i => worker.pc = "load")
Deciding == worker.pc \notin {"idle", "load", "release", "fail", "failsave"} /\ IsRoot(Job) /\ ~worker.partial

\* A trace comes to the worker without sync jobs, in a stop's copy of it too; those of a root that is not partial
\* so far have succeeded, but for the one it waits for.
Synced ==
    /\ \A i \in 1 .. created : status[i] = "succeeded" /\ IsRoot(i) => \A k \in syncs[i] : Settled(k)
    /\ \A i \in 1 .. created : Unprocessed(i) =>
          /\ syncs[i] = {}
          /\ \A s \in Stoppers : stopper[s].pc = "save" /\ stopper[s].job = i => stopper[s].ids = {}
    /\ Deciding => \A k \in worker.ids : Settled(k) \/ (worker.pc = "wait" /\ k = worker.wait)
    /\ worker.pc = "merge" /\ worker.base.status = "succeeded" => \A k \in worker.base.syncs : Settled(k)

IInv ==
    /\ TypeOK /\ Placed /\ OneHolder /\ Fresh /\ Done /\ KeysMatch
    /\ Based /\ Merged /\ ExtensionsMerged /\ SyncsFresh /\ Synced
-----------------------------------------------------------------------------
Stays == <>[](phase = "serving") /\ []reachable
Queued(i) == \E k \in DOMAIN queue : queue[k] = i
Stopped(i) == \E s \in Stoppers : stopper[s].job = i
SyncsEndIn(ends) == \A k \in Syncs : <>[](syncStatus[k] \in {"none"} \cup ends)
SeedsServed == []<>(worker.pc = "trace" => book[seed[Job]] # "open")

EndsUnlessStopped(i) == <>Queued(i) /\ []~Stopped(i) => <>[](status[i] \notin Live)

\* While the database answers and the process ends up running, if every sync job ends
\* by itself and the seed is synced when it is traced from, every trace that got into
\* the queue and that nobody stops ends: waits, repeated traversals and other traces do
\* not hold it up for ever.
TracesEnd ==
    Stays /\ SyncsEndIn({"succeeded", "partial", "failed"}) /\ SeedsServed =>
        \A i \in Traces : EndsUnlessStopped(i)

\* The same if stopped is an end of a sync job like any other, as the web console
\* has it.
TracesEndAfterStops ==
    Stays /\ SyncsEndIn({"succeeded", "partial", "failed", "stopped"}) /\ SeedsServed =>
        \A i \in Traces : EndsUnlessStopped(i)

\* The same if sync jobs end without progress, as the test
\* TestTraceManagerStopsRetryingDependencyWhenSyncMakesNoProgress has it: a
\* dependency that stays unsynced is given up, and the trace ends.
TracesEndWithoutProgress ==
    Stays /\ SyncsEndIn({"succeeded", "partial", "failed"}) =>
        \A i \in Traces : EndsUnlessStopped(i)
=============================================================================
