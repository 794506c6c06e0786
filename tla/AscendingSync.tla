--------------------------- MODULE AscendingSync ---------------------------
(***************************************************************************)
(* The address synchroniser of syncer/manager.go with                      *)
(* SYNC_MAX_RECORDS_PER_ACTION = 0: every explorer action of an address is *)
(* listed oldest block first (fetchRange), a checkpoint per action moves   *)
(* up with the blocks persisted, and a finished address claims a coverage. *)
(*                                                                         *)
(* One worker goroutine drains the job queue.  A job synchronises its seed *)
(* address, then up to `neighbors` counterparties.  Explorer actions are   *)
(* numbered in the order the code runs them (txlist, txlistinternal,       *)
(* tokentx).  stored[a][x] is the set of blocks all of whose x-records of  *)
(* a are in the transfers collection; synced[a] says whether the address   *)
(* document's syncStatus is "synced", all that this mode reads of it (a    *)
(* failed write of "failed" changes nothing: it is "running" by then).     *)
(***************************************************************************)
EXTENDS Coverage, Sequences, FiniteSets

CONSTANTS
    Addresses,
    NumActions,     \* 3 in the code
    Starts,         \* the startBlocks a request may resolve to
    Ends,           \* the endBlocks a request may resolve to, 0 for "follow the head"
    NeighborLimits, \* the neighborLimits a request may carry
    QueueCap,       \* SYNC_QUEUE_SIZE
    CacheEnabled,   \* SYNC_CACHE_TTL_MINUTES # 0
    Truncates,      \* a listing may reach highFrequencyRecordLimit
    Splits,         \* a listing may fill its pages without a usable resume block
    MinBlock,       \* the safe head when the program is first deployed
    MaxBlock,       \* bound: the highest safe head
    MaxJobs         \* bound: jobs ever created

ASSUME ConstantsAssumption ==
    /\ Addresses # {} /\ IsFiniteSet(Addresses)
    /\ NumActions \in Nat \ {0}
    /\ Starts \subseteq Nat
    /\ Ends \subseteq Nat
    /\ NeighborLimits \subseteq Nat
    /\ QueueCap \in Nat \ {0}
    /\ MinBlock \in Nat /\ MaxBlock \in Nat
    /\ MaxJobs \in Nat
    /\ CacheEnabled \in BOOLEAN
    /\ Truncates \in BOOLEAN
    /\ Splits \in BOOLEAN

Actions == 1 .. NumActions

AnyAddress == CHOOSE a \in Addresses : TRUE

NoCheckpoint  == -1
NoCheckpoints == [x \in Actions |-> NoCheckpoint]
NoProgress    == [act |-> 0, lo |-> 0, hi |-> 0]

VARIABLES
    head,       \* latest block minus the confirmations
    (* the addresses and transfers collections *)
    cover, synced, stored,
    (* the sync_jobs collection and the in-memory queue of job numbers *)
    jobs, queue,
    (* the worker: its place, the job and the address it works on *)
    pc, job, cur, todo,
    (* the job document as the worker holds it, and the checkpoints it was handed *)
    mem, prog, resume,
    (* the job's cached safe head, truncation of cur, partial job, cancelled context *)
    safeHead, trunc, partial, cancelled,
    (* the place inside cur: action, next block, end of the listing and of the gap *)
    act, pos, hi, last, upto, cut

dbVars   == <<cover, synced, stored>>
jobVars  == <<jobs, queue>>
workVars == <<pc, job, cur, todo>>
docVars  == <<mem, prog, resume>>
flagVars == <<safeHead, trunc, partial, cancelled>>
posVars  == <<act, pos, hi, last, upto, cut>>
vars == <<head, dbVars, jobVars, workVars, docVars, flagVars, posVars>>

JobStatus == {"queued", "running", "succeeded", "partial", "failed", "stopped"}
-----------------------------------------------------------------------------
(* Checkpoints a new job inherits *)

\* Mutant of Legacy: the last listing reported is taken to have come in.
LegacyPastReport(j) ==
    [x \in Actions |-> IF x <= j.prog.act /\ j.prog.hi >= j.start THEN j.prog.hi ELSE NoCheckpoint]

\* legacySyncCheckpoints: guessed from the last listing reported.
Legacy(j) ==
    [x \in Actions |->
        IF x < j.prog.act /\ j.prog.hi >= j.start THEN j.prog.hi
        ELSE IF x = j.prog.act /\ j.prog.lo > j.start THEN j.prog.lo - 1
        ELSE NoCheckpoint]

Checkpoints(j) == IF j.ckpt = NoCheckpoints THEN Legacy(j) ELSE j.ckpt

\* FindSyncCheckpoints: the newest job with this address and startBlock, only
\* when it failed or was stopped.  Its endBlock is not compared.
Matching(a, s) == {i \in DOMAIN jobs : jobs[i].addr = a /\ jobs[i].start = s}
FindSyncCheckpoints(a, s) ==
    IF \E i \in Matching(a, s) :
          /\ \A k \in Matching(a, s) : k <= i
          /\ jobs[i].status \in {"failed", "stopped"}
    THEN Checkpoints(jobs[CHOOSE i \in Matching(a, s) : \A k \in Matching(a, s) : k <= i])
    ELSE NoCheckpoints
-----------------------------------------------------------------------------
Init ==
    /\ head = MinBlock
    /\ cover  = [a \in Addresses |-> [x \in Actions |-> NoCoverage]]
    /\ synced = [a \in Addresses |-> FALSE]
    /\ stored = [a \in Addresses |-> [x \in Actions |-> {}]]
    /\ jobs = <<>> /\ queue = <<>>
    /\ pc = "idle" /\ job = 0 /\ cur = AnyAddress /\ todo = {}
    /\ mem = NoCheckpoints /\ prog = NoProgress /\ resume = NoCheckpoints
    /\ safeHead = -1 /\ trunc = FALSE /\ partial = FALSE /\ cancelled = FALSE
    /\ act = 1 /\ pos = 0 /\ hi = 0 /\ last = 0 /\ upto = 0 /\ cut = FALSE

\* A function's local variables end with it.
LeaveAddress ==
    act' = 1 /\ pos' = 0 /\ hi' = 0 /\ last' = 0 /\ upto' = 0 /\ cut' = FALSE /\ trunc' = FALSE

LeaveJob ==
    /\ pc' = "idle" /\ job' = 0 /\ cur' = AnyAddress /\ todo' = {}
    /\ mem' = NoCheckpoints /\ prog' = NoProgress /\ resume' = NoCheckpoints
    /\ safeHead' = -1 /\ partial' = FALSE /\ cancelled' = FALSE
-----------------------------------------------------------------------------
(* Environment: the chain, the HTTP clients, the process *)

\* Manager.active holds the addresses of the jobs queued and of the job in process.
Active(a) ==
    \/ \E i \in DOMAIN queue : jobs[queue[i]].addr = a
    \/ pc # "idle" /\ jobs[job].addr = a

NewJob(a, s, e, n, st) ==
    [addr |-> a, start |-> s, end |-> e, neighbors |-> n, status |-> st,
     ckpt |-> FindSyncCheckpoints(a, s), prog |-> NoProgress, safe |-> -1]

\* Enqueue of an address with no active job; the job is rejected when the queue
\* is full, and stays in the collection as a failed one.
Enqueue(a, s, e, n) ==
    /\ Len(jobs) < MaxJobs
    /\ e > 0 => e >= s
    /\ ~Active(a)
    /\ \/ /\ Len(queue) < QueueCap
          /\ jobs' = Append(jobs, NewJob(a, s, e, n, "queued"))
          /\ queue' = Append(queue, Len(jobs) + 1)
       \/ /\ Len(queue) = QueueCap
          /\ jobs' = Append(jobs, NewJob(a, s, e, n, "failed"))
          /\ UNCHANGED queue
    /\ UNCHANGED <<head, dbVars, workVars, docVars, flagVars, posVars>>

\* Manager.Stop, reached from the trace manager.  When FailAddressSync fails
\* the caller gets the error and the worker is not cancelled.
Stop(i) ==
    /\ jobs[i].status \in {"queued", "running"}
    /\ jobs' = [jobs EXCEPT ![i].status = "stopped"]
    /\ \/ UNCHANGED <<synced, cancelled>>
       \/ /\ synced' = [synced EXCEPT ![jobs[i].addr] = FALSE]
          /\ cancelled' = (cancelled \/ (pc # "idle" /\ job = i))
    /\ UNCHANGED <<head, cover, stored, queue, workVars, docVars, safeHead, trunc, partial, posVars>>

\* The process dies and FailInterruptedJobs runs when it is back.
Crash ==
    /\ pc # "idle" \/ queue # <<>>
    /\ jobs' = [i \in DOMAIN jobs |->
                  IF jobs[i].status \in {"queued", "running"}
                  THEN [jobs[i] EXCEPT !.status = "failed"] ELSE jobs[i]]
    /\ queue' = <<>>
    /\ LeaveAddress /\ LeaveJob
    /\ UNCHANGED <<head, dbVars>>
-----------------------------------------------------------------------------
(* The job document.  SaveSyncJob replaces the whole document with the       *)
(* worker's copy, its status included; saveProgress and finish only log a    *)
(* failed write.                                                             *)

SaveAt(h, st, m, p) ==
    \/ jobs' = [jobs EXCEPT ![job] = [@ EXCEPT !.status = st, !.ckpt = m, !.prog = p, !.safe = h]]
    \/ UNCHANGED jobs

Save(st, m, p) == SaveAt(safeHead, st, m, p)

Request == jobs[job]

WindowEnd(h) == IF Request.end > 0 THEN Lesser(h, Request.end) ELSE h
Want    == <<Request.start, WindowEnd(safeHead)>>
OnSeed  == cur = Request.addr

\* The checkpoint syncAddress reads for an action.  For the seed the map is the
\* job's own progress map, which the listings of this very run move on.
Resume(x) == IF OnSeed THEN mem[x] ELSE resume[x]

\* The seed's neighbours come next, or the next of them.
AddressDone(incomplete) ==
    /\ partial' = (partial \/ incomplete)
    /\ pc' = IF OnSeed THEN "expand" ELSE "done"
    /\ LeaveAddress

\* syncAddress returned an error: the job fails with its seed; a neighbour's
\* failure is noted and the job goes on.
AddressFails(h) ==
    /\ LeaveAddress
    /\ IF OnSeed
       THEN SaveAt(h, "failed", mem, prog) /\ LeaveJob
       ELSE /\ SaveAt(h, "running", mem, prog)
            /\ pc' = "done" /\ partial' = TRUE /\ safeHead' = h
            /\ UNCHANGED <<job, cur, todo, docVars, cancelled>>
    /\ UNCHANGED queue
-----------------------------------------------------------------------------
(* process: the steps of a job *)

\* A job stopped while it waited is dropped, and so is one that cannot be read
\* or marked running; any other starts.
Dequeue ==
    /\ pc = "idle" /\ queue # <<>>
    /\ queue' = Tail(queue)
    /\ \/ UNCHANGED <<jobs, workVars, docVars>>
       \/ /\ jobs[Head(queue)].status # "stopped"
          /\ job' = Head(queue)
          /\ jobs' = [jobs EXCEPT ![Head(queue)].status = "running"]
          /\ cur' = jobs[Head(queue)].addr
          /\ mem' = jobs[Head(queue)].ckpt
          /\ prog' = jobs[Head(queue)].prog
          /\ pc' = "lookup"
          /\ UNCHANGED <<todo, resume>>
    /\ UNCHANGED <<head, dbVars, flagVars, posVars>>

\* The seed is done: TopNeighbors ranks its counterparties.
PickNeighbors ==
    /\ pc = "expand"
    /\ \E T \in SUBSET (Addresses \ {cur}) :
          Cardinality(T) <= Request.neighbors /\ todo' = T
    /\ pc' = "done"
    /\ Save("running", mem, prog)
    /\ UNCHANGED <<head, dbVars, queue, job, cur, docVars, flagVars, posVars>>

StartNeighbor ==
    /\ pc = "done"
    /\ \E n \in todo :
          /\ cur' = n /\ todo' = todo \ {n}
          /\ resume' = FindSyncCheckpoints(n, Request.start)
    /\ pc' = "lookup"
    /\ Save("running", mem, prog)
    /\ UNCHANGED <<head, dbVars, queue, job, mem, prog, flagVars, posVars>>

Finish ==
    /\ pc = "done" /\ todo = {}
    /\ Save(IF partial THEN "partial" ELSE "succeeded", mem, prog)
    /\ LeaveJob
    /\ UNCHANGED <<head, dbVars, queue, trunc, posVars>>

\* TopNeighbors or FindSyncCheckpoints failed.
JobFails ==
    /\ pc \in {"expand", "done"}
    /\ Save("failed", mem, prog)
    /\ LeaveJob
    /\ UNCHANGED <<head, dbVars, queue, trunc, posVars>>

\* The stopped job's context is noticed: the worker leaves without a write.
Abandon ==
    /\ cancelled
    /\ pc \notin {"idle", "expand", "done"}
    /\ LeaveAddress /\ LeaveJob
    /\ UNCHANGED <<head, dbVars, jobVars>>
-----------------------------------------------------------------------------
(* syncAddress: the steps of an address *)

FullCache ==
    /\ synced[cur]
    /\ Valid(Common(cover[cur]))
    /\ \A x \in Actions : Contains(cover[cur][x], <<Request.start, Common(cover[cur])[2]>>)

FixedSnapshotCache ==
    /\ Request.end > 0
    /\ synced[cur]
    /\ \A x \in Actions : Contains(cover[cur][x], <<Request.start, Request.end>>)

\* A fixed snapshot never expires; whether CacheTTL has passed since the address
\* was last synchronised is left open.
LookupCached ==
    /\ pc = "lookup"
    /\ CacheEnabled
    /\ FixedSnapshotCache \/ FullCache
    /\ AddressDone(FALSE)
    /\ UNCHANGED <<head, dbVars, jobVars, job, cur, todo, docVars, safeHead, cancelled>>

\* getSafeHead asks the explorer once per job.
SafeHeads == IF safeHead = -1 THEN head .. MaxBlock ELSE {safeHead}

\* The window up to the safe head must not be empty.
LookupMiss ==
    /\ pc = "lookup"
    /\ ~(CacheEnabled /\ FixedSnapshotCache)
    /\ \E h \in SafeHeads :
          /\ Request.start <= WindowEnd(h)
          /\ safeHead' = h /\ head' = Greater(head, h)
    /\ synced' = [synced EXCEPT ![cur] = FALSE]
    /\ pos' = Request.start
    /\ pc' = "gap"
    /\ UNCHANGED <<cover, stored, jobVars, job, cur, todo, docVars,
                   trunc, partial, cancelled, act, hi, last, upto, cut>>

\* A read fails, the explorer does not answer, the window lies beyond the safe
\* head, or the profile refresh of a cached address fails.
LookupFails ==
    /\ pc = "lookup"
    /\ \E h \in {safeHead} \cup SafeHeads : AddressFails(h) /\ head' = Greater(head, h)
    /\ UNCHANGED dbVars

\* The gaps of the action at hand that start at or after pos, lowest first; a
\* gap below the checkpoint is skipped or cut short.
GapsLeft == {g \in Gaps(Want, cover[cur][act]) : g[1] >= pos}

NextGap ==
    /\ pc = "gap" /\ ~trunc
    /\ \E g \in GapsLeft :
          /\ \A h \in GapsLeft : g[1] <= h[1]
          /\ LET from == Greater(g[1], Resume(act) + 1) IN
             \/ /\ from > g[2]
                /\ pos' = g[2] + 1
                /\ UNCHANGED <<pc, hi, last>>
             \/ /\ from <= g[2]
                /\ pos' = from /\ last' = g[2]
                /\ hi' \in (IF Splits THEN from .. g[2] ELSE {g[2]})
                /\ pc' = "list"
    /\ UNCHANGED <<head, dbVars, jobVars, job, cur, todo, docVars, flagVars, act, upto, cut>>

\* Mutant of NextAction: one action too many.
NextActionPastLast ==
    /\ pc = "gap" /\ ~trunc /\ GapsLeft = {}
    /\ IF act <= NumActions
       THEN act' = act + 1 /\ pos' = Request.start /\ UNCHANGED pc
       ELSE pc' = "complete" /\ UNCHANGED <<act, pos>>
    /\ UNCHANGED <<head, dbVars, jobVars, job, cur, todo, docVars, flagVars, hi, last, upto, cut>>

NextAction ==
    /\ pc = "gap" /\ ~trunc /\ GapsLeft = {}
    /\ IF act < NumActions
       THEN act' = act + 1 /\ pos' = Request.start /\ UNCHANGED pc
       ELSE pc' = "complete" /\ UNCHANGED <<act, pos>>
    /\ UNCHANGED <<head, dbVars, jobVars, job, cur, todo, docVars, flagVars, hi, last, upto, cut>>

\* The pages of pos .. hi come in, each is reported, and the listing ends with
\* all of it, at the page limit with a resume block inside it, or at the record
\* limit (what can be persisted reaches up to `upto`); or at the page limit with
\* no block to resume from, and then a part of the range is listed on its own
\* first (the lower half, or the block pos) and the rest after it.
List ==
    /\ pc = "list"
    /\ prog' = [act |-> act, lo |-> pos, hi |-> hi]
    /\ Save("running", mem, prog')
    /\ \/ pc' = "persist" /\ upto' \in pos .. hi /\ UNCHANGED <<hi, cut>>
       \/ pc' = "persist" /\ Truncates /\ upto' \in pos - 1 .. hi /\ cut' = TRUE /\ UNCHANGED hi
       \/ Splits /\ hi' \in pos .. hi - 1 /\ UNCHANGED <<pc, upto, cut>>
    /\ UNCHANGED <<head, dbVars, queue, job, cur, todo, mem, resume, flagVars, act, pos, last>>

Store(to) == stored' = [stored EXCEPT ![cur][act] = @ \cup (pos .. to)]

Persist ==
    /\ pc = "persist"
    /\ Store(upto)
    /\ pc' = "advance"
    /\ UNCHANGED <<head, cover, synced, jobVars, job, cur, todo, docVars, flagVars, posVars>>

\* A listing or a batch write fails; earlier batches stay.
FetchFails ==
    /\ pc \in {"list", "persist"}
    /\ \/ UNCHANGED stored
       \/ pc = "persist" /\ \E to \in pos .. upto : Store(to)
    /\ UNCHANGED <<head, cover, synced>>
    /\ AddressFails(safeHead)

\* Where the worker goes when everything below p has been asked for.
ResumeAt(p) ==
    /\ pos' = p /\ upto' = 0 /\ cut' = FALSE
    /\ IF p > last
       THEN pc' = "gap" /\ hi' = 0 /\ last' = 0
       ELSE /\ pc' = "list" /\ UNCHANGED last
            /\ hi' \in (IF p <= hi THEN {hi} ELSE IF Splits THEN p .. last ELSE {last})

\* Mutant of MoveCheckpoint: the checkpoint goes to the end of the gap.
MoveCheckpointToEnd(to) == mem' = [mem EXCEPT ![act] = last]

MoveCheckpoint(to) == mem' = [mem EXCEPT ![act] = to]

\* The facts are in: the checkpoint moves and is reported.  The records fetched
\* may reach the limit with listings that were each complete.
Advance ==
    /\ pc = "advance" /\ ~cut
    /\ MoveCheckpoint(upto)
    /\ Save("running", mem', prog)
    /\ ResumeAt(upto + 1)
    /\ trunc' \in {trunc, Truncates}
    /\ UNCHANGED <<head, dbVars, queue, job, cur, todo, prog, resume, safeHead, partial, cancelled, act>>

\* Mutant of AdvanceCut: the checkpoint moves as for a listing that was not cut.
AdvanceCutAsDone ==
    /\ pc = "advance" /\ cut
    /\ trunc' = TRUE
    /\ ResumeAt(hi + 1)
    /\ MoveCheckpoint(hi)
    /\ Save("running", mem', prog)
    /\ UNCHANGED <<head, dbVars, queue, job, cur, todo, prog, resume, safeHead, partial, cancelled, act>>

\* A listing cut by the record limit moves no checkpoint; what is left of the
\* gap is still asked for.
AdvanceCut ==
    /\ pc = "advance" /\ cut
    /\ trunc' = TRUE
    /\ ResumeAt(hi + 1)
    /\ UNCHANGED <<head, dbVars, jobVars, job, cur, todo, docVars, safeHead, partial, cancelled, act>>

\* Between gaps and actions a truncated address goes straight to its end.
StopAtLimit ==
    /\ pc = "gap" /\ trunc
    /\ pc' = "complete"
    /\ UNCHANGED <<head, dbVars, jobVars, job, cur, todo, docVars, flagVars, posVars>>

\* Mutant of Conclude: a truncated address claims its window too.
ConcludeAlways ==
    /\ UNCHANGED stored
    /\ synced' = [synced EXCEPT ![cur] = ~trunc]
    /\ cover' = [cover EXCEPT ![cur] = [x \in Actions |-> Merge(Want, cover[cur][x])]]

\* CompleteAddressSync, or CompleteAddressPartial, which claims nothing
Conclude ==
    /\ UNCHANGED stored
    /\ synced' = [synced EXCEPT ![cur] = ~trunc]
    /\ cover' = IF trunc THEN cover
                ELSE [cover EXCEPT ![cur] = [x \in Actions |-> Merge(Want, cover[cur][x])]]

Complete ==
    /\ pc = "complete"
    /\ Conclude
    /\ AddressDone(trunc)
    /\ UNCHANGED <<head, jobVars, job, cur, todo, docVars, safeHead, cancelled>>

\* The last writes fail, or the profile refresh that follows them does.
CompleteFails ==
    /\ pc = "complete"
    /\ UNCHANGED dbVars \/ (~trunc /\ Conclude)
    /\ AddressFails(safeHead)
    /\ UNCHANGED head
-----------------------------------------------------------------------------
Next ==
    \/ \E a \in Addresses, s \in Starts, e \in Ends, n \in NeighborLimits : Enqueue(a, s, e, n)
    \/ \E i \in DOMAIN jobs : Stop(i)
    \/ Crash
    \/ Dequeue \/ PickNeighbors \/ StartNeighbor \/ Finish \/ JobFails \/ Abandon
    \/ LookupCached \/ LookupMiss \/ LookupFails
    \/ NextGap \/ NextAction \/ StopAtLimit
    \/ List \/ Persist \/ FetchFails \/ Advance \/ AdvanceCut
    \/ Complete \/ CompleteFails

Spec == Init /\ [][Next]_vars
-----------------------------------------------------------------------------
JobRecord ==
    [addr : Addresses, start : Nat, end : Nat, neighbors : Nat, status : JobStatus,
     ckpt : [Actions -> Int], prog : [act : Nat, lo : Int, hi : Int], safe : Int]

\* Every variable has its type.
TypeOK ==
    /\ head \in Nat
    /\ cover  \in [Addresses -> [Actions -> Int \X Int]]
    /\ synced \in [Addresses -> BOOLEAN]
    /\ stored \in [Addresses -> [Actions -> SUBSET Int]]
    /\ jobs \in Seq(JobRecord)
    /\ queue \in Seq(Nat)
    /\ \A i \in DOMAIN queue : queue[i] \in DOMAIN jobs
    /\ pc \in {"idle", "lookup", "gap", "list", "persist", "advance",
               "complete", "expand", "done"}
    /\ pc # "idle" => job \in DOMAIN jobs
    /\ job \in Nat /\ cur \in Addresses /\ todo \subseteq Addresses
    /\ mem \in [Actions -> Int] /\ resume \in [Actions -> Int]
    /\ prog \in [act : Nat, lo : Int, hi : Int]
    /\ safeHead \in Int
    /\ trunc \in BOOLEAN /\ partial \in BOOLEAN /\ cancelled \in BOOLEAN /\ cut \in BOOLEAN
    /\ act \in Actions
    /\ pos \in Int /\ hi \in Int /\ last \in Int /\ upto \in Int

\* No job of the address expands to neighbours: only then are its checkpoints
\* moved by its own listings alone (see SeedCoverageSound).
Alone(a) == \A i \in DOMAIN jobs : jobs[i].addr = a => jobs[i].neighbors = 0

\* What an address document claims for an action is in the transfers collection.
Sound(a) == \A x \in Actions : Claimed(cover[a][x]) \subseteq stored[a][x]

\* Coverage is only ever moved over facts already written (docs/10, 3.1): however
\* a listing was split, failed, was stopped or lost in a crash between the writes,
\* and whatever a later job resumes from, the ranges CompleteAddressSync merges
\* into the address document lie within the blocks whose records are stored.
CoverageSound == \A a \in Addresses : Alone(a) => Sound(a)

\* What FindSyncCheckpoints hands to a retry, explicit or guessed from the last
\* listing (legacySyncCheckpoints), never lies past a block that was not stored.
CheckpointsSound ==
    \A a \in Addresses, s \in Starts :
        Alone(a) => \A x \in Actions : s .. FindSyncCheckpoints(a, s)[x] \subseteq stored[a][x]

\* The window a job lists once it has read the safe head, as its document tells.
Listed(j) == j.start .. (IF j.end > 0 THEN Lesser(j.safe, j.end) ELSE j.safe)

\* A job that ended "succeeded" and says of which safe head has all records of its
\* window stored, whatever it inherited from jobs that failed, were stopped or died, and
\* whether its window ends at the safe head or before it: a trace that waited for it
\* reads them as complete.  A job answered from the cache reads no safe head.
SucceededMeansCovered ==
    \A i \in DOMAIN jobs :
        jobs[i].status = "succeeded" /\ jobs[i].safe # -1 /\ Alone(jobs[i].addr) =>
            \A x \in Actions : Listed(jobs[i]) \subseteq stored[jobs[i].addr][x]

\* The documentation's statement for every address, neighbours expanded or not.
SeedCoverageSound == \A a \in Addresses : Sound(a)
-----------------------------------------------------------------------------
(* The inductive invariant behind CoverageSound and CheckpointsSound, for    *)
(* configurations that do not both truncate and split.                       *)

\* Every action's records of a are stored from block s up to its checkpoint.
HoldsTo(c, a, s) == \A x \in Actions : s .. c[x] \subseteq stored[a][x]

\* The last listing reported lies at the edge of what is stored.
ReportHolds(p, a, s) ==
    \A x \in Actions : /\ x < p.act => s .. p.hi \subseteq stored[a][x]
                       /\ x = p.act => s .. p.lo - 1 \subseteq stored[a][x]

JobHolds(j) == HoldsTo(j.ckpt, j.addr, j.start) /\ ReportHolds(j.prog, j.addr, j.start)

JobsHold == \A i \in DOMAIN jobs : Alone(jobs[i].addr) => JobHolds(jobs[i])

\* The worker leaves its seed only for neighbours of a job that asks for them.
SeedFirst ==
    /\ pc = "idle" => todo = {}
    /\ pc # "idle" => (OnSeed /\ todo = {}) \/ Request.neighbors > 0

\* The job document as the worker holds it, and the checkpoints it was handed.
WorkerHolds ==
    pc # "idle" =>
        /\ Alone(Request.addr) => HoldsTo(mem, Request.addr, Request.start)
                                  /\ ReportHolds(prog, Request.addr, Request.start)
        /\ Alone(cur) /\ ~OnSeed => HoldsTo(resume, cur, Request.start)

SameCoverage == \A a \in Addresses : \A x, y \in Actions : cover[a][x] = cover[a][y]

Fetching == {"list", "persist", "advance"}

\* Every gap of an action has been fetched.
Fetched(x) ==
    \A g \in Gaps(Want, cover[cur][x]) : Request.start .. g[2] \subseteq stored[cur][x]

\* A listing never reaches past its gap; without splits it is all the rest of it.
PlaceOK ==
    /\ cut => Truncates
    /\ pc \notin Fetching \cup {"gap", "complete"} => act = 1
    /\ pc \in Fetching =>
          /\ \E g \in Gaps(Want, cover[cur][act]) : last = g[2]
          /\ hi <= last
          /\ ~Splits => hi = last
          /\ pc # "list" => pos <= upto + 1 /\ upto <= hi

\* Inside an address: the actions before act are fetched, and act up to pos.
AddressHolds ==
    Alone(cur) =>
        /\ pc \in Fetching \cup {"gap"} => \A x \in Actions : x < act => Fetched(x)
        /\ pc \in Fetching \/ (pc = "gap" /\ ~trunc) =>
              Request.start .. pos - 1 \subseteq stored[cur][act]
        /\ pc = "gap" /\ ~trunc =>
              \A g \in Gaps(Want, cover[cur][act]) : g[1] < pos => g[2] < pos
        /\ pc = "advance" => Request.start .. upto \subseteq stored[cur][act]
        /\ pc = "complete" /\ ~trunc => \A x \in Actions : Fetched(x)

IInv ==
    /\ TypeOK /\ CoverageSound /\ SameCoverage
    /\ JobsHold /\ SeedFirst /\ WorkerHolds
    /\ PlaceOK /\ AddressHolds

(* And behind SucceededMeansCovered. *)

\* A job without neighbours reads the safe head for its seed, or not at all.
HeadUnread ==
    /\ pc = "idle" => safeHead = -1
    /\ pc = "lookup" /\ Request.neighbors = 0 => safeHead = -1

\* A seed that is done, and not in part, has all of its window.
SeedCovered ==
    pc \in {"expand", "done"} /\ ~partial /\ safeHead # -1 /\ Alone(Request.addr) =>
        \A x \in Actions : Request.start .. WindowEnd(safeHead) \subseteq stored[Request.addr][x]

Promised == HeadUnread /\ SeedCovered /\ SucceededMeansCovered
=============================================================================
