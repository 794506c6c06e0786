------------------------ MODULE AscendingSyncProofs ------------------------
(***************************************************************************)
(* Type correctness of the ascending synchroniser, and that its coverage   *)
(* is sound: with listings that do not both hit the record limit and       *)
(* split, the ranges an address document claims, and the checkpoints a     *)
(* retry inherits, never reach past the records stored, for any number of  *)
(* addresses, jobs, actions and blocks.                                    *)
(***************************************************************************)
EXTENDS AscendingSync, CoverageProofs, SequenceTheorems, FiniteSetTheorems, TLAPS

Reports == [act : Nat, lo : Int, hi : Int]

\* What a write of the job document does to the collection.
LEMMA SaveAtEffect ==
    ASSUME TypeOK, pc # "idle", NEW h \in Int, NEW st \in JobStatus,
           NEW m \in [Actions -> Int], NEW p \in Reports, SaveAt(h, st, m, p)
    PROVE  /\ jobs' \in Seq(JobRecord)
           /\ DOMAIN jobs' = DOMAIN jobs
           /\ \A i \in DOMAIN jobs :
                 /\ jobs'[i].addr = jobs[i].addr /\ jobs'[i].start = jobs[i].start
                 /\ jobs'[i].end = jobs[i].end /\ jobs'[i].neighbors = jobs[i].neighbors
                 /\ \/ jobs'[i].status = jobs[i].status /\ jobs'[i].safe = jobs[i].safe
                    \/ i = job /\ jobs'[i].status = st /\ jobs'[i].safe = h
                 /\ \/ jobs'[i].ckpt = jobs[i].ckpt /\ jobs'[i].prog = jobs[i].prog
                    \/ i = job /\ jobs'[i].ckpt = m /\ jobs'[i].prog = p
<1>1. jobs \in Seq(JobRecord) /\ job \in DOMAIN jobs /\ job \in 1 .. Len(jobs)
  BY DEF TypeOK
<1>2. CASE UNCHANGED jobs
  BY <1>1, <1>2
<1>3. CASE jobs' = [jobs EXCEPT ![job] = [@ EXCEPT !.status = st, !.ckpt = m, !.prog = p, !.safe = h]]
  <2> DEFINE j == [jobs[job] EXCEPT !.status = st, !.ckpt = m, !.prog = p, !.safe = h]
  <2>0. jobs[job] \in JobRecord
    BY <1>1
  <2>1. j \in JobRecord
    BY <2>0 DEF JobRecord, Reports
  <2>2. jobs' = [jobs EXCEPT ![job] = j]
    BY <1>3
  <2>3. /\ jobs' \in Seq(JobRecord) /\ Len(jobs') = Len(jobs)
        /\ \A i \in 1 .. Len(jobs) : jobs'[i] = IF i = job THEN j ELSE jobs[i]
    BY <1>1, <2>1, <2>2, ExceptSeq
  <2>4. /\ j.addr = jobs[job].addr /\ j.start = jobs[job].start /\ j.end = jobs[job].end
        /\ j.neighbors = jobs[job].neighbors /\ j.ckpt = m /\ j.prog = p
        /\ j.safe = h /\ j.status = st
    BY <2>0 DEF JobRecord
  <2> HIDE DEF j
  <2>5. DOMAIN jobs = 1 .. Len(jobs) /\ DOMAIN jobs' = 1 .. Len(jobs')
    BY <1>1, <2>3
  <2> QED  BY <2>3, <2>4, <2>5
<1> QED  BY <1>2, <1>3 DEF SaveAt

LEMMA SaveEffect ==
    ASSUME TypeOK, pc # "idle", NEW st \in JobStatus,
           NEW m \in [Actions -> Int], NEW p \in Reports, Save(st, m, p)
    PROVE  /\ jobs' \in Seq(JobRecord)
           /\ DOMAIN jobs' = DOMAIN jobs
           /\ \A i \in DOMAIN jobs :
                 /\ jobs'[i].addr = jobs[i].addr /\ jobs'[i].start = jobs[i].start
                 /\ jobs'[i].end = jobs[i].end /\ jobs'[i].neighbors = jobs[i].neighbors
                 /\ \/ jobs'[i].status = jobs[i].status /\ jobs'[i].safe = jobs[i].safe
                    \/ i = job /\ jobs'[i].status = st /\ jobs'[i].safe = safeHead
                 /\ \/ jobs'[i].ckpt = jobs[i].ckpt /\ jobs'[i].prog = jobs[i].prog
                    \/ i = job /\ jobs'[i].ckpt = m /\ jobs'[i].prog = p
<1>1. safeHead \in Int /\ SaveAt(safeHead, st, m, p)
  BY DEF TypeOK, Save
<1> QED  BY <1>1, SaveAtEffect

LEMMA JobsTyped ==
    ASSUME TypeOK
    PROVE  /\ DOMAIN jobs = 1 .. Len(jobs) /\ Len(jobs) \in Nat
           /\ \A i \in DOMAIN jobs :
                 /\ jobs[i] \in JobRecord
                 /\ jobs[i].addr \in Addresses /\ jobs[i].start \in Nat /\ jobs[i].end \in Nat
                 /\ jobs[i].neighbors \in Nat /\ jobs[i].ckpt \in [Actions -> Int]
                 /\ jobs[i].prog \in Reports /\ jobs[i].status \in JobStatus /\ jobs[i].safe \in Int
<1>1. jobs \in Seq(JobRecord)
  BY DEF TypeOK
<1>2. DOMAIN jobs = 1 .. Len(jobs) /\ Len(jobs) \in Nat /\ \A i \in DOMAIN jobs : jobs[i] \in JobRecord
  BY <1>1
<1> QED  BY <1>2 DEF JobRecord, Reports

LEMMA LegacyType ==
    ASSUME NEW j, j.start \in Nat, j.prog \in Reports
    PROVE  Legacy(j) \in [Actions -> Int]
BY DEF Legacy, Reports, NoCheckpoint

\* What a retry inherits comes from some job of the same address and start block.
LEMMA CheckpointsOrigin ==
    ASSUME TypeOK, NEW a, NEW s
    PROVE  \/ FindSyncCheckpoints(a, s) = NoCheckpoints
           \/ \E i \in Matching(a, s) : FindSyncCheckpoints(a, s) = Checkpoints(jobs[i])
<1>1. CASE \E i \in Matching(a, s) : \A k \in Matching(a, s) : k <= i
  BY <1>1 DEF FindSyncCheckpoints
<1> QED  BY <1>1 DEF FindSyncCheckpoints

LEMMA CheckpointsType ==
    ASSUME TypeOK, NEW a, NEW s
    PROVE  FindSyncCheckpoints(a, s) \in [Actions -> Int]
<1>1. NoCheckpoints \in [Actions -> Int]
  BY DEF NoCheckpoints, NoCheckpoint
<1>2. \A i \in Matching(a, s) : Checkpoints(jobs[i]) \in [Actions -> Int]
  BY JobsTyped, LegacyType DEF Matching, Checkpoints
<1> QED  BY <1>1, <1>2, CheckpointsOrigin

\* Appending a job keeps every older one in place.
LEMMA EnqueueEffect ==
    ASSUME TypeOK, NEW a \in Addresses, NEW s \in Starts, NEW e \in Ends,
           NEW n \in NeighborLimits, Enqueue(a, s, e, n)
    PROVE  /\ jobs' \in Seq(JobRecord)
           /\ DOMAIN jobs' = DOMAIN jobs \cup {Len(jobs) + 1}
           /\ Len(jobs) + 1 \notin DOMAIN jobs
           /\ \A i \in DOMAIN jobs : jobs'[i] = jobs[i]
           /\ jobs'[Len(jobs) + 1].addr = a /\ jobs'[Len(jobs) + 1].start = s
           /\ jobs'[Len(jobs) + 1].neighbors = n
           /\ jobs'[Len(jobs) + 1].ckpt = FindSyncCheckpoints(a, s)
           /\ jobs'[Len(jobs) + 1].prog = NoProgress
           /\ jobs'[Len(jobs) + 1].end = e /\ jobs'[Len(jobs) + 1].status # "succeeded"
           /\ head' \in Nat
<1>1. PICK st \in {"queued", "failed"} : jobs' = Append(jobs, NewJob(a, s, e, n, st))
  BY DEF Enqueue
<1>2. head' \in Nat
  BY DEF Enqueue, TypeOK
<1>3. NewJob(a, s, e, n, st) \in JobRecord
  BY <1>1, <1>2, CheckpointsType, ConstantsAssumption
     DEF NewJob, JobRecord, JobStatus, NoProgress
<1>4. jobs \in Seq(JobRecord)
  BY DEF TypeOK
<1> DEFINE j == NewJob(a, s, e, n, st)
<1>5. /\ j.addr = a /\ j.start = s /\ j.neighbors = n
      /\ j.ckpt = FindSyncCheckpoints(a, s) /\ j.prog = NoProgress
      /\ j.end = e /\ j.status # "succeeded"
  BY DEF NewJob
<1>6. j \in JobRecord /\ jobs' = Append(jobs, j)
  BY <1>1, <1>3
<1> HIDE DEF j
<1>7. /\ Append(jobs, j) \in Seq(JobRecord) /\ Len(Append(jobs, j)) = Len(jobs) + 1
      /\ \A i \in 1 .. Len(jobs) : Append(jobs, j)[i] = jobs[i]
      /\ Append(jobs, j)[Len(jobs) + 1] = j
  BY <1>4, <1>6, AppendProperties
<1>8. DOMAIN jobs = 1 .. Len(jobs) /\ DOMAIN jobs' = 1 .. Len(jobs) + 1 /\ Len(jobs) \in Nat
  BY <1>4, <1>6, <1>7
<1> QED  BY <1>2, <1>5, <1>6, <1>7, <1>8

\* Stop and the restart change nothing but statuses.
LEMMA StatusEffect ==
    ASSUME TypeOK, NEW f \in [DOMAIN jobs -> JobStatus],
           jobs' = [i \in DOMAIN jobs |-> [jobs[i] EXCEPT !.status = f[i]]]
    PROVE  /\ jobs' \in Seq(JobRecord)
           /\ DOMAIN jobs' = DOMAIN jobs
           /\ \A i \in DOMAIN jobs :
                 /\ jobs'[i].addr = jobs[i].addr /\ jobs'[i].start = jobs[i].start
                 /\ jobs'[i].end = jobs[i].end /\ jobs'[i].neighbors = jobs[i].neighbors
                 /\ jobs'[i].ckpt = jobs[i].ckpt /\ jobs'[i].prog = jobs[i].prog
                 /\ jobs'[i].safe = jobs[i].safe /\ jobs'[i].status = f[i]
<1>1. DOMAIN jobs = 1 .. Len(jobs) /\ Len(jobs) \in Nat /\ \A i \in DOMAIN jobs : jobs[i] \in JobRecord
  BY JobsTyped
<1>2. \A i \in DOMAIN jobs : [jobs[i] EXCEPT !.status = f[i]] \in JobRecord
  BY <1>1 DEF JobRecord
<1>3. jobs' \in [1 .. Len(jobs) -> JobRecord]
  BY <1>1, <1>2
<1>4. jobs' \in Seq(JobRecord)
  BY <1>1, <1>3
<1>5. \A i \in DOMAIN jobs :
         /\ [jobs[i] EXCEPT !.status = f[i]].addr = jobs[i].addr
         /\ [jobs[i] EXCEPT !.status = f[i]].start = jobs[i].start
         /\ [jobs[i] EXCEPT !.status = f[i]].end = jobs[i].end
         /\ [jobs[i] EXCEPT !.status = f[i]].neighbors = jobs[i].neighbors
         /\ [jobs[i] EXCEPT !.status = f[i]].ckpt = jobs[i].ckpt
         /\ [jobs[i] EXCEPT !.status = f[i]].prog = jobs[i].prog
         /\ [jobs[i] EXCEPT !.status = f[i]].safe = jobs[i].safe
         /\ [jobs[i] EXCEPT !.status = f[i]].status = f[i]
  BY <1>1 DEF JobRecord
<1> QED  BY <1>3, <1>4, <1>5

\* Stop, the restart and a dequeue change nothing but statuses.
LEMMA StopEffect ==
    ASSUME TypeOK, NEW i \in DOMAIN jobs, NEW st \in JobStatus,
           jobs' = [jobs EXCEPT ![i].status = st]
    PROVE  /\ jobs' \in Seq(JobRecord)
           /\ DOMAIN jobs' = DOMAIN jobs
           /\ \A k \in DOMAIN jobs :
                 /\ jobs'[k].addr = jobs[k].addr /\ jobs'[k].start = jobs[k].start
                 /\ jobs'[k].end = jobs[k].end /\ jobs'[k].neighbors = jobs[k].neighbors
                 /\ jobs'[k].ckpt = jobs[k].ckpt /\ jobs'[k].prog = jobs[k].prog
                 /\ jobs'[k].safe = jobs[k].safe
                 /\ jobs'[k].status = IF k = i THEN st ELSE jobs[k].status
<1> DEFINE f == [k \in DOMAIN jobs |-> IF k = i THEN st ELSE jobs[k].status]
<1>1. f \in [DOMAIN jobs -> JobStatus]
  BY JobsTyped
<1>2. \A k \in DOMAIN jobs : jobs[k] \in JobRecord
  BY JobsTyped
<1>3. \A k \in DOMAIN jobs : [jobs[k] EXCEPT !.status = jobs[k].status] = jobs[k]
  BY <1>2 DEF JobRecord
<1>4. jobs' = [k \in DOMAIN jobs |-> [jobs[k] EXCEPT !.status = f[k]]]
  BY <1>3
<1>5. \A k \in DOMAIN jobs : f[k] = IF k = i THEN st ELSE jobs[k].status
  OBVIOUS
<1> HIDE DEF f
<1>6. /\ jobs' \in Seq(JobRecord) /\ DOMAIN jobs' = DOMAIN jobs
      /\ \A k \in DOMAIN jobs :
            /\ jobs'[k].addr = jobs[k].addr /\ jobs'[k].start = jobs[k].start
            /\ jobs'[k].end = jobs[k].end /\ jobs'[k].neighbors = jobs[k].neighbors
            /\ jobs'[k].ckpt = jobs[k].ckpt /\ jobs'[k].prog = jobs[k].prog
            /\ jobs'[k].safe = jobs[k].safe /\ jobs'[k].status = f[k]
  BY <1>1, <1>4, StatusEffect
<1> QED  BY <1>5, <1>6

LEMMA CrashEffect ==
    ASSUME TypeOK, Crash
    PROVE  /\ jobs' \in Seq(JobRecord)
           /\ DOMAIN jobs' = DOMAIN jobs
           /\ \A i \in DOMAIN jobs :
                 /\ jobs'[i].addr = jobs[i].addr /\ jobs'[i].start = jobs[i].start
                 /\ jobs'[i].end = jobs[i].end /\ jobs'[i].neighbors = jobs[i].neighbors
                 /\ jobs'[i].ckpt = jobs[i].ckpt /\ jobs'[i].prog = jobs[i].prog
                 /\ jobs'[i].safe = jobs[i].safe
                 /\ jobs'[i].status = jobs[i].status \/ jobs'[i].status = "failed"
<1> DEFINE f == [i \in DOMAIN jobs |->
                   IF jobs[i].status \in {"queued", "running"} THEN "failed" ELSE jobs[i].status]
<1>1. f \in [DOMAIN jobs -> JobStatus]
  BY JobsTyped DEF JobStatus
<1>2. \A k \in DOMAIN jobs : jobs[k] \in JobRecord
  BY JobsTyped
<1>3. \A k \in DOMAIN jobs : [jobs[k] EXCEPT !.status = jobs[k].status] = jobs[k]
  BY <1>2 DEF JobRecord
<1>4. jobs' = [i \in DOMAIN jobs |-> [jobs[i] EXCEPT !.status = f[i]]]
  BY <1>3 DEF Crash
<1>5. \A i \in DOMAIN jobs : f[i] = jobs[i].status \/ f[i] = "failed"
  OBVIOUS
<1>6. /\ jobs' \in Seq(JobRecord) /\ DOMAIN jobs' = DOMAIN jobs
      /\ \A i \in DOMAIN jobs :
            /\ jobs'[i].addr = jobs[i].addr /\ jobs'[i].start = jobs[i].start
            /\ jobs'[i].end = jobs[i].end /\ jobs'[i].neighbors = jobs[i].neighbors
            /\ jobs'[i].ckpt = jobs[i].ckpt /\ jobs'[i].prog = jobs[i].prog
            /\ jobs'[i].safe = jobs[i].safe /\ jobs'[i].status = f[i]
  BY <1>1, <1>4, StatusEffect
<1> QED  BY <1>5, <1>6
-----------------------------------------------------------------------------
LEMMA BlankType ==
    /\ AnyAddress \in Addresses /\ 1 \in Actions
    /\ NoCheckpoints \in [Actions -> Int] /\ NoProgress \in Reports
    /\ NoCoverage \in Int \X Int
<1>1. AnyAddress \in Addresses
  BY ConstantsAssumption DEF AnyAddress
<1>2. 1 \in Actions
  BY ConstantsAssumption DEF Actions
<1>3. NoCheckpoints \in [Actions -> Int]
  BY DEF NoCheckpoints, NoCheckpoint
<1>4. NoProgress \in Reports /\ NoCoverage \in Int \X Int
  BY DEF NoProgress, Reports, NoCoverage
<1> QED  BY <1>1, <1>2, <1>3, <1>4

LEMMA InitType == Init => TypeOK
<1> SUFFICES ASSUME Init PROVE TypeOK
  OBVIOUS
<1>1. jobs \in Seq(JobRecord) /\ queue \in Seq(Nat) /\ DOMAIN queue = {}
  BY DEF Init
<1>2. /\ cover  \in [Addresses -> [Actions -> Int \X Int]]
      /\ synced \in [Addresses -> BOOLEAN]
      /\ stored \in [Addresses -> [Actions -> SUBSET Int]]
  BY BlankType DEF Init
<1>3. head \in Nat /\ safeHead \in Int
  BY ConstantsAssumption DEF Init
<1>4. mem \in [Actions -> Int] /\ resume \in [Actions -> Int] /\ act \in Actions /\ cur \in Addresses
  BY BlankType DEF Init
<1>5. prog \in [act : Nat, lo : Int, hi : Int]
  BY BlankType DEF Init, Reports
<1>6. trunc \in BOOLEAN /\ partial \in BOOLEAN /\ cancelled \in BOOLEAN /\ cut \in BOOLEAN
  BY DEF Init
<1>7. pc = "idle" /\ job \in Nat /\ todo \subseteq Addresses
      /\ pos \in Int /\ hi \in Int /\ last \in Int /\ upto \in Int
  BY DEF Init
<1> QED
  BY <1>1, <1>2, <1>3, <1>4, <1>5, <1>6, <1>7 DEF TypeOK

\* The parts of TypeOK that only the queue, or only the worker, can disturb.
QueueType ==
    queue \in Seq(Nat) /\ \A i \in DOMAIN queue : queue[i] \in DOMAIN jobs

PlaceType ==
    /\ pc \in {"idle", "lookup", "gap", "list", "persist", "advance",
               "complete", "expand", "done"}
    /\ pc # "idle" => job \in DOMAIN jobs
    /\ job \in Nat /\ cur \in Addresses /\ todo \subseteq Addresses
    /\ mem \in [Actions -> Int] /\ resume \in [Actions -> Int] /\ prog \in Reports
    /\ safeHead \in Int
    /\ act \in Actions
    /\ pos \in Int /\ hi \in Int /\ last \in Int /\ upto \in Int

FlagType ==
    trunc \in BOOLEAN /\ partial \in BOOLEAN /\ cancelled \in BOOLEAN /\ cut \in BOOLEAN

DatabaseType ==
    /\ head \in Nat
    /\ cover  \in [Addresses -> [Actions -> Int \X Int]]
    /\ synced \in [Addresses -> BOOLEAN]
    /\ stored \in [Addresses -> [Actions -> SUBSET Int]]

LEMMA TypeParts ==
    TypeOK <=> DatabaseType /\ jobs \in Seq(JobRecord) /\ QueueType /\ PlaceType /\ FlagType
BY DEF TypeOK, DatabaseType, QueueType, PlaceType, FlagType, Reports

LEMMA SameQueue ==
    ASSUME TypeOK, DOMAIN jobs \subseteq DOMAIN jobs', queue' = queue
    PROVE  QueueType'
BY DEF TypeOK, QueueType

LEMMA LeaveType ==
    ASSUME TypeOK, LeaveAddress, LeaveJob
    PROVE  PlaceType' /\ FlagType'
<1>1. FlagType'
  BY DEF LeaveAddress, LeaveJob, FlagType
<1>2. PlaceType'
  BY BlankType DEF LeaveAddress, LeaveJob, PlaceType
<1> QED  BY <1>1, <1>2

LEMMA AddressFailsType ==
    ASSUME TypeOK, pc # "idle", NEW h \in Int, AddressFails(h)
    PROVE  jobs' \in Seq(JobRecord) /\ QueueType' /\ PlaceType' /\ FlagType'
<1> USE DEF AddressFails
<1>1. mem \in [Actions -> Int] /\ prog \in Reports
  BY DEF TypeOK, Reports
<1>2. SaveAt(h, "failed", mem, prog) \/ SaveAt(h, "running", mem, prog)
  OBVIOUS
<1>3. jobs' \in Seq(JobRecord) /\ DOMAIN jobs' = DOMAIN jobs
  BY <1>1, <1>2, SaveAtEffect DEF JobStatus
<1>4. QueueType'
  BY <1>3, SameQueue
<1>5. CASE OnSeed
  BY <1>3, <1>4, <1>5, LeaveType
<1>6. CASE ~OnSeed
  <2>0. /\ PlaceType /\ FlagType /\ pc' = "done" /\ safeHead' = h /\ UNCHANGED <<job, cur, todo, docVars>>
        /\ partial' = TRUE /\ UNCHANGED cancelled
    BY <1>6, TypeParts
  <2>1. PlaceType'
    BY <1>3, <2>0, BlankType DEF PlaceType, LeaveAddress, docVars
  <2>2. FlagType'
    BY <2>0 DEF FlagType, LeaveAddress
  <2> QED  BY <1>3, <1>4, <2>1, <2>2
<1> QED  BY <1>5, <1>6

LEMMA WindowType ==
    ASSUME TypeOK, pc # "idle"
    PROVE  /\ Want \in Ranges /\ Request.start \in Nat /\ Request.end \in Nat
           /\ Request.addr \in Addresses /\ Request.neighbors \in Nat
           /\ Want[1] = Request.start
           /\ \A x \in Actions : cover[cur][x] \in Ranges
           /\ \A x \in Actions : Resume(x) \in Int
           /\ \A x \in Actions : Gaps(Want, cover[cur][x]) \subseteq Ranges
<1>1. /\ Request.start \in Nat /\ Request.end \in Nat
      /\ Request.addr \in Addresses /\ Request.neighbors \in Nat
  BY JobsTyped DEF TypeOK, Request
<1>2. Want \in Ranges /\ Want[1] = Request.start
  BY <1>1 DEF Want, WindowEnd, Ranges, Lesser, TypeOK
<1>3. \A x \in Actions : cover[cur][x] \in Ranges /\ Resume(x) \in Int
  BY DEF TypeOK, Ranges, Resume
<1> QED  BY <1>1, <1>2, <1>3, GapsType

LEMMA TypePartsNext ==
    DatabaseType' /\ jobs' \in Seq(JobRecord) /\ QueueType' /\ PlaceType' /\ FlagType' => TypeOK'
BY DEF TypeOK, DatabaseType, QueueType, PlaceType, FlagType, Reports

LEMMA SaveType ==
    ASSUME TypeOK, pc # "idle", NEW st \in JobStatus, Save(st, mem, prog)
    PROVE  jobs' \in Seq(JobRecord) /\ DOMAIN jobs' = DOMAIN jobs
BY TypeParts, SaveEffect DEF PlaceType

LEMMA EnqueueType ==
    ASSUME TypeOK, NEW a \in Addresses, NEW s \in Starts, NEW e \in Ends, NEW n \in NeighborLimits,
           Enqueue(a, s, e, n)
    PROVE  TypeOK'
<1>1. jobs' \in Seq(JobRecord) /\ DOMAIN jobs' = DOMAIN jobs \cup {Len(jobs) + 1} /\ head' \in Nat
  BY EnqueueEffect
<1>2. Len(jobs) + 1 \in Nat
  BY JobsTyped
<1>3. UNCHANGED <<dbVars, workVars, docVars, flagVars, posVars>>
  BY DEF Enqueue
<1>4. DatabaseType /\ QueueType /\ PlaceType /\ FlagType
  BY TypeParts
<1>5. DatabaseType' /\ FlagType'
  BY <1>1, <1>3, <1>4 DEF DatabaseType, FlagType, dbVars, flagVars, posVars
<1>6. PlaceType'
  BY <1>1, <1>3, <1>4 DEF PlaceType, workVars, docVars, flagVars, posVars
<1>7. ASSUME queue' = queue PROVE QueueType'
  BY <1>1, <1>7, SameQueue
<1>8. ASSUME queue' = Append(queue, Len(jobs) + 1) PROVE QueueType'
  <2>1. /\ queue' \in Seq(Nat) /\ Len(queue') = Len(queue) + 1 /\ Len(queue) \in Nat
        /\ \A i \in 1 .. Len(queue) : queue'[i] = queue[i]
        /\ queue'[Len(queue) + 1] = Len(jobs) + 1
    BY <1>2, <1>4, <1>8, AppendProperties DEF QueueType
  <2>2. DOMAIN queue' = 1 .. Len(queue) + 1 /\ DOMAIN queue = 1 .. Len(queue)
    BY <1>4, <2>1 DEF QueueType
  <2>3. ASSUME NEW i \in DOMAIN queue' PROVE queue'[i] \in DOMAIN jobs'
    BY <1>1, <1>4, <2>1, <2>2 DEF QueueType
  <2> QED  BY <2>1, <2>3 DEF QueueType
<1>9. QueueType'
  BY <1>7, <1>8 DEF Enqueue
<1> QED  BY <1>1, <1>5, <1>6, <1>9, TypePartsNext

LEMMA StopType ==
    ASSUME TypeOK, NEW i \in DOMAIN jobs, Stop(i)
    PROVE  TypeOK'
<1>1. jobs' \in Seq(JobRecord) /\ DOMAIN jobs' = DOMAIN jobs
  BY StopEffect DEF Stop, JobStatus
<1>2. jobs[i].addr \in Addresses
  BY JobsTyped
<1>3. DatabaseType /\ QueueType /\ PlaceType /\ FlagType
  BY TypeParts
<1>4. DatabaseType'
  BY <1>2, <1>3 DEF Stop, DatabaseType
<1>5. PlaceType'
  BY <1>1, <1>3 DEF Stop, PlaceType, workVars, docVars, posVars
<1>6. FlagType'
  BY <1>3 DEF Stop, FlagType, posVars
<1>7. QueueType'
  BY <1>1, SameQueue DEF Stop
<1> QED  BY <1>1, <1>4, <1>5, <1>6, <1>7, TypePartsNext

LEMMA CrashType ==
    ASSUME TypeOK, Crash
    PROVE  TypeOK'
<1>1. jobs' \in Seq(JobRecord)
  BY CrashEffect
<1>2. QueueType'
  BY DEF Crash, QueueType
<1>3. DatabaseType'
  BY TypeParts DEF Crash, DatabaseType, dbVars
<1> QED  BY <1>1, <1>2, <1>3, LeaveType, TypePartsNext DEF Crash

LEMMA DequeueType ==
    ASSUME TypeOK, Dequeue
    PROVE  TypeOK'
<1>0. /\ DatabaseType /\ jobs \in Seq(JobRecord) /\ QueueType /\ PlaceType /\ FlagType
      /\ UNCHANGED <<head, dbVars, flagVars, posVars>>
  BY TypeParts DEF Dequeue
<1>1. /\ Head(queue) \in DOMAIN jobs /\ Head(queue) \in Nat /\ queue' \in Seq(Nat)
      /\ \A i \in DOMAIN queue' : queue'[i] \in DOMAIN jobs
  <2>1. queue # <<>> /\ queue \in Seq(Nat) /\ queue' = Tail(queue)
    BY <1>0 DEF Dequeue, QueueType
  <2>2. /\ Len(queue) \in Nat /\ Len(queue) >= 1 /\ queue' \in Seq(Nat) /\ Len(queue') = Len(queue) - 1
        /\ \A i \in 1 .. Len(queue') : queue'[i] = queue[i + 1]
    BY <2>1, HeadTailProperties
  <2>3. DOMAIN queue' = 1 .. Len(queue') /\ DOMAIN queue = 1 .. Len(queue) /\ Head(queue) = queue[1]
    BY <2>1, <2>2
  <2>4. ASSUME NEW i \in DOMAIN queue' PROVE queue'[i] \in DOMAIN jobs
    <3>1. i + 1 \in DOMAIN queue /\ queue'[i] = queue[i + 1]
      BY <2>2, <2>3
    <3> QED  BY <1>0, <3>1 DEF QueueType
  <2>5. Head(queue) \in DOMAIN jobs
    BY <1>0, <2>2, <2>3 DEF QueueType
  <2> QED  BY <2>2, <2>4, <2>5, JobsTyped
<1>2. DatabaseType' /\ FlagType'
  BY <1>0 DEF DatabaseType, FlagType, dbVars, flagVars, posVars
<1>3. CASE UNCHANGED <<jobs, workVars, docVars>>
  <2>1. QueueType'
    BY <1>1, <1>3 DEF QueueType
  <2>2. PlaceType'
    BY <1>0, <1>3 DEF PlaceType, workVars, docVars, flagVars, posVars
  <2> QED  BY <1>0, <1>2, <1>3, <2>1, <2>2, TypePartsNext
<1>4. CASE /\ job' = Head(queue) /\ cur' = jobs[Head(queue)].addr /\ pc' = "lookup"
           /\ jobs' = [jobs EXCEPT ![Head(queue)].status = "running"]
           /\ mem' = jobs[Head(queue)].ckpt /\ prog' = jobs[Head(queue)].prog
           /\ UNCHANGED <<todo, resume>>
  <2>1. jobs' \in Seq(JobRecord) /\ DOMAIN jobs' = DOMAIN jobs
    BY <1>1, <1>4, StopEffect DEF JobStatus
  <2>2. /\ jobs[Head(queue)].addr \in Addresses /\ jobs[Head(queue)].ckpt \in [Actions -> Int]
        /\ jobs[Head(queue)].prog \in Reports
    BY <1>1, JobsTyped
  <2>3. QueueType'
    BY <1>1, <2>1 DEF QueueType
  <2>4. PlaceType'
    BY <1>0, <1>1, <1>4, <2>1, <2>2 DEF PlaceType, flagVars, posVars
  <2> QED  BY <1>2, <2>1, <2>3, <2>4, TypePartsNext
<1> QED  BY <1>3, <1>4 DEF Dequeue
LEMMA PickNeighborsType ==
    ASSUME TypeOK, PickNeighbors
    PROVE  TypeOK'
<1>0. /\ DatabaseType /\ jobs \in Seq(JobRecord) /\ QueueType /\ PlaceType /\ FlagType
      /\ pc # "idle"
  BY TypeParts DEF PickNeighbors
<1>1. jobs' \in Seq(JobRecord) /\ DOMAIN jobs' = DOMAIN jobs
  BY <1>0, SaveType DEF PickNeighbors, JobStatus
<1>2. QueueType'
  BY <1>1, SameQueue DEF PickNeighbors, jobVars
<1>3. DatabaseType'
  BY <1>0 DEF PickNeighbors, DatabaseType, dbVars
<1>4. PlaceType'
  BY <1>0, <1>1 DEF PickNeighbors, PlaceType, workVars, docVars, flagVars, posVars
<1>5. FlagType'
  BY <1>0 DEF PickNeighbors, FlagType, flagVars, posVars
<1> QED  BY <1>1, <1>2, <1>3, <1>4, <1>5, TypePartsNext

LEMMA StartNeighborType ==
    ASSUME TypeOK, StartNeighbor
    PROVE  TypeOK'
<1>0. /\ DatabaseType /\ jobs \in Seq(JobRecord) /\ QueueType /\ PlaceType /\ FlagType
      /\ pc # "idle"
  BY TypeParts DEF StartNeighbor
<1>1. jobs' \in Seq(JobRecord) /\ DOMAIN jobs' = DOMAIN jobs
  BY <1>0, SaveType DEF StartNeighbor, JobStatus
<1>2. QueueType'
  BY <1>1, SameQueue DEF StartNeighbor, jobVars
<1>3. DatabaseType'
  BY <1>0 DEF StartNeighbor, DatabaseType, dbVars
<1>4. PlaceType'
  BY <1>0, <1>1, CheckpointsType DEF StartNeighbor, PlaceType, workVars, docVars, flagVars, posVars
<1>5. FlagType'
  BY <1>0 DEF StartNeighbor, FlagType, flagVars, posVars
<1> QED  BY <1>1, <1>2, <1>3, <1>4, <1>5, TypePartsNext

LEMMA FinishType ==
    ASSUME TypeOK, Finish
    PROVE  TypeOK'
<1>0. /\ DatabaseType /\ jobs \in Seq(JobRecord) /\ QueueType /\ PlaceType /\ FlagType
      /\ pc # "idle"
  BY TypeParts DEF Finish, LeaveJob
<1>1. jobs' \in Seq(JobRecord) /\ DOMAIN jobs' = DOMAIN jobs
  BY <1>0, SaveType DEF Finish, LeaveJob, JobStatus
<1>2. QueueType'
  BY <1>1, SameQueue DEF Finish, LeaveJob, jobVars
<1>3. DatabaseType'
  BY <1>0 DEF Finish, LeaveJob, DatabaseType, dbVars
<1>4. PlaceType'
  BY <1>0, <1>1, BlankType DEF Finish, LeaveJob, PlaceType, workVars, docVars, flagVars, posVars
<1>5. FlagType'
  BY <1>0 DEF Finish, LeaveJob, FlagType, flagVars, posVars
<1> QED  BY <1>1, <1>2, <1>3, <1>4, <1>5, TypePartsNext

LEMMA JobFailsType ==
    ASSUME TypeOK, JobFails
    PROVE  TypeOK'
<1>0. /\ DatabaseType /\ jobs \in Seq(JobRecord) /\ QueueType /\ PlaceType /\ FlagType
      /\ pc # "idle"
  BY TypeParts DEF JobFails, LeaveJob
<1>1. jobs' \in Seq(JobRecord) /\ DOMAIN jobs' = DOMAIN jobs
  BY <1>0, SaveType DEF JobFails, LeaveJob, JobStatus
<1>2. QueueType'
  BY <1>1, SameQueue DEF JobFails, LeaveJob, jobVars
<1>3. DatabaseType'
  BY <1>0 DEF JobFails, LeaveJob, DatabaseType, dbVars
<1>4. PlaceType'
  BY <1>0, <1>1, BlankType DEF JobFails, LeaveJob, PlaceType, workVars, docVars, flagVars, posVars
<1>5. FlagType'
  BY <1>0 DEF JobFails, LeaveJob, FlagType, flagVars, posVars
<1> QED  BY <1>1, <1>2, <1>3, <1>4, <1>5, TypePartsNext

LEMMA AbandonType ==
    ASSUME TypeOK, Abandon
    PROVE  TypeOK'
<1>1. DatabaseType /\ jobs \in Seq(JobRecord) /\ UNCHANGED <<head, dbVars, jobs, queue>>
  BY TypeParts DEF Abandon, jobVars
<1>2. DatabaseType'
  BY <1>1 DEF DatabaseType, dbVars
<1> QED  BY <1>1, <1>2, LeaveType, SameQueue, TypePartsNext DEF Abandon

LEMMA LookupCachedType ==
    ASSUME TypeOK, LookupCached
    PROVE  TypeOK'
<1>0. /\ DatabaseType /\ jobs \in Seq(JobRecord) /\ QueueType /\ PlaceType /\ FlagType
      /\ pc # "idle"
  BY TypeParts DEF LookupCached, AddressDone, LeaveAddress
<1>1. jobs' \in Seq(JobRecord) /\ DOMAIN jobs' = DOMAIN jobs
  BY <1>0 DEF LookupCached, AddressDone, LeaveAddress, jobVars
<1>2. QueueType'
  BY <1>1, SameQueue DEF LookupCached, AddressDone, LeaveAddress, jobVars
<1>3. DatabaseType'
  BY <1>0 DEF LookupCached, AddressDone, LeaveAddress, DatabaseType, dbVars
<1>4. PlaceType'
  BY <1>0, <1>1, BlankType DEF LookupCached, AddressDone, LeaveAddress, PlaceType, workVars, docVars, flagVars, posVars
<1>5. FlagType'
  BY <1>0 DEF LookupCached, AddressDone, LeaveAddress, FlagType, flagVars, posVars
<1> QED  BY <1>1, <1>2, <1>3, <1>4, <1>5, TypePartsNext

LEMMA SafeHeadType ==
    ASSUME TypeOK, NEW h \in {safeHead} \cup SafeHeads
    PROVE  h \in Int /\ Greater(head, h) \in Nat
<1>1. head \in Nat /\ safeHead \in Int /\ MaxBlock \in Nat
  BY ConstantsAssumption, TypeParts DEF DatabaseType, PlaceType
<1>2. h \in Int
  BY <1>1 DEF SafeHeads
<1> QED  BY <1>1, <1>2 DEF Greater

LEMMA LookupMissType ==
    ASSUME TypeOK, LookupMiss
    PROVE  TypeOK'
<1>1. /\ DatabaseType /\ jobs \in Seq(JobRecord) /\ QueueType /\ PlaceType /\ FlagType
      /\ pc # "idle"
  BY TypeParts DEF LookupMiss
<1>2. /\ safeHead' \in Int /\ head' \in Nat /\ synced' = [synced EXCEPT ![cur] = FALSE]
      /\ pos' = Request.start /\ pc' = "gap"
      /\ UNCHANGED <<cover, stored, jobVars, job, cur, todo, docVars,
                     trunc, partial, cancelled, act, hi, last, upto, cut>>
  BY SafeHeadType DEF LookupMiss
<1>3. DatabaseType'
  BY <1>1, <1>2 DEF DatabaseType, PlaceType
<1>4. PlaceType'
  BY <1>1, <1>2, WindowType DEF PlaceType, docVars, jobVars
<1>5. FlagType'
  BY <1>1, <1>2 DEF FlagType
<1> QED  BY <1>1, <1>2, <1>3, <1>4, <1>5, SameQueue, TypePartsNext DEF jobVars

LEMMA LookupFailsType ==
    ASSUME TypeOK, LookupFails
    PROVE  TypeOK'
<1>1. PICK h \in {safeHead} \cup SafeHeads : AddressFails(h) /\ head' = Greater(head, h)
  BY DEF LookupFails
<1>2. h \in Int /\ head' \in Nat
  BY <1>1, SafeHeadType
<1>3. DatabaseType'
  BY <1>2, TypeParts DEF DatabaseType, LookupFails, dbVars
<1> QED  BY <1>1, <1>2, <1>3, AddressFailsType, TypePartsNext DEF LookupFails

LEMMA NextGapType ==
    ASSUME TypeOK, NextGap
    PROVE  TypeOK'
<1>1. /\ DatabaseType /\ jobs \in Seq(JobRecord) /\ QueueType /\ PlaceType /\ FlagType
      /\ pc # "idle"
  BY TypeParts DEF NextGap
<1>2. /\ UNCHANGED <<head, dbVars, jobVars, job, cur, todo, docVars, flagVars, act, upto, cut>>
      /\ pc' \in {"gap", "list"} /\ pos' \in Int /\ hi' \in Int /\ last' \in Int
  <2>1. PICK g \in GapsLeft :
           LET from == Greater(g[1], Resume(act) + 1) IN
             \/ /\ from > g[2]
                /\ pos' = g[2] + 1
                /\ UNCHANGED <<pc, hi, last>>
             \/ /\ from <= g[2]
                /\ pos' = from /\ last' = g[2]
                /\ hi' \in (IF Splits THEN from .. g[2] ELSE {g[2]})
                /\ pc' = "list"
    BY DEF NextGap
  <2>2. g \in Ranges /\ Resume(act) \in Int
    BY <1>1, WindowType DEF GapsLeft, PlaceType
  <2>3. g[1] \in Int /\ g[2] \in Int /\ Greater(g[1], Resume(act) + 1) \in Int
    BY <2>2 DEF Ranges, Greater
  <2> QED  BY <1>1, <2>1, <2>3 DEF NextGap, PlaceType
<1>3. PlaceType'
  BY <1>1, <1>2 DEF PlaceType, docVars, flagVars, jobVars
<1>4. FlagType' /\ DatabaseType'
  BY <1>1, <1>2 DEF FlagType, DatabaseType, flagVars, dbVars
<1> QED  BY <1>1, <1>2, <1>3, <1>4, SameQueue, TypePartsNext DEF jobVars

LEMMA NextActionType ==
    ASSUME TypeOK, NextAction
    PROVE  TypeOK'
<1>1. /\ DatabaseType /\ jobs \in Seq(JobRecord) /\ QueueType /\ PlaceType /\ FlagType
      /\ pc # "idle"
  BY TypeParts DEF NextAction
<1>2. UNCHANGED <<head, dbVars, jobVars, job, cur, todo, docVars, flagVars, hi, last, upto, cut>>
  BY DEF NextAction
<1>3. act' \in Actions /\ pos' \in Int /\ pc' \in {"gap", "complete"}
  BY <1>1, WindowType, ConstantsAssumption, SMTT(40) DEF NextAction, PlaceType, Actions
<1>4. PlaceType'
  BY <1>1, <1>2, <1>3 DEF PlaceType, docVars, flagVars, jobVars
<1>5. FlagType' /\ DatabaseType'
  BY <1>1, <1>2 DEF FlagType, DatabaseType, flagVars, dbVars
<1> QED  BY <1>1, <1>2, <1>4, <1>5, SameQueue, TypePartsNext DEF jobVars

LEMMA StopAtLimitType ==
    ASSUME TypeOK, StopAtLimit
    PROVE  TypeOK'
<1>1. /\ DatabaseType /\ jobs \in Seq(JobRecord) /\ QueueType /\ PlaceType /\ FlagType
      /\ pc # "idle"
  BY TypeParts DEF StopAtLimit
<1>2. pc' = "complete" /\ UNCHANGED <<head, dbVars, jobVars, job, cur, todo, docVars, flagVars, posVars>>
  BY DEF StopAtLimit
<1>3. PlaceType'
  BY <1>1, <1>2 DEF PlaceType, docVars, flagVars, posVars, jobVars
<1>4. FlagType' /\ DatabaseType'
  BY <1>1, <1>2 DEF FlagType, DatabaseType, flagVars, posVars, dbVars
<1> QED  BY <1>1, <1>2, <1>3, <1>4, SameQueue, TypePartsNext DEF jobVars

LEMMA ListType ==
    ASSUME TypeOK, List
    PROVE  TypeOK'
<1>1. /\ DatabaseType /\ jobs \in Seq(JobRecord) /\ QueueType /\ PlaceType /\ FlagType
      /\ pc # "idle"
  BY TypeParts DEF List
<1>2. /\ UNCHANGED <<head, dbVars, queue, job, cur, todo, mem, resume, flagVars, act, pos, last>>
      /\ prog' = [act |-> act, lo |-> pos, hi |-> hi] /\ Save("running", mem, prog')
  BY DEF List
<1>3. prog' \in Reports /\ mem \in [Actions -> Int]
  BY <1>1, <1>2 DEF PlaceType, Reports, Actions
<1>4. jobs' \in Seq(JobRecord) /\ DOMAIN jobs' = DOMAIN jobs
  BY <1>1, <1>2, <1>3, SaveEffect DEF JobStatus
<1>5. pc' \in {"list", "persist"} /\ hi' \in Int /\ upto' \in Int
  BY <1>1 DEF List, PlaceType
<1>6. PlaceType'
  BY <1>1, <1>2, <1>3, <1>4, <1>5 DEF PlaceType, flagVars
<1>7. cut' \in BOOLEAN
  BY <1>1 DEF List, FlagType
<1>8. FlagType' /\ DatabaseType'
  BY <1>1, <1>2, <1>7 DEF FlagType, DatabaseType, flagVars, dbVars
<1> QED  BY <1>2, <1>4, <1>6, <1>8, SameQueue, TypePartsNext

LEMMA StoreType ==
    ASSUME TypeOK, NEW to \in Int, Store(to)
    PROVE  stored' \in [Addresses -> [Actions -> SUBSET Int]]
<1>1. stored[cur][act] \cup (pos .. to) \in SUBSET Int
  BY TypeParts DEF PlaceType, DatabaseType
<1> QED  BY <1>1, TypeParts DEF Store, PlaceType, DatabaseType

LEMMA PersistType ==
    ASSUME TypeOK, Persist
    PROVE  TypeOK'
<1>1. /\ DatabaseType /\ jobs \in Seq(JobRecord) /\ QueueType /\ PlaceType /\ FlagType
      /\ pc # "idle"
  BY TypeParts DEF Persist
<1>2. /\ UNCHANGED <<head, cover, synced, jobVars, job, cur, todo, docVars, flagVars, posVars>>
      /\ Store(upto) /\ pc' = "advance"
  BY DEF Persist
<1>3. DatabaseType'
  BY <1>1, <1>2, StoreType DEF DatabaseType, PlaceType
<1>4. PlaceType'
  BY <1>1, <1>2 DEF PlaceType, docVars, flagVars, posVars, jobVars
<1>5. FlagType'
  BY <1>1, <1>2 DEF FlagType, flagVars, posVars
<1> QED  BY <1>1, <1>2, <1>3, <1>4, <1>5, SameQueue, TypePartsNext DEF jobVars

LEMMA FetchFailsType ==
    ASSUME TypeOK, FetchFails
    PROVE  TypeOK'
<1>1. /\ DatabaseType /\ jobs \in Seq(JobRecord) /\ QueueType /\ PlaceType /\ FlagType
      /\ pc # "idle"
  BY TypeParts DEF FetchFails
<1>2. DatabaseType'
  <2>1. stored' \in [Addresses -> [Actions -> SUBSET Int]]
    BY <1>1, StoreType DEF FetchFails, DatabaseType, PlaceType
  <2> QED  BY <1>1, <2>1 DEF FetchFails, DatabaseType
<1> QED  BY <1>1, <1>2, AddressFailsType, TypePartsNext DEF FetchFails, PlaceType

LEMMA ResumeAtType ==
    ASSUME TypeOK, NEW p \in Int, ResumeAt(p)
    PROVE  /\ pos' \in Int /\ upto' \in Int /\ hi' \in Int /\ last' \in Int
           /\ pc' \in {"gap", "list"} /\ cut' = FALSE
BY TypeParts DEF ResumeAt, PlaceType

LEMMA AdvanceType ==
    ASSUME TypeOK, Advance
    PROVE  TypeOK'
<1>1. /\ DatabaseType /\ jobs \in Seq(JobRecord) /\ QueueType /\ PlaceType /\ FlagType
      /\ pc # "idle"
  BY TypeParts DEF Advance
<1>2. /\ UNCHANGED <<head, dbVars, queue, job, cur, todo, prog, resume, safeHead, partial, cancelled, act>>
      /\ mem' = [mem EXCEPT ![act] = upto] /\ Save("running", mem', prog)
      /\ ResumeAt(upto + 1) /\ trunc' \in {trunc, Truncates}
  BY DEF Advance, MoveCheckpoint
<1>3. prog \in Reports /\ mem' \in [Actions -> Int]
  BY <1>1, <1>2 DEF PlaceType
<1>4. jobs' \in Seq(JobRecord) /\ DOMAIN jobs' = DOMAIN jobs
  BY <1>1, <1>2, <1>3, SaveEffect DEF JobStatus
<1>5. upto + 1 \in Int
  BY <1>1 DEF PlaceType
<1>6. /\ pos' \in Int /\ upto' \in Int /\ hi' \in Int /\ last' \in Int
      /\ pc' \in {"gap", "list"} /\ cut' = FALSE
  BY <1>2, <1>5, ResumeAtType
<1>7. PlaceType'
  BY <1>1, <1>2, <1>3, <1>4, <1>6 DEF PlaceType
<1>8. trunc' \in BOOLEAN
  BY <1>1, <1>2, ConstantsAssumption DEF FlagType
<1>9. FlagType'
  BY <1>1, <1>2, <1>6, <1>8 DEF FlagType
<1>10. DatabaseType'
  BY <1>1, <1>2 DEF DatabaseType, dbVars
<1> QED  BY <1>2, <1>4, <1>7, <1>9, <1>10, SameQueue, TypePartsNext

LEMMA AdvanceCutType ==
    ASSUME TypeOK, AdvanceCut
    PROVE  TypeOK'
<1>1. /\ DatabaseType /\ jobs \in Seq(JobRecord) /\ QueueType /\ PlaceType /\ FlagType
      /\ pc # "idle"
  BY TypeParts DEF AdvanceCut
<1>2. /\ UNCHANGED <<head, dbVars, jobVars, job, cur, todo, docVars, safeHead, partial, cancelled, act>>
      /\ ResumeAt(hi + 1) /\ trunc' = TRUE
  BY DEF AdvanceCut
<1>3. hi + 1 \in Int
  BY <1>1 DEF PlaceType
<1>4. /\ pos' \in Int /\ upto' \in Int /\ hi' \in Int /\ last' \in Int
      /\ pc' \in {"gap", "list"} /\ cut' = FALSE
  BY <1>2, <1>3, ResumeAtType
<1>5. PlaceType'
  BY <1>1, <1>2, <1>4 DEF PlaceType, docVars, jobVars
<1>6. FlagType'
  BY <1>1, <1>2, <1>4 DEF FlagType
<1>7. DatabaseType'
  BY <1>1, <1>2 DEF DatabaseType, dbVars
<1> QED  BY <1>1, <1>2, <1>5, <1>6, <1>7, SameQueue, TypePartsNext DEF jobVars

LEMMA ConcludeType ==
    ASSUME TypeOK, pc # "idle", Conclude
    PROVE  /\ cover'  \in [Addresses -> [Actions -> Int \X Int]]
           /\ synced' \in [Addresses -> BOOLEAN]
           /\ stored' \in [Addresses -> [Actions -> SUBSET Int]]
<1>1. DatabaseType /\ PlaceType /\ FlagType
  BY TypeParts
<1>2. [x \in Actions |-> Merge(Want, cover[cur][x])] \in [Actions -> Int \X Int]
  BY WindowType, MergeType DEF Ranges
<1>3. cover' = cover \/ cover' = [cover EXCEPT ![cur] = [x \in Actions |-> Merge(Want, cover[cur][x])]]
  BY DEF Conclude
<1>4. cover' \in [Addresses -> [Actions -> Int \X Int]]
  BY <1>1, <1>2, <1>3 DEF DatabaseType
<1>5. synced' \in [Addresses -> BOOLEAN]
  BY <1>1 DEF Conclude, DatabaseType, FlagType
<1> QED  BY <1>1, <1>4, <1>5 DEF Conclude, DatabaseType

LEMMA CompleteType ==
    ASSUME TypeOK, Complete
    PROVE  TypeOK'
<1>1. /\ DatabaseType /\ jobs \in Seq(JobRecord) /\ QueueType /\ PlaceType /\ FlagType
      /\ pc # "idle"
  BY TypeParts DEF Complete
<1>2. /\ UNCHANGED <<head, jobVars, job, cur, todo, docVars, safeHead, cancelled>>
      /\ AddressDone(trunc) /\ Conclude
  BY DEF Complete
<1>3. DatabaseType'
  BY <1>1, <1>2, ConcludeType DEF DatabaseType
<1>4. PlaceType'
  BY <1>1, <1>2, BlankType DEF AddressDone, LeaveAddress, PlaceType, docVars, jobVars
<1>5. FlagType'
  BY <1>1, <1>2 DEF AddressDone, LeaveAddress, FlagType
<1> QED  BY <1>1, <1>2, <1>3, <1>4, <1>5, SameQueue, TypePartsNext DEF jobVars

LEMMA CompleteFailsType ==
    ASSUME TypeOK, CompleteFails
    PROVE  TypeOK'
<1>1. /\ DatabaseType /\ jobs \in Seq(JobRecord) /\ QueueType /\ PlaceType /\ FlagType
      /\ pc # "idle"
  BY TypeParts DEF CompleteFails
<1>2. DatabaseType'
  <2>1. CASE UNCHANGED dbVars
    BY <1>1, <2>1 DEF CompleteFails, DatabaseType, dbVars
  <2>2. CASE Conclude
    BY <1>1, <2>2, ConcludeType DEF CompleteFails, DatabaseType
  <2> QED  BY <2>1, <2>2 DEF CompleteFails
<1> QED  BY <1>1, <1>2, AddressFailsType, TypePartsNext DEF CompleteFails, PlaceType

LEMMA StepType == TypeOK /\ [Next]_vars => TypeOK'
<1>1. TypeOK /\ Next => TypeOK'
  BY EnqueueType, StopType, CrashType, DequeueType, PickNeighborsType, StartNeighborType,
     FinishType, JobFailsType, AbandonType, LookupCachedType, LookupMissType, LookupFailsType,
     NextGapType, NextActionType, StopAtLimitType, ListType, PersistType, FetchFailsType,
     AdvanceType, AdvanceCutType, CompleteType, CompleteFailsType
     DEF Next
<1>2. TypeOK /\ UNCHANGED vars => TypeOK'
  BY DEF TypeOK, vars, dbVars, jobVars, workVars, docVars, flagVars, posVars
<1> QED  BY <1>1, <1>2

\* Every variable keeps its type, whatever the interleaving of clients, crashes
\* and worker steps.
THEOREM TypeCorrect == Spec => []TypeOK
BY InitType, StepType, PTL DEF Spec
-----------------------------------------------------------------------------
(* Soundness *)

\* No step forgets a job's request, and none deletes records.
KeepsJobs ==
    /\ DOMAIN jobs \subseteq DOMAIN jobs'
    /\ \A i \in DOMAIN jobs :
          /\ jobs'[i].addr = jobs[i].addr /\ jobs'[i].start = jobs[i].start
          /\ jobs'[i].end = jobs[i].end /\ jobs'[i].neighbors = jobs[i].neighbors

Grows == \A a \in Addresses : \A x \in Actions : stored[a][x] \subseteq stored'[a][x]

LEMMA SaveKeeps ==
    ASSUME TypeOK, pc # "idle", NEW st \in JobStatus,
           NEW m \in [Actions -> Int], NEW p \in Reports, Save(st, m, p)
    PROVE  KeepsJobs
BY SaveEffect DEF KeepsJobs

LEMMA SameJobsKeep == UNCHANGED jobs => KeepsJobs
BY DEF KeepsJobs

LEMMA SameGrows == UNCHANGED stored => Grows
BY DEF Grows

LEMMA StoreGrows ==
    ASSUME TypeOK, NEW to \in Int, Store(to)
    PROVE  Grows
BY TypeParts DEF Store, Grows, PlaceType, DatabaseType

LEMMA AddressFailsKeeps ==
    ASSUME TypeOK, pc # "idle", NEW h \in Int, AddressFails(h)
    PROVE  KeepsJobs
<1>1. mem \in [Actions -> Int] /\ prog \in Reports
  BY TypeParts DEF PlaceType
<1>2. SaveAt(h, "failed", mem, prog) \/ SaveAt(h, "running", mem, prog)
  BY DEF AddressFails
<1> QED  BY <1>1, <1>2, SaveAtEffect DEF KeepsJobs, JobStatus

LEMMA StepKeeps == TypeOK /\ [Next]_vars => KeepsJobs /\ Grows
<1> SUFFICES ASSUME TypeOK PROVE [Next]_vars => KeepsJobs /\ Grows
  OBVIOUS
<1>0. mem \in [Actions -> Int] /\ prog \in Reports /\ upto \in Int /\ pos \in Int /\ act \in Nat /\ hi \in Int
  BY TypeParts DEF PlaceType, Actions
<1>1. ASSUME NEW a \in Addresses, NEW s \in Starts, NEW e \in Ends, NEW n \in NeighborLimits,
             Enqueue(a, s, e, n)
      PROVE  KeepsJobs /\ Grows
  <2>1. KeepsJobs
    BY <1>1, EnqueueEffect DEF KeepsJobs
  <2> QED  BY <1>1, <2>1, SameGrows DEF Enqueue, dbVars
<1>2. ASSUME NEW i \in DOMAIN jobs, Stop(i) PROVE KeepsJobs /\ Grows
  <2>1. KeepsJobs
    BY <1>2, StopEffect DEF KeepsJobs, Stop, JobStatus
  <2> QED  BY <1>2, <2>1, SameGrows DEF Stop
<1>3. ASSUME Crash PROVE KeepsJobs /\ Grows
  <2>1. KeepsJobs
    BY <1>3, CrashEffect DEF KeepsJobs
  <2> QED  BY <1>3, <2>1, SameGrows DEF Crash, dbVars
<1>4. ASSUME Dequeue PROVE KeepsJobs /\ Grows
  <2>1. Grows
    BY <1>4, SameGrows DEF Dequeue, dbVars
  <2>2. Head(queue) \in DOMAIN jobs
    <3>1. queue # <<>> /\ queue \in Seq(Nat) /\ \A i \in DOMAIN queue : queue[i] \in DOMAIN jobs
      BY <1>4, TypeParts DEF Dequeue, QueueType
    <3>2. 1 \in DOMAIN queue /\ Head(queue) = queue[1]
      BY <3>1
    <3> QED  BY <3>1, <3>2
  <2>3. CASE UNCHANGED jobs
    BY <2>1, <2>3, SameJobsKeep
  <2>4. CASE jobs' = [jobs EXCEPT ![Head(queue)].status = "running"]
    BY <2>1, <2>2, <2>4, StopEffect DEF KeepsJobs, JobStatus
  <2> QED  BY <1>4, <2>3, <2>4 DEF Dequeue
<1>5. ASSUME PickNeighbors \/ StartNeighbor \/ Finish \/ JobFails PROVE KeepsJobs /\ Grows
  <2>1. pc # "idle" /\ UNCHANGED stored
    BY <1>5 DEF PickNeighbors, StartNeighbor, Finish, JobFails, dbVars
  <2>2. \E st \in JobStatus : Save(st, mem, prog)
    BY <1>5 DEF PickNeighbors, StartNeighbor, Finish, JobFails, JobStatus
  <2> QED  BY <1>0, <2>1, <2>2, SaveKeeps, SameGrows
<1>6. ASSUME Abandon \/ LookupCached \/ LookupMiss \/ NextGap \/ NextAction \/ StopAtLimit
             \/ AdvanceCut \/ Complete
      PROVE  KeepsJobs /\ Grows
  <2>1. UNCHANGED <<jobs, stored>>
    BY <1>6 DEF Abandon, LookupCached, LookupMiss, NextGap, NextAction, StopAtLimit, AdvanceCut,
                Complete, Conclude, jobVars, dbVars
  <2> QED  BY <2>1, SameJobsKeep, SameGrows
<1>7. ASSUME LookupFails \/ FetchFails \/ CompleteFails PROVE KeepsJobs /\ Grows
  <2>1. pc # "idle" /\ \E h \in Int : AddressFails(h)
    <3>1. safeHead \in Int
      BY TypeParts DEF PlaceType
    <3> QED  BY <1>7, <3>1, SafeHeadType DEF LookupFails, FetchFails, CompleteFails
  <2>2. KeepsJobs
    BY <2>1, AddressFailsKeeps
  <2>3. UNCHANGED stored \/ \E to \in Int : Store(to)
    BY <1>0, <1>7 DEF LookupFails, FetchFails, CompleteFails, Conclude, dbVars
  <2> QED  BY <2>2, <2>3, StoreGrows, SameGrows
<1>8. ASSUME List PROVE KeepsJobs /\ Grows
  <2>1. prog' \in Reports /\ Save("running", mem, prog') /\ pc # "idle" /\ UNCHANGED stored
    BY <1>0, <1>8 DEF List, Reports, dbVars
  <2> QED  BY <1>0, <2>1, SaveKeeps, SameGrows DEF JobStatus
<1>9. ASSUME Persist PROVE KeepsJobs /\ Grows
  BY <1>0, <1>9, StoreGrows, SameJobsKeep DEF Persist, jobVars
<1>10. ASSUME Advance PROVE KeepsJobs /\ Grows
  <2>1. /\ mem' \in [Actions -> Int] /\ Save("running", mem', prog) /\ pc # "idle"
        /\ UNCHANGED stored
    BY <1>0, <1>10 DEF Advance, MoveCheckpoint, dbVars
  <2> QED  BY <1>0, <2>1, SaveKeeps, SameGrows DEF JobStatus
<1>11. ASSUME UNCHANGED vars PROVE KeepsJobs /\ Grows
  BY <1>11, SameJobsKeep, SameGrows DEF vars, dbVars, jobVars
<1> QED
  BY <1>1, <1>2, <1>3, <1>4, <1>5, <1>6, <1>7, <1>8, <1>9, <1>10, <1>11 DEF Next
-----------------------------------------------------------------------------
(* What a step preserves by leaving things alone *)

LEMMA AloneShrinks ==
    ASSUME KeepsJobs, NEW a, Alone(a)'
    PROVE  Alone(a)
BY DEF KeepsJobs, Alone

\* A job document is sound over the records in S.
HoldsIn(S, c, p, a, s) ==
    \A x \in Actions :
        /\ s .. c[x] \subseteq S[a][x]
        /\ x < p.act => s .. p.hi \subseteq S[a][x]
        /\ x = p.act => s .. p.lo - 1 \subseteq S[a][x]

LEMMA JobHoldsIn ==
    ASSUME NEW i
    PROVE  /\ JobHolds(jobs[i]) <=>
                  HoldsIn(stored, jobs[i].ckpt, jobs[i].prog, jobs[i].addr, jobs[i].start)
           /\ JobHolds(jobs[i])' <=>
                  HoldsIn(stored', jobs'[i].ckpt, jobs'[i].prog, jobs'[i].addr, jobs'[i].start)
BY DEF JobHolds, HoldsTo, ReportHolds, HoldsIn

LEMMA HoldsInGrows ==
    ASSUME Grows, NEW c, NEW p, NEW a \in Addresses, NEW s, HoldsIn(stored, c, p, a, s)
    PROVE  HoldsIn(stored', c, p, a, s)
BY DEF Grows, HoldsIn

LEMMA JobsStillHold ==
    ASSUME TypeOK, JobsHold, KeepsJobs, Grows,
           \A i \in DOMAIN jobs' :
               \/ i \in DOMAIN jobs /\ jobs'[i].ckpt = jobs[i].ckpt /\ jobs'[i].prog = jobs[i].prog
               \/ Alone(jobs[i].addr)' => JobHolds(jobs[i])'
    PROVE  JobsHold'
<1> SUFFICES ASSUME NEW i \in DOMAIN jobs', Alone(jobs[i].addr)' PROVE JobHolds(jobs[i])'
  BY DEF JobsHold
<1>1. CASE i \in DOMAIN jobs /\ jobs'[i].ckpt = jobs[i].ckpt /\ jobs'[i].prog = jobs[i].prog
  <2>1. jobs'[i].addr = jobs[i].addr /\ jobs'[i].start = jobs[i].start /\ jobs[i].addr \in Addresses
    BY <1>1, JobsTyped DEF KeepsJobs
  <2>2. Alone(jobs[i].addr)
    BY <1>1, <2>1 DEF Alone, KeepsJobs
  <2>3. HoldsIn(stored, jobs[i].ckpt, jobs[i].prog, jobs[i].addr, jobs[i].start)
    BY <1>1, <2>2, JobHoldsIn DEF JobsHold
  <2> QED  BY <1>1, <2>1, <2>3, HoldsInGrows, JobHoldsIn
<1> QED  BY <1>1

LEMMA SavedAtHold ==
    ASSUME TypeOK, JobsHold, KeepsJobs, Grows, pc # "idle", NEW h \in Int, NEW st \in JobStatus,
           NEW m \in [Actions -> Int], NEW p \in Reports, SaveAt(h, st, m, p),
           Alone(Request.addr) => HoldsIn(stored', m, p, Request.addr, Request.start)
    PROVE  JobsHold'
<1>1. ASSUME NEW i \in DOMAIN jobs'
      PROVE  \/ i \in DOMAIN jobs /\ jobs'[i].ckpt = jobs[i].ckpt /\ jobs'[i].prog = jobs[i].prog
             \/ Alone(jobs[i].addr)' => JobHolds(jobs[i])'
  <2>1. i \in DOMAIN jobs /\ jobs'[i].addr = jobs[i].addr /\ jobs'[i].start = jobs[i].start
    BY SaveAtEffect
  <2>2. CASE i = job /\ jobs'[i].ckpt = m /\ jobs'[i].prog = p /\ Alone(jobs[i].addr)'
    <3>1. Alone(jobs[i].addr)
      BY <2>1, <2>2 DEF Alone, KeepsJobs
    <3>2. HoldsIn(stored', jobs'[i].ckpt, jobs'[i].prog, jobs'[i].addr, jobs'[i].start)
      BY <2>1, <2>2, <3>1 DEF Request
    <3> QED  BY <3>2, JobHoldsIn
  <2> QED  BY <2>1, <2>2, SaveAtEffect
<1> QED  BY <1>1, JobsStillHold

LEMMA CoverageKept ==
    ASSUME TypeOK, CoverageSound, SameCoverage, KeepsJobs, Grows, UNCHANGED cover
    PROVE  CoverageSound' /\ SameCoverage'
<1>1. ASSUME NEW a \in Addresses, Alone(a)', NEW x \in Actions
      PROVE  Claimed(cover[a][x])' \subseteq stored'[a][x]
  BY <1>1, AloneShrinks DEF CoverageSound, Sound, Grows
<1> QED  BY <1>1 DEF CoverageSound, Sound, SameCoverage

LEMMA AtRest ==
    ASSUME pc' \notin Fetching \cup {"gap", "complete"}, act' = 1, cut' => Truncates
    PROVE  PlaceOK' /\ AddressHolds'
BY DEF PlaceOK, AddressHolds, Fetching

LEMMA Resting ==
    ASSUME pc' = "idle", act' = 1, todo' = {}, cut' => Truncates
    PROVE  SeedFirst' /\ WorkerHolds' /\ PlaceOK' /\ AddressHolds'
BY AtRest DEF SeedFirst, WorkerHolds, Fetching

LEMMA RequestKept ==
    ASSUME TypeOK, KeepsJobs, pc # "idle", job' = job
    PROVE  /\ Request'.addr = Request.addr /\ Request'.start = Request.start
           /\ Request'.end = Request.end /\ Request'.neighbors = Request.neighbors
BY TypeParts DEF KeepsJobs, Request, PlaceType

LEMMA WorkerKept ==
    ASSUME TypeOK, KeepsJobs, Grows, pc # "idle", pc' # "idle", SeedFirst, WorkerHolds,
           UNCHANGED <<job, cur, docVars>>
    PROVE  (UNCHANGED todo => SeedFirst') /\ WorkerHolds'
<1>1. /\ Request'.addr = Request.addr /\ Request'.start = Request.start
      /\ Request'.neighbors = Request.neighbors
      /\ Request.addr \in Addresses /\ cur \in Addresses
  BY RequestKept, WindowType, TypeParts DEF PlaceType
<1>2. UNCHANGED todo => SeedFirst'
  BY <1>1 DEF SeedFirst, OnSeed
<1>3. ASSUME Alone(Request.addr)'
      PROVE  HoldsTo(mem, Request.addr, Request.start)' /\ ReportHolds(prog, Request.addr, Request.start)'
  <2>1. Alone(Request.addr)
    BY <1>1, <1>3 DEF Alone, KeepsJobs
  <2> QED  BY <1>1, <2>1 DEF WorkerHolds, HoldsTo, ReportHolds, Grows, docVars
<1>4. ASSUME Alone(cur)', ~OnSeed'
      PROVE  HoldsTo(resume, cur, Request.start)'
  <2>1. Alone(cur) /\ ~OnSeed
    BY <1>1, <1>4 DEF Alone, KeepsJobs, OnSeed
  <2> QED  BY <1>1, <2>1 DEF WorkerHolds, HoldsTo, Grows, docVars
<1> QED  BY <1>2, <1>3, <1>4 DEF WorkerHolds

LEMMA WindowKept ==
    ASSUME TypeOK, KeepsJobs, Grows, pc # "idle", UNCHANGED <<job, cur, safeHead, cover>>
    PROVE  /\ Want' = Want /\ Request'.start = Request.start
           /\ Alone(cur)' => Alone(cur)
           /\ \A x \in Actions : Gaps(Want, cover[cur][x])' = Gaps(Want, cover[cur][x])
           /\ \A x \in Actions : Fetched(x) => Fetched(x)'
<1>1. Want' = Want /\ Request'.start = Request.start
  BY RequestKept DEF Want, WindowEnd
<1>2. Alone(cur)' => Alone(cur)
  BY DEF Alone, KeepsJobs
<1>3. \A x \in Actions : Gaps(Want, cover[cur][x])' = Gaps(Want, cover[cur][x])
  BY <1>1
<1>4. ASSUME NEW x \in Actions, Fetched(x) PROVE Fetched(x)'
  BY <1>1, <1>3, <1>4, TypeParts DEF Fetched, Grows, PlaceType
<1> QED  BY <1>1, <1>2, <1>3, <1>4

\* A step elsewhere, while the worker stays where it is.
LEMMA ElsewhereKept ==
    ASSUME TypeOK, KeepsJobs, Grows, SeedFirst, WorkerHolds, PlaceOK, AddressHolds,
           UNCHANGED <<cover, workVars, docVars, safeHead, trunc, posVars>>
    PROVE  SeedFirst' /\ WorkerHolds' /\ PlaceOK' /\ AddressHolds'
<1> USE DEF workVars, posVars
<1>1. CASE pc = "idle"
  BY <1>1, Resting DEF PlaceOK, SeedFirst, Fetching
<1>2. CASE pc # "idle"
  <2>1. SeedFirst' /\ WorkerHolds'
    BY <1>2, WorkerKept
  <2>2. act \in Actions /\ cur \in Addresses
    BY TypeParts DEF PlaceType
  <2>3. PlaceOK'
    BY <1>2, <2>2, WindowKept DEF PlaceOK
  <2>4. AddressHolds'
    <3> SUFFICES ASSUME Alone(cur)' PROVE AddressHolds'
      BY DEF AddressHolds
    <3>1. /\ pc \in Fetching \cup {"gap"} => \A x \in Actions : x < act => Fetched(x)'
          /\ pc = "complete" /\ ~trunc => \A x \in Actions : Fetched(x)'
      BY <1>2, WindowKept DEF AddressHolds
    <3>2. /\ pc \in Fetching \/ (pc = "gap" /\ ~trunc) =>
                 Request'.start .. pos - 1 \subseteq stored'[cur][act]
          /\ pc = "advance" => Request'.start .. upto \subseteq stored'[cur][act]
      BY <1>2, <2>2, WindowKept DEF AddressHolds, Grows
    <3>3. pc = "gap" /\ ~trunc =>
              \A g \in Gaps(Want, cover[cur][act])' : g[1] < pos => g[2] < pos
      BY <1>2, <2>2, WindowKept DEF AddressHolds
    <3> QED  BY <3>1, <3>2, <3>3 DEF AddressHolds
  <2> QED  BY <2>1, <2>3, <2>4
<1> QED  BY <1>1, <1>2
-----------------------------------------------------------------------------
(* The invariant without the types, preserved action by action *)

Held ==
    /\ CoverageSound /\ SameCoverage
    /\ JobsHold /\ SeedFirst /\ WorkerHolds
    /\ PlaceOK /\ AddressHolds

LEMMA UnchangedJobsHold ==
    ASSUME TypeOK, JobsHold, KeepsJobs, Grows, UNCHANGED jobs
    PROVE  JobsHold'
BY JobsStillHold

LEMMA WorkerHoldsIn ==
    ASSUME TypeOK, WorkerHolds, Grows, pc # "idle", Alone(Request.addr)
    PROVE  HoldsIn(stored', mem, prog, Request.addr, Request.start)
<1>1. HoldsIn(stored, mem, prog, Request.addr, Request.start)
  BY DEF WorkerHolds, HoldsTo, ReportHolds, HoldsIn
<1> QED  BY <1>1, WindowType, HoldsInGrows

LEMMA SavedJobsHold ==
    ASSUME TypeOK, JobsHold, KeepsJobs, Grows, pc # "idle", NEW st \in JobStatus,
           NEW m \in [Actions -> Int], NEW p \in Reports, Save(st, m, p),
           Alone(Request.addr) => HoldsIn(stored', m, p, Request.addr, Request.start)
    PROVE  JobsHold'
BY SavedAtHold DEF Save, TypeOK

LEMMA SameSaveHolds ==
    ASSUME TypeOK, JobsHold, WorkerHolds, KeepsJobs, Grows, pc # "idle",
           NEW st \in JobStatus, Save(st, mem, prog)
    PROVE  JobsHold'
BY WorkerHoldsIn, SavedJobsHold, TypeParts DEF PlaceType

LEMMA SameSaveAtHolds ==
    ASSUME TypeOK, JobsHold, WorkerHolds, KeepsJobs, Grows, pc # "idle", NEW h \in Int,
           NEW st \in JobStatus, SaveAt(h, st, mem, prog)
    PROVE  JobsHold'
BY WorkerHoldsIn, SavedAtHold, TypeParts DEF PlaceType

\* Whatever a retry inherits lies over stored records.
LEMMA RetryHolds ==
    ASSUME TypeOK, JobsHold, NEW a \in Addresses, NEW s \in Nat, Alone(a)
    PROVE  HoldsTo(FindSyncCheckpoints(a, s), a, s)
<1>1. CASE FindSyncCheckpoints(a, s) = NoCheckpoints
  BY <1>1 DEF HoldsTo, NoCheckpoints, NoCheckpoint
<1>2. CASE \E i \in Matching(a, s) : FindSyncCheckpoints(a, s) = Checkpoints(jobs[i])
  <2>1. PICK i \in DOMAIN jobs : /\ jobs[i].addr = a /\ jobs[i].start = s
                                 /\ FindSyncCheckpoints(a, s) = Checkpoints(jobs[i])
    BY <1>2 DEF Matching
  <2>2. HoldsTo(jobs[i].ckpt, a, s) /\ ReportHolds(jobs[i].prog, a, s)
    BY <2>1 DEF JobsHold, JobHolds
  <2>3. HoldsTo(Legacy(jobs[i]), a, s)
    BY <2>1, <2>2, JobsTyped DEF HoldsTo, Legacy, ReportHolds, NoCheckpoint, Reports
  <2> QED  BY <2>1, <2>2, <2>3 DEF Checkpoints
<1> QED  BY <1>1, <1>2, CheckpointsOrigin

LEMMA EnqueueHeld ==
    ASSUME TypeOK, Held, KeepsJobs, Grows,
           NEW a \in Addresses, NEW s \in Starts, NEW e \in Ends, NEW n \in NeighborLimits,
           Enqueue(a, s, e, n)
    PROVE  Held'
<1>1. UNCHANGED <<cover, workVars, docVars, safeHead, trunc, posVars>>
  BY DEF Enqueue, dbVars, flagVars
<1>2. s \in Nat
  BY ConstantsAssumption
<1>3. ASSUME NEW i \in DOMAIN jobs', i \notin DOMAIN jobs, Alone(jobs[i].addr)'
      PROVE  JobHolds(jobs[i])'
  <2>1. /\ jobs'[i].addr = a /\ jobs'[i].start = s /\ jobs'[i].prog = NoProgress
        /\ jobs'[i].ckpt = FindSyncCheckpoints(a, s)
    BY <1>3, EnqueueEffect
  <2>2. Alone(a)
    BY <1>3, <2>1, AloneShrinks
  <2>3. HoldsTo(FindSyncCheckpoints(a, s), a, s)
    BY <1>2, <2>2, RetryHolds DEF Held
  <2>4. HoldsIn(stored', jobs'[i].ckpt, jobs'[i].prog, jobs'[i].addr, jobs'[i].start)
    BY <2>1, <2>3 DEF HoldsTo, HoldsIn, NoProgress, Grows, Actions
  <2> QED  BY <2>4, JobHoldsIn
<1>4. JobsHold'
  BY <1>3, EnqueueEffect, JobsStillHold DEF Held
<1> QED  BY <1>1, <1>4, CoverageKept, ElsewhereKept DEF Held

LEMMA StopHeld ==
    ASSUME TypeOK, Held, KeepsJobs, Grows, NEW i \in DOMAIN jobs, Stop(i)
    PROVE  Held'
<1>1. UNCHANGED <<cover, workVars, docVars, safeHead, trunc, posVars>>
  BY DEF Stop
<1>2. JobsHold'
  BY StopEffect, JobsStillHold DEF Held, Stop, JobStatus
<1> QED  BY <1>1, <1>2, CoverageKept, ElsewhereKept DEF Held

LEMMA CrashHeld ==
    ASSUME TypeOK, Held, KeepsJobs, Grows, Crash
    PROVE  Held'
<1>1. JobsHold'
  BY CrashEffect, JobsStillHold DEF Held
<1>2. UNCHANGED cover /\ pc' = "idle" /\ act' = 1 /\ todo' = {} /\ ~cut'
  BY DEF Crash, LeaveAddress, LeaveJob, dbVars
<1> QED  BY <1>1, <1>2, CoverageKept, Resting DEF Held

LEMMA AbandonHeld ==
    ASSUME TypeOK, Held, KeepsJobs, Grows, Abandon
    PROVE  Held'
<1>1. UNCHANGED <<cover, jobs>> /\ pc' = "idle" /\ act' = 1 /\ todo' = {} /\ ~cut'
  BY DEF Abandon, LeaveAddress, LeaveJob, dbVars, jobVars
<1> QED  BY <1>1, CoverageKept, UnchangedJobsHold, Resting DEF Held

LEMMA EndHeld ==
    ASSUME TypeOK, Held, KeepsJobs, Grows, Finish \/ JobFails
    PROVE  Held'
<1>1. /\ UNCHANGED cover /\ pc # "idle" /\ pc' = "idle" /\ act' = act /\ act = 1 /\ todo' = {}
      /\ (cut' => Truncates)
      /\ \E st \in JobStatus : Save(st, mem, prog)
  BY DEF Finish, JobFails, LeaveJob, dbVars, posVars, JobStatus, Held, PlaceOK, Fetching
<1> QED  BY <1>1, CoverageKept, SameSaveHolds, Resting DEF Held

LEMMA DequeueHeld ==
    ASSUME TypeOK, Held, KeepsJobs, Grows, Dequeue
    PROVE  Held'
<1>1. UNCHANGED cover /\ act' = act /\ act = 1 /\ pc = "idle" /\ todo = {}
      /\ (cut' => Truncates)
  BY DEF Dequeue, dbVars, posVars, Held, PlaceOK, SeedFirst, Fetching
<1>2. CASE UNCHANGED <<jobs, workVars, docVars>>
  <2>1. pc' = "idle" /\ todo' = {} /\ UNCHANGED jobs
    BY <1>1, <1>2 DEF workVars
  <2> QED  BY <1>1, <2>1, CoverageKept, UnchangedJobsHold, Resting DEF Held
<1>3. CASE /\ job' = Head(queue) /\ cur' = jobs[Head(queue)].addr /\ pc' = "lookup"
           /\ jobs' = [jobs EXCEPT ![Head(queue)].status = "running"]
           /\ mem' = jobs[Head(queue)].ckpt /\ prog' = jobs[Head(queue)].prog
           /\ UNCHANGED <<todo, resume>>
  <2> DEFINE i == Head(queue)
  <2>1. i \in DOMAIN jobs
    <3>1. queue # <<>> /\ queue \in Seq(Nat) /\ \A k \in DOMAIN queue : queue[k] \in DOMAIN jobs
      BY TypeParts DEF Dequeue, QueueType
    <3>2. 1 \in DOMAIN queue /\ Head(queue) = queue[1]
      BY <3>1
    <3> QED  BY <3>1, <3>2
  <2> HIDE DEF i
  <2>2. JobsHold'
    BY <1>3, <2>1, StopEffect, JobsStillHold DEF Held, i, JobStatus
  <2>3. /\ Request'.addr = jobs[i].addr /\ Request'.start = jobs[i].start
        /\ cur' = jobs[i].addr /\ OnSeed'
    BY <1>3, <2>1 DEF i, KeepsJobs, Request, OnSeed
  <2>4. ASSUME Alone(Request.addr)'
        PROVE  HoldsTo(mem, Request.addr, Request.start)' /\ ReportHolds(prog, Request.addr, Request.start)'
    <3>1. Alone(jobs[i].addr) /\ jobs[i].addr \in Addresses
      BY <2>1, <2>3, <2>4, JobsTyped DEF Alone, KeepsJobs
    <3>2. HoldsIn(stored', jobs[i].ckpt, jobs[i].prog, jobs[i].addr, jobs[i].start)
      BY <2>1, <3>1, JobHoldsIn, HoldsInGrows DEF JobsHold, Held
    <3> QED  BY <1>3, <2>3, <3>2 DEF HoldsTo, ReportHolds, HoldsIn, i
  <2>5. WorkerHolds'
    BY <2>3, <2>4 DEF WorkerHolds
  <2>6. SeedFirst'
    BY <1>1, <1>3, <2>3 DEF SeedFirst
  <2> QED  BY <1>1, <1>3, <2>2, <2>5, <2>6, CoverageKept, AtRest DEF Held, Fetching
<1> QED  BY <1>2, <1>3 DEF Dequeue

LEMMA PickNeighborsHeld ==
    ASSUME TypeOK, Held, KeepsJobs, Grows, PickNeighbors
    PROVE  Held'
<1>1. /\ UNCHANGED <<cover, job, cur, docVars>> /\ pc # "idle" /\ pc' = "done"
      /\ act' = act /\ act = 1 /\ (cut' => Truncates) /\ Save("running", mem, prog)
  BY DEF PickNeighbors, dbVars, posVars, Held, PlaceOK, Fetching
<1>2. SeedFirst'
  <2>1. PICK T \in SUBSET (Addresses \ {cur}) : Cardinality(T) <= Request.neighbors /\ todo' = T
    BY DEF PickNeighbors
  <2>2. IsFiniteSet(T)
    BY ConstantsAssumption, FS_Subset
  <2>3. T = {} \/ Request.neighbors > 0
    BY <1>1, <2>1, <2>2, FS_EmptySet, FS_CardinalityType, WindowType
  <2> QED  BY <1>1, <2>1, <2>3, RequestKept DEF Held, SeedFirst, OnSeed
<1> QED  BY <1>1, <1>2, CoverageKept, SameSaveHolds, WorkerKept, AtRest DEF Held, Fetching, JobStatus

LEMMA StartNeighborHeld ==
    ASSUME TypeOK, Held, KeepsJobs, Grows, StartNeighbor
    PROVE  Held'
<1>1. /\ UNCHANGED <<cover, job, mem, prog>> /\ pc # "idle" /\ pc' = "lookup"
      /\ act' = act /\ act = 1 /\ (cut' => Truncates) /\ Save("running", mem, prog)
  BY DEF StartNeighbor, dbVars, posVars, Held, PlaceOK, Fetching
<1>2. PICK n \in todo : /\ cur' = n /\ todo' = todo \ {n}
                        /\ resume' = FindSyncCheckpoints(n, Request.start)
  BY DEF StartNeighbor
<1>3. /\ Request'.addr = Request.addr /\ Request'.start = Request.start
      /\ Request'.neighbors = Request.neighbors /\ Request.start \in Nat /\ n \in Addresses
      /\ Request.addr \in Addresses
  BY <1>1, <1>2, RequestKept, WindowType, TypeParts DEF PlaceType
<1>4. SeedFirst'
  BY <1>1, <1>2, <1>3 DEF Held, SeedFirst
<1>5. ASSUME Alone(Request.addr)'
      PROVE  HoldsTo(mem, Request.addr, Request.start)' /\ ReportHolds(prog, Request.addr, Request.start)'
  <2>1. Alone(Request.addr)
    BY <1>3, <1>5, AloneShrinks
  <2>2. HoldsIn(stored', mem, prog, Request.addr, Request.start)
    BY <1>1, <2>1, WorkerHoldsIn DEF Held
  <2> QED  BY <1>1, <1>3, <2>2 DEF HoldsTo, ReportHolds, HoldsIn
<1>6. ASSUME Alone(cur)' PROVE HoldsTo(resume, cur, Request.start)'
  <2>1. Alone(n)
    BY <1>2, <1>6, AloneShrinks
  <2>2. HoldsTo(FindSyncCheckpoints(n, Request.start), n, Request.start)
    BY <1>3, <2>1, RetryHolds DEF Held
  <2> QED  BY <1>2, <1>3, <2>2 DEF HoldsTo, Grows
<1>7. WorkerHolds'
  BY <1>5, <1>6 DEF WorkerHolds
<1> QED  BY <1>1, <1>4, <1>7, CoverageKept, SameSaveHolds, AtRest DEF Held, Fetching, JobStatus

LEMMA AddressFailsHeld ==
    ASSUME TypeOK, Held, KeepsJobs, Grows, pc # "idle", NEW h \in Int, AddressFails(h)
    PROVE  JobsHold' /\ SeedFirst' /\ WorkerHolds' /\ PlaceOK' /\ AddressHolds'
<1>1. act' = 1 /\ ~cut'
  BY DEF AddressFails, LeaveAddress
<1>2. JobsHold'
  BY SameSaveAtHolds DEF Held, AddressFails, JobStatus
<1>3. CASE OnSeed
  BY <1>1, <1>2, <1>3, Resting DEF AddressFails, LeaveJob
<1>4. CASE ~OnSeed
  <2>1. UNCHANGED <<job, cur, todo, docVars>> /\ pc' = "done"
    BY <1>4 DEF AddressFails
  <2> QED  BY <1>1, <1>2, <2>1, WorkerKept, AtRest DEF Held, Fetching
<1> QED  BY <1>3, <1>4

LEMMA AddressDoneHeld ==
    ASSUME TypeOK, Held, KeepsJobs, Grows, pc # "idle", NEW p, AddressDone(p),
           UNCHANGED <<jobs, job, cur, todo, docVars>>
    PROVE  JobsHold' /\ SeedFirst' /\ WorkerHolds' /\ PlaceOK' /\ AddressHolds'
<1>1. pc' \in {"expand", "done"} /\ act' = 1 /\ ~cut'
  BY DEF AddressDone, LeaveAddress
<1> QED  BY <1>1, UnchangedJobsHold, WorkerKept, AtRest DEF Held, Fetching

LEMMA LookupFailsHeld ==
    ASSUME TypeOK, Held, KeepsJobs, Grows, LookupFails
    PROVE  Held'
BY SafeHeadType, AddressFailsHeld, CoverageKept DEF LookupFails, Held, dbVars

LEMMA FetchFailsHeld ==
    ASSUME TypeOK, Held, KeepsJobs, Grows, FetchFails
    PROVE  Held'
BY TypeParts, AddressFailsHeld, CoverageKept DEF FetchFails, Held, PlaceType

LEMMA LookupCachedHeld ==
    ASSUME TypeOK, Held, KeepsJobs, Grows, LookupCached
    PROVE  Held'
BY AddressDoneHeld, CoverageKept DEF LookupCached, Held, dbVars, jobVars
-----------------------------------------------------------------------------
(* Inside an address *)

LEMMA AloneOnSeed ==
    ASSUME TypeOK, pc # "idle", SeedFirst, Alone(Request.addr)
    PROVE  OnSeed
BY TypeParts DEF SeedFirst, Alone, Request, PlaceType

LEMMA ResumeHolds ==
    ASSUME TypeOK, pc # "idle", WorkerHolds, Alone(cur), NEW x \in Actions
    PROVE  Request.start .. Resume(x) \subseteq stored[cur][x]
BY DEF WorkerHolds, HoldsTo, Resume, OnSeed

\* Below the lowest gap left, everything is claimed or fetched.
LEMMA BelowGapStored ==
    ASSUME TypeOK, Held, pc = "gap", ~trunc, Alone(cur),
           NEW g \in GapsLeft, \A h \in GapsLeft : g[1] <= h[1]
    PROVE  Request.start .. g[1] - 1 \subseteq stored[cur][act]
<1>1. act \in Actions /\ cur \in Addresses /\ pos \in Int
  BY TypeParts DEF PlaceType
<1>2. /\ Want \in Ranges /\ cover[cur][act] \in Ranges /\ Want[1] = Request.start
      /\ g \in Gaps(Want, cover[cur][act]) /\ Gaps(Want, cover[cur][act]) \subseteq Ranges
      /\ Request.start \in Nat
  BY <1>1, WindowType DEF GapsLeft
<1>3. SUFFICES ASSUME NEW b \in Request.start .. g[1] - 1 PROVE b \in stored[cur][act]
  OBVIOUS
<1>4. CASE b \in Claimed(cover[cur][act])
  BY <1>1, <1>4 DEF Held, CoverageSound, Sound
<1>5. CASE \E h \in Gaps(Want, cover[cur][act]) : b \in h[1] .. h[2] /\ h[1] < g[1]
  <2>1. PICK h \in Gaps(Want, cover[cur][act]) : b \in h[1] .. h[2] /\ h[1] < g[1]
    BY <1>5
  <2>2. h[1] \in Int /\ h[2] \in Int /\ g[1] \in Int
    BY <1>2 DEF Ranges
  <2>3. h[1] < pos
    BY <1>1, <2>1, <2>2 DEF GapsLeft
  <2>4. h[2] < pos /\ Request.start .. pos - 1 \subseteq stored[cur][act]
    BY <2>3 DEF Held, AddressHolds
  <2> QED  BY <1>1, <1>2, <2>1, <2>2, <2>4
<1> QED  BY <1>2, <1>4, <1>5, BeforeGap

LEMMA NextGapHeld ==
    ASSUME TypeOK, Held, KeepsJobs, Grows, NextGap
    PROVE  Held'
<1>1. /\ UNCHANGED <<cover, stored, jobs, job, cur, todo, docVars, safeHead, trunc, act, upto, cut>>
      /\ pc = "gap" /\ ~trunc /\ (cut => Truncates)
  BY DEF NextGap, dbVars, jobVars, flagVars, Held, PlaceOK
<1>2. PICK g \in GapsLeft :
         /\ \A h \in GapsLeft : g[1] <= h[1]
         /\ LET from == Greater(g[1], Resume(act) + 1) IN
             \/ /\ from > g[2]
                /\ pos' = g[2] + 1
                /\ UNCHANGED <<pc, hi, last>>
             \/ /\ from <= g[2]
                /\ pos' = from /\ last' = g[2]
                /\ hi' \in (IF Splits THEN from .. g[2] ELSE {g[2]})
                /\ pc' = "list"
  BY DEF NextGap
<1> DEFINE from == Greater(g[1], Resume(act) + 1)
<1>3. /\ act \in Actions /\ cur \in Addresses /\ g \in Gaps(Want, cover[cur][act])
      /\ Want \in Ranges /\ cover[cur][act] \in Ranges /\ Gaps(Want, cover[cur][act]) \subseteq Ranges
      /\ Resume(act) \in Int /\ Request.start \in Nat
  BY <1>1, WindowType, TypeParts DEF GapsLeft, PlaceType
<1>4. g[1] \in Int /\ g[2] \in Int /\ from \in Int
  BY <1>3 DEF Ranges, Greater
<1>5. /\ Gaps(Want, cover[cur][act])' = Gaps(Want, cover[cur][act])
      /\ \A x \in Actions : x < act => (Fetched(x) => Fetched(x)')
      /\ Alone(cur)' => Alone(cur)
      /\ Request'.start = Request.start
  BY <1>1, <1>3, WindowKept
<1>6. Alone(cur) => Request.start .. from - 1 \subseteq stored[cur][act]
  <2>1. SUFFICES ASSUME Alone(cur), NEW b \in Request.start .. from - 1
                 PROVE  b \in stored[cur][act]
    OBVIOUS
  <2>2. CASE b < g[1]
    BY <1>1, <1>2, <1>3, <1>4, <2>1, <2>2, BelowGapStored
  <2>3. CASE b >= g[1]
    <3>1. b <= Resume(act)
      BY <1>3, <1>4, <2>3 DEF Greater
    <3> QED  BY <1>1, <1>3, <2>1, <3>1, ResumeHolds DEF Held
  <2> QED  BY <1>3, <1>4, <2>2, <2>3
<1>7. Alone(cur)' => \A x \in Actions : x < act => Fetched(x)'
  BY <1>1, <1>5 DEF Held, AddressHolds
<1>8. CASE from > g[2] /\ pos' = g[2] + 1 /\ UNCHANGED <<pc, hi, last>>
  <2>1. PlaceOK'
    BY <1>1, <1>8 DEF PlaceOK, Fetching
  <2>2. Alone(cur) => Request.start .. g[2] \subseteq stored[cur][act]
    BY <1>3, <1>4, <1>6, <1>8
  <2>3. \A h \in Gaps(Want, cover[cur][act]) : h[1] < g[2] + 1 => h[2] < g[2] + 1
    <3>1. SUFFICES ASSUME NEW h \in Gaps(Want, cover[cur][act]), h[1] < g[2] + 1
                   PROVE  h[2] < g[2] + 1
      OBVIOUS
    <3>2. h[1] \in Int /\ h[2] \in Int
      BY <1>3 DEF Ranges
    <3>3. h[1] <= g[2] => h[2] <= g[2]
      BY <1>3, GapsOrdered
    <3> QED  BY <1>4, <3>1, <3>2, <3>3
  <2>5. Alone(cur)' => Request'.start .. pos' - 1 \subseteq stored'[cur'][act']
    <3>0. pos' - 1 = g[2]
      BY <1>4, <1>8
    <3>1. stored' = stored /\ cur' = cur /\ act' = act
      BY <1>1
    <3>2. Alone(cur)' => Request'.start .. g[2] \subseteq stored[cur][act]
      BY <1>5, <2>2
    <3> QED  BY <3>0, <3>1, <3>2
  <2>6. \A h \in Gaps(Want, cover[cur][act])' : h[1] < pos' => h[2] < pos'
    BY <1>5, <1>8, <2>3
  <2>7. pc' = "gap"
    BY <1>1, <1>8
  <2>8. Alone(cur)' => \A x \in Actions : x < act' => Fetched(x)'
    BY <1>1, <1>7
  <2>9. AddressHolds'
    BY <2>5, <2>6, <2>7, <2>8 DEF AddressHolds, Fetching
  <2> QED  BY <1>1, <1>8, <2>1, <2>9, CoverageKept, UnchangedJobsHold, WorkerKept DEF Held
<1>9. CASE /\ from <= g[2] /\ pos' = from /\ last' = g[2]
           /\ hi' \in (IF Splits THEN from .. g[2] ELSE {g[2]})
           /\ pc' = "list"
  <2>1. hi' <= last' /\ (~Splits => hi' = last')
    BY <1>4, <1>9
  <2>2. PlaceOK'
    BY <1>1, <1>3, <1>5, <1>9, <2>1 DEF PlaceOK, Fetching
  <2>3. AddressHolds'
    BY <1>1, <1>5, <1>6, <1>7, <1>9 DEF AddressHolds, Fetching
  <2> QED  BY <1>1, <1>9, <2>2, <2>3, CoverageKept, UnchangedJobsHold, WorkerKept DEF Held
<1> QED  BY <1>2, <1>8, <1>9

\* No gap starts below the window.
LEMMA AtStart ==
    ASSUME NEW want \in Ranges, NEW have \in Ranges, NEW g \in Gaps(want, have), NEW p,
           p = want[1]
    PROVE  ~(g[1] < p)
<1>1. want[1] <= g[1] /\ want[1] \in Int /\ g[1] \in Int
  BY GapsOrdered, GapsType DEF Ranges
<1> QED  BY <1>1

LEMMA LookupMissHeld ==
    ASSUME TypeOK, Held, KeepsJobs, Grows, LookupMiss
    PROVE  Held'
<1>1. /\ UNCHANGED <<cover, stored, jobs, job, cur, todo, docVars, trunc, act, cut>>
      /\ pc = "lookup" /\ pc' = "gap" /\ act = 1 /\ (cut => Truncates) /\ pos' = Request.start
      /\ act \in Actions
  BY TypeParts DEF LookupMiss, jobVars, Held, PlaceOK, Fetching, PlaceType
<1>2. safeHead' \in Int
  BY SafeHeadType DEF LookupMiss
<1>3. /\ Request'.start = Request.start /\ Request'.end = Request.end
      /\ Request.start \in Nat /\ Request.end \in Nat /\ cover[cur][act] \in Ranges
  BY <1>1, RequestKept, WindowType
<1>4. Want' \in Ranges /\ Want'[1] = Request.start
  BY <1>2, <1>3 DEF Want, WindowEnd, Lesser, Ranges
<1>5. PlaceOK'
  BY <1>1 DEF PlaceOK, Fetching
<1>6. \A g \in Gaps(Want, cover[cur][act])' : ~(g[1] < pos')
  BY <1>1, <1>3, <1>4, AtStart
<1>7. AddressHolds'
  <2>1. \A x \in Actions : ~(x < act')
    BY <1>1 DEF Actions
  <2>2. Request'.start .. pos' - 1 = {}
    BY <1>1, <1>3
  <2> QED  BY <1>1, <1>6, <2>1, <2>2 DEF AddressHolds, Fetching
<1> QED  BY <1>1, <1>5, <1>7, CoverageKept, UnchangedJobsHold, WorkerKept DEF Held

LEMMA NextActionHeld ==
    ASSUME TypeOK, Held, KeepsJobs, Grows, NextAction
    PROVE  Held'
<1>1. /\ UNCHANGED <<cover, stored, jobs, job, cur, todo, docVars, safeHead, trunc, cut>>
      /\ pc = "gap" /\ ~trunc /\ (cut => Truncates) /\ GapsLeft = {}
  BY DEF NextAction, dbVars, jobVars, flagVars, Held, PlaceOK
<1>2. /\ act \in Actions /\ cur \in Addresses /\ pos \in Int
      /\ Want \in Ranges /\ Want[1] = Request.start /\ Request.start \in Nat
      /\ \A x \in Actions : cover[cur][x] \in Ranges /\ Gaps(Want, cover[cur][x]) \subseteq Ranges
  BY <1>1, WindowType, TypeParts DEF PlaceType
<1>3. /\ \A x \in Actions : Gaps(Want, cover[cur][x])' = Gaps(Want, cover[cur][x])
      /\ \A x \in Actions : Fetched(x) => Fetched(x)'
      /\ Alone(cur)' => Alone(cur)
      /\ Request'.start = Request.start
  BY <1>1, WindowKept
<1>4. Alone(cur) => Fetched(act)
  <2>1. SUFFICES ASSUME Alone(cur), NEW g \in Gaps(Want, cover[cur][act]),
                        NEW b \in Request.start .. g[2]
                 PROVE  b \in stored[cur][act]
    BY DEF Fetched
  <2>2. g[1] \in Int /\ g[2] \in Int
    BY <1>2 DEF Ranges
  <2>3. g[1] < pos
    BY <1>1, <1>2, <2>2 DEF GapsLeft
  <2>4. g[2] < pos /\ Request.start .. pos - 1 \subseteq stored[cur][act]
    BY <1>1, <2>1, <2>3 DEF Held, AddressHolds
  <2> QED  BY <1>2, <2>2, <2>4
<1>5. Alone(cur)' => \A x \in Actions : x <= act => Fetched(x)'
  BY <1>1, <1>2, <1>3, <1>4 DEF Held, AddressHolds, Actions, Fetching
<1>6. CASE act < NumActions /\ act' = act + 1 /\ pos' = Request.start /\ UNCHANGED pc
  <2>1. act' \in Actions /\ \A x \in Actions : x < act' => x <= act
    BY <1>2, <1>6, ConstantsAssumption DEF Actions
  <2>2. \A g \in Gaps(Want, cover[cur][act])' : ~(g[1] < pos')
    <3>1. Gaps(Want, cover[cur][act])' = Gaps(Want, cover[cur][act'])
      BY <1>1, <1>3, <2>1
    <3> QED  BY <1>2, <1>6, <2>1, <3>1, AtStart
  <2>3. Request'.start .. pos' - 1 = {}
    BY <1>2, <1>3, <1>6
  <2>4. AddressHolds'
    BY <1>1, <1>5, <1>6, <2>1, <2>2, <2>3 DEF AddressHolds, Fetching
  <2>5. PlaceOK'
    BY <1>1, <1>6 DEF PlaceOK, Fetching
  <2> QED  BY <1>1, <1>6, <2>4, <2>5, CoverageKept, UnchangedJobsHold, WorkerKept DEF Held
<1>7. CASE ~(act < NumActions) /\ pc' = "complete" /\ UNCHANGED <<act, pos>>
  <2>1. \A x \in Actions : x <= act
    BY <1>2, <1>7, ConstantsAssumption DEF Actions
  <2>2. AddressHolds'
    BY <1>5, <1>7, <2>1 DEF AddressHolds, Fetching
  <2>3. PlaceOK'
    BY <1>1, <1>7 DEF PlaceOK, Fetching
  <2> QED  BY <1>1, <1>7, <2>2, <2>3, CoverageKept, UnchangedJobsHold, WorkerKept DEF Held
<1> QED  BY <1>6, <1>7 DEF NextAction

LEMMA StopAtLimitHeld ==
    ASSUME TypeOK, Held, KeepsJobs, Grows, StopAtLimit
    PROVE  Held'
<1>1. /\ UNCHANGED <<cover, jobs, job, cur, todo, docVars, trunc, cut>>
      /\ pc = "gap" /\ trunc /\ pc' = "complete" /\ (cut => Truncates)
  BY DEF StopAtLimit, dbVars, jobVars, flagVars, posVars, Held, PlaceOK
<1>2. PlaceOK' /\ AddressHolds'
  BY <1>1 DEF PlaceOK, AddressHolds, Fetching
<1> QED  BY <1>1, <1>2, CoverageKept, UnchangedJobsHold, WorkerKept DEF Held

LEMMA ListHeld ==
    ASSUME TypeOK, Held, KeepsJobs, Grows, List
    PROVE  Held'
<1>1. /\ UNCHANGED <<cover, stored, job, cur, todo, mem, resume, safeHead, trunc, act, pos, last>>
      /\ pc = "list" /\ prog' = [act |-> act, lo |-> pos, hi |-> hi]
      /\ Save("running", mem, prog')
  BY DEF List, dbVars, flagVars
<1>2. /\ act \in Actions /\ cur \in Addresses /\ pos \in Int /\ hi \in Int /\ last \in Int
      /\ mem \in [Actions -> Int] /\ prog' \in Reports
      /\ Request.addr \in Addresses /\ Request.start \in Nat
  BY <1>1, WindowType, TypeParts, SMTT(40) DEF PlaceType, Reports, Actions
<1>3. PICK g \in Gaps(Want, cover[cur][act]) : last = g[2]
  BY <1>1 DEF Held, PlaceOK, Fetching
<1>4. hi <= last
  BY <1>1 DEF Held, PlaceOK, Fetching
<1>5. ASSUME Alone(Request.addr)
      PROVE  HoldsIn(stored', mem, prog', Request.addr, Request.start)
  <2>1. OnSeed /\ cur = Request.addr /\ Alone(cur)
    BY <1>1, <1>5, AloneOnSeed DEF Held, OnSeed
  <2>2. \A x \in Actions : Request.start .. mem[x] \subseteq stored[cur][x]
    BY <1>1, <1>5, <2>1 DEF Held, WorkerHolds, HoldsTo
  <2>3. ASSUME NEW x \in Actions, x < act PROVE Request.start .. hi \subseteq stored[cur][x]
    <3>1. Fetched(x)
      BY <1>1, <2>1, <2>3 DEF Held, AddressHolds, Fetching
    <3>2. g \in Gaps(Want, cover[cur][x])
      BY <1>2, <1>3 DEF Held, SameCoverage
    <3>3. Request.start .. last \subseteq stored[cur][x]
      BY <1>3, <3>1, <3>2 DEF Fetched
    <3> QED  BY <1>2, <1>4, <3>3
  <2>4. Request.start .. pos - 1 \subseteq stored[cur][act]
    BY <1>1, <2>1 DEF Held, AddressHolds, Fetching
  <2> QED  BY <1>1, <2>1, <2>2, <2>3, <2>4 DEF HoldsIn
<1>6. JobsHold'
  BY <1>1, <1>2, <1>5, SavedJobsHold DEF Held, JobStatus
<1>7. /\ Request'.addr = Request.addr /\ Request'.start = Request.start
      /\ Request'.neighbors = Request.neighbors
  BY <1>1, RequestKept
<1>8. pc' \in {"list", "persist"}
  BY <1>1 DEF List
<1>9. SeedFirst'
  BY <1>1, <1>7, <1>8 DEF Held, SeedFirst, OnSeed
<1>10. WorkerHolds'
  <2>1. ASSUME Alone(Request.addr)'
        PROVE  HoldsTo(mem, Request.addr, Request.start)' /\ ReportHolds(prog, Request.addr, Request.start)'
    <3>1. Alone(Request.addr)
      BY <1>2, <1>7, <2>1, AloneShrinks
    <3> QED  BY <1>1, <1>5, <1>7, <3>1 DEF HoldsIn, HoldsTo, ReportHolds
  <2>2. ASSUME Alone(cur)', ~OnSeed' PROVE HoldsTo(resume, cur, Request.start)'
    <3>1. Alone(cur) /\ ~OnSeed
      BY <1>1, <1>2, <1>7, <2>2, AloneShrinks DEF OnSeed
    <3> QED  BY <1>1, <1>7, <3>1 DEF Held, WorkerHolds, HoldsTo
  <2> QED  BY <2>1, <2>2 DEF WorkerHolds
<1>11. /\ \A x \in Actions : Gaps(Want, cover[cur][x])' = Gaps(Want, cover[cur][x])
       /\ \A x \in Actions : Fetched(x) => Fetched(x)'
       /\ Alone(cur)' => Alone(cur)
  BY <1>1, WindowKept
<1>12. PlaceOK'
  <2>1. (cut' => Truncates) /\ hi' <= last' /\ (~Splits => hi' = last')
    BY <1>1, <1>2 DEF List, Held, PlaceOK, Fetching
  <2>2. pc' # "list" => pos' <= upto' + 1 /\ upto' <= hi'
    BY <1>1, <1>2 DEF List
  <2>3. g \in Gaps(Want, cover[cur][act])' /\ last' = g[2]
    BY <1>1, <1>2, <1>3, <1>11
  <2> QED  BY <1>8, <2>1, <2>2, <2>3 DEF PlaceOK, Fetching
<1>13. AddressHolds'
  <2>1. SUFFICES ASSUME Alone(cur)' PROVE AddressHolds'
    BY DEF AddressHolds
  <2>2. Alone(cur)
    BY <1>11, <2>1
  <2>3. \A x \in Actions : x < act' => Fetched(x)'
    BY <1>1, <1>11, <2>2 DEF Held, AddressHolds, Fetching
  <2>4. Request.start .. pos - 1 \subseteq stored[cur][act]
    BY <1>1, <2>2 DEF Held, AddressHolds, Fetching
  <2>5. Request'.start .. pos' - 1 \subseteq stored'[cur'][act']
    BY <1>1, <1>7, <2>4
  <2> QED  BY <1>8, <2>3, <2>5 DEF AddressHolds, Fetching
<1> QED  BY <1>1, <1>6, <1>9, <1>10, <1>12, <1>13, CoverageKept DEF Held

LEMMA PersistHeld ==
    ASSUME TypeOK, Held, KeepsJobs, Grows, Persist
    PROVE  Held'
<1>1. /\ UNCHANGED <<cover, jobs, job, cur, todo, docVars, safeHead, act, pos, hi, last, upto, cut>>
      /\ pc = "persist" /\ pc' = "advance" /\ Store(upto)
  BY DEF Persist, jobVars, flagVars, posVars
<1>2. /\ act \in Actions /\ cur \in Addresses /\ pos \in Int /\ upto \in Int
      /\ Request.start \in Nat
  BY <1>1, WindowType, TypeParts DEF PlaceType
<1>3. /\ \A x \in Actions : Gaps(Want, cover[cur][x])' = Gaps(Want, cover[cur][x])
      /\ \A x \in Actions : Fetched(x) => Fetched(x)'
      /\ Alone(cur)' => Alone(cur) /\ Request'.start = Request.start
  BY <1>1, WindowKept
<1>4. Request'.start = Request.start
  BY <1>1, RequestKept
<1>5. stored'[cur][act] = stored[cur][act] \cup (pos .. upto)
  BY <1>1, <1>2, TypeParts DEF Store, DatabaseType
<1>6. PlaceOK'
  BY <1>1, <1>2, <1>3 DEF Held, PlaceOK, Fetching
<1>7. AddressHolds'
  <2>1. SUFFICES ASSUME Alone(cur)' PROVE AddressHolds'
    BY DEF AddressHolds
  <2>2. Alone(cur)
    BY <1>3, <2>1
  <2>3. \A x \in Actions : x < act' => Fetched(x)'
    BY <1>1, <1>3, <2>2 DEF Held, AddressHolds, Fetching
  <2>4. Request.start .. pos - 1 \subseteq stored[cur][act]
    BY <1>1, <2>2 DEF Held, AddressHolds, Fetching
  <2>5. /\ Request.start .. upto \subseteq stored'[cur][act]
        /\ Request.start .. pos - 1 \subseteq stored'[cur][act]
    BY <1>2, <1>5, <2>4
  <2> QED  BY <1>1, <1>4, <2>3, <2>5 DEF AddressHolds, Fetching
<1> QED  BY <1>1, <1>6, <1>7, CoverageKept, UnchangedJobsHold, WorkerKept DEF Held

LEMMA AdvanceHeld ==
    ASSUME TypeOK, Held, KeepsJobs, Grows, Advance
    PROVE  Held'
<1>1. /\ UNCHANGED <<cover, stored, job, cur, todo, prog, resume, safeHead, act>>
      /\ pc = "advance" /\ mem' = [mem EXCEPT ![act] = upto] /\ ~cut'
      /\ Save("running", mem', prog) /\ ResumeAt(upto + 1)
  BY DEF Advance, MoveCheckpoint, ResumeAt, dbVars
<1>2. /\ act \in Actions /\ cur \in Addresses /\ pos \in Int /\ hi \in Int /\ last \in Int
      /\ upto \in Int /\ mem \in [Actions -> Int] /\ prog \in Reports
      /\ Request.addr \in Addresses /\ Request.start \in Nat
      /\ Gaps(Want, cover[cur][act]) \subseteq Ranges
      /\ Want \in Ranges /\ cover[cur][act] \in Ranges
  BY <1>1, WindowType, TypeParts DEF PlaceType
<1>3. mem' \in [Actions -> Int] /\ mem'[act] = upto /\ \A x \in Actions \ {act} : mem'[x] = mem[x]
  BY <1>1, <1>2
<1>4. /\ upto <= hi /\ hi <= last /\ (~Splits => hi = last)
      /\ \E g \in Gaps(Want, cover[cur][act]) : last = g[2]
  BY <1>1 DEF Held, PlaceOK, Fetching
<1>5. Alone(cur) => Request.start .. upto \subseteq stored[cur][act]
  BY <1>1 DEF Held, AddressHolds
<1>6. ASSUME Alone(Request.addr)
      PROVE  HoldsIn(stored', mem', prog, Request.addr, Request.start)
  <2>1. OnSeed /\ cur = Request.addr /\ Alone(cur)
    BY <1>1, <1>6, AloneOnSeed DEF Held, OnSeed
  <2>2. HoldsIn(stored', mem, prog, Request.addr, Request.start)
    BY <1>1, <1>6, WorkerHoldsIn DEF Held
  <2>3. \A x \in Actions : Request.start .. mem'[x] \subseteq stored'[cur][x]
    BY <1>1, <1>3, <1>5, <2>1, <2>2 DEF HoldsIn
  <2> QED  BY <2>1, <2>2, <2>3 DEF HoldsIn
<1>7. JobsHold'
  BY <1>1, <1>2, <1>3, <1>6, SavedJobsHold DEF Held, JobStatus
<1>8. /\ Request'.addr = Request.addr /\ Request'.start = Request.start
      /\ Request'.neighbors = Request.neighbors
  BY <1>1, RequestKept
<1>9. pc' \in {"gap", "list"} /\ pos' = upto + 1
  BY <1>1 DEF ResumeAt
<1>10. SeedFirst'
  BY <1>1, <1>8, <1>9 DEF Held, SeedFirst, OnSeed
<1>11. WorkerHolds'
  <2>1. ASSUME Alone(Request.addr)'
        PROVE  HoldsTo(mem, Request.addr, Request.start)' /\ ReportHolds(prog, Request.addr, Request.start)'
    <3>1. Alone(Request.addr)
      BY <1>2, <1>8, <2>1, AloneShrinks
    <3> QED  BY <1>1, <1>6, <1>8, <3>1 DEF HoldsIn, HoldsTo, ReportHolds
  <2>2. ASSUME Alone(cur)', ~OnSeed' PROVE HoldsTo(resume, cur, Request.start)'
    <3>1. Alone(cur) /\ ~OnSeed
      BY <1>1, <1>2, <1>8, <2>2, AloneShrinks DEF OnSeed
    <3> QED  BY <1>1, <1>8, <3>1 DEF Held, WorkerHolds, HoldsTo
  <2> QED  BY <2>1, <2>2 DEF WorkerHolds
<1>12. /\ \A x \in Actions : Gaps(Want, cover[cur][x])' = Gaps(Want, cover[cur][x])
       /\ \A x \in Actions : Fetched(x) => Fetched(x)'
       /\ Alone(cur)' => Alone(cur)
  BY <1>1, WindowKept
<1>13. PlaceOK'
  <2>1. pc' = "list" => last' = last /\ hi' <= last /\ (~Splits => hi' = last)
    BY <1>1, <1>2, <1>4 DEF ResumeAt
  <2>2. \E g \in Gaps(Want, cover[cur][act])' : last = g[2]
    BY <1>1, <1>2, <1>4, <1>12
  <2> QED  BY <1>1, <1>9, <2>1, <2>2 DEF PlaceOK, Fetching
<1>14. AddressHolds'
  <2>1. SUFFICES ASSUME Alone(cur)' PROVE AddressHolds'
    BY DEF AddressHolds
  <2>2. Alone(cur)
    BY <1>12, <2>1
  <2>3. \A x \in Actions : x < act' => Fetched(x)'
    BY <1>1, <1>12, <2>2 DEF Held, AddressHolds, Fetching
  <2>4. Request'.start .. pos' - 1 \subseteq stored'[cur'][act']
    <3>1. pos' - 1 = upto
      BY <1>2, <1>9
    <3> QED  BY <1>1, <1>5, <1>8, <2>2, <3>1
  <2>5. pc' = "gap" => \A g \in Gaps(Want, cover[cur][act])' : g[1] < pos' => g[2] < pos'
    <3>1. SUFFICES ASSUME pc' = "gap", NEW h \in Gaps(Want, cover[cur][act]), h[1] < pos'
                   PROVE  h[2] < pos'
      BY <1>1, <1>2, <1>12
    <3>2. upto = last
      BY <1>1, <1>2, <1>4, <3>1 DEF ResumeAt
    <3>3. PICK g \in Gaps(Want, cover[cur][act]) : last = g[2]
      BY <1>4
    <3>4. h[1] \in Int /\ h[2] \in Int
      BY <1>2 DEF Ranges
    <3>5. h[1] <= g[2] => h[2] <= g[2]
      BY <1>2, GapsOrdered
    <3> QED  BY <1>2, <1>9, <3>1, <3>2, <3>3, <3>4, <3>5
  <2> QED  BY <1>9, <2>3, <2>4, <2>5 DEF AddressHolds, Fetching
<1> QED  BY <1>1, <1>7, <1>10, <1>11, <1>13, <1>14, CoverageKept DEF Held

\* The one step that needs the hypothesis: without splits the listing that was
\* cut is all the rest of its gap, so no listing moves the checkpoint past it.
LEMMA AdvanceCutHeld ==
    ASSUME TypeOK, Held, KeepsJobs, Grows, AdvanceCut, ~(Truncates /\ Splits)
    PROVE  Held'
<1>1. /\ UNCHANGED <<cover, stored, jobs, job, cur, todo, docVars, safeHead, act>>
      /\ pc = "advance" /\ cut /\ trunc' = TRUE /\ ~cut' /\ ResumeAt(hi + 1)
  BY DEF AdvanceCut, ResumeAt, dbVars, jobVars
<1>2. hi = last /\ hi \in Int
  BY <1>1, TypeParts DEF Held, PlaceOK, Fetching, PlaceType
<1>3. pc' = "gap"
  BY <1>1, <1>2 DEF ResumeAt
<1>4. /\ \A x \in Actions : Fetched(x) => Fetched(x)'
      /\ Alone(cur)' => Alone(cur)
  BY <1>1, WindowKept
<1>5. Alone(cur)' => \A x \in Actions : x < act' => Fetched(x)'
  BY <1>1, <1>4 DEF Held, AddressHolds, Fetching
<1>6. PlaceOK' /\ AddressHolds'
  BY <1>1, <1>3, <1>5 DEF PlaceOK, AddressHolds, Fetching
<1> QED  BY <1>1, <1>3, <1>6, CoverageKept, UnchangedJobsHold, WorkerKept DEF Held

\* An action whose gaps are fetched has its whole window stored.
LEMMA WindowStored ==
    ASSUME TypeOK, pc # "idle", NEW x \in Actions, Fetched(x),
           Claimed(cover[cur][x]) \subseteq stored[cur][x]
    PROVE  Want[1] .. Want[2] \subseteq stored[cur][x]
<1>1. /\ Want \in Ranges /\ cover[cur][x] \in Ranges /\ Want[1] = Request.start
      /\ Request.start \in Nat /\ Gaps(Want, cover[cur][x]) \subseteq Ranges
  BY WindowType
<1>2. \A g \in Gaps(Want, cover[cur][x]) : g[1] .. g[2] \subseteq stored[cur][x]
  <2>1. SUFFICES ASSUME NEW g \in Gaps(Want, cover[cur][x]), NEW b \in g[1] .. g[2]
                 PROVE  b \in stored[cur][x]
    OBVIOUS
  <2>2. Want[1] <= g[1] /\ g[1] \in Int /\ g[2] \in Int
    BY <1>1, GapsOrdered DEF Ranges
  <2>3. b \in Request.start .. g[2]
    BY <1>1, <2>2
  <2> QED  BY <2>3 DEF Fetched
<1> QED  BY <1>1, <1>2, GapsCompleteWindow

\* CompleteAddressSync merges only what was claimed or fetched.
LEMMA ConcludeSound ==
    ASSUME TypeOK, Held, KeepsJobs, Grows, pc = "complete", Conclude
    PROVE  CoverageSound' /\ SameCoverage'
<1>1. CASE trunc
  BY <1>1, CoverageKept DEF Conclude, Held
<1>2. CASE ~trunc
  <2>1. /\ UNCHANGED stored /\ cur \in Addresses /\ cover \in [Addresses -> [Actions -> Int \X Int]]
        /\ cover' = [cover EXCEPT ![cur] = [x \in Actions |-> Merge(Want, cover[cur][x])]]
    BY <1>2, TypeParts DEF Conclude, PlaceType, DatabaseType
  <2>2. /\ \A x \in Actions : cover'[cur][x] = Merge(Want, cover[cur][x])
        /\ \A a \in Addresses \ {cur} : cover'[a] = cover[a]
    BY <2>1
  <2>3. ASSUME NEW a \in Addresses, Alone(a)', NEW x \in Actions
        PROVE  Claimed(cover'[a][x]) \subseteq stored'[a][x]
    <3>1. Alone(a)
      BY <2>3, AloneShrinks
    <3>2. Claimed(cover[a][x]) \subseteq stored[a][x]
      BY <3>1 DEF Held, CoverageSound, Sound
    <3>3. CASE a # cur
      BY <2>1, <2>2, <3>2, <3>3
    <3>4. CASE a = cur
      <4>1. /\ Want \in Ranges /\ cover[cur][x] \in Ranges /\ Want[1] = Request.start
            /\ Request.start \in Nat /\ Gaps(Want, cover[cur][x]) \subseteq Ranges
        BY WindowType
      <4>2. Fetched(x)
        BY <1>2, <3>1, <3>4 DEF Held, AddressHolds
      <4>4. Want[1] .. Want[2] \subseteq stored[cur][x]
        BY <3>2, <3>4, <4>2, WindowStored
      <4>5. Claimed(Merge(Want, cover[cur][x])) \subseteq stored[cur][x]
        BY <3>2, <3>4, <4>1, <4>4, MergeSound
      <4> QED  BY <2>1, <2>2, <3>4, <4>5
    <3> QED  BY <3>3, <3>4
  <2>4. CoverageSound'
    BY <2>3 DEF CoverageSound, Sound
  <2>5. SameCoverage'
    BY <2>1, <2>2 DEF Held, SameCoverage
  <2> QED  BY <2>4, <2>5
<1> QED  BY <1>1, <1>2

LEMMA CompleteHeld ==
    ASSUME TypeOK, Held, KeepsJobs, Grows, Complete
    PROVE  Held'
<1>1. pc = "complete" /\ Conclude /\ AddressDone(trunc) /\ UNCHANGED <<jobs, job, cur, todo, docVars>>
  BY DEF Complete, jobVars
<1>2. CoverageSound' /\ SameCoverage'
  BY <1>1, ConcludeSound
<1>3. JobsHold' /\ SeedFirst' /\ WorkerHolds' /\ PlaceOK' /\ AddressHolds'
  BY <1>1, AddressDoneHeld
<1> QED  BY <1>2, <1>3 DEF Held

LEMMA CompleteFailsHeld ==
    ASSUME TypeOK, Held, KeepsJobs, Grows, CompleteFails
    PROVE  Held'
<1>1. pc = "complete" /\ AddressFails(safeHead) /\ (UNCHANGED dbVars \/ Conclude) /\ safeHead \in Int
  BY TypeParts DEF CompleteFails, PlaceType
<1>2. CoverageSound' /\ SameCoverage'
  BY <1>1, ConcludeSound, CoverageKept DEF Held, dbVars
<1>3. JobsHold' /\ SeedFirst' /\ WorkerHolds' /\ PlaceOK' /\ AddressHolds'
  BY <1>1, AddressFailsHeld
<1> QED  BY <1>2, <1>3 DEF Held
-----------------------------------------------------------------------------
LEMMA InitHeld == Init => IInv
<1> SUFFICES ASSUME Init PROVE IInv
  OBVIOUS
<1>1. CoverageSound /\ SameCoverage
  BY DEF Init, CoverageSound, Sound, Claimed, Valid, NoCoverage, SameCoverage
<1>2. JobsHold /\ SeedFirst /\ WorkerHolds /\ PlaceOK /\ AddressHolds
  BY DEF Init, JobsHold, SeedFirst, WorkerHolds, PlaceOK, AddressHolds, Fetching
<1> QED  BY <1>1, <1>2, InitType DEF IInv

LEMMA StepHeld ==
    ASSUME ~(Truncates /\ Splits)
    PROVE  IInv /\ [Next]_vars => IInv'
<1> SUFFICES ASSUME TypeOK, Held, KeepsJobs, Grows PROVE [Next]_vars => Held'
  BY StepKeeps, StepType DEF IInv, Held
<1>1. Next => Held'
  BY EnqueueHeld, StopHeld, CrashHeld, DequeueHeld, PickNeighborsHeld, StartNeighborHeld, EndHeld,
     AbandonHeld, LookupCachedHeld, LookupMissHeld, LookupFailsHeld, NextGapHeld, NextActionHeld,
     StopAtLimitHeld, ListHeld, PersistHeld, FetchFailsHeld, AdvanceHeld, AdvanceCutHeld,
     CompleteHeld, CompleteFailsHeld
     DEF Next
<1>2. ASSUME UNCHANGED vars PROVE Held'
  <2>1. UNCHANGED <<cover, jobs, workVars, docVars, safeHead, trunc, posVars>>
    BY <1>2 DEF vars, dbVars, jobVars, flagVars
  <2> QED  BY <2>1, CoverageKept, UnchangedJobsHold, ElsewhereKept DEF Held
<1> QED  BY <1>1, <1>2

\* The synchroniser's coverage is sound in every configuration whose listings do
\* not both reach the record limit and split.
THEOREM CoverageIsSound ==
    ASSUME ~(Truncates /\ Splits)
    PROVE  Spec => []CoverageSound
<1>1. IInv /\ [Next]_vars => IInv'
  BY StepHeld
<1>2. IInv => CoverageSound
  BY DEF IInv
<1> QED  BY InitHeld, <1>1, <1>2, PTL DEF Spec

\* So are the checkpoints that a retry of a failed or stopped job starts from.
THEOREM CheckpointsAreSound ==
    ASSUME ~(Truncates /\ Splits)
    PROVE  Spec => []CheckpointsSound
<1>1. IInv /\ [Next]_vars => IInv'
  BY StepHeld
<1>2. IInv => CheckpointsSound
  BY RetryHolds, ConstantsAssumption DEF IInv, CheckpointsSound, HoldsTo
<1> QED  BY InitHeld, <1>1, <1>2, PTL DEF Spec
-----------------------------------------------------------------------------
(* A job that succeeded has brought in its window *)

\* A job succeeds only where Finish finds its seed whole, and is saved with the safe
\* head it read.
KeepsSafe ==
    \A i \in DOMAIN jobs' :
        jobs'[i].status = "succeeded" =>
            /\ i \in DOMAIN jobs
            /\ \/ jobs[i].status = "succeeded" /\ jobs'[i].safe = jobs[i].safe
               \/ i = job /\ pc = "done" /\ ~partial /\ jobs'[i].safe = safeHead

LEMMA SaveKeepsSafe ==
    ASSUME TypeOK, pc # "idle", NEW st \in JobStatus,
           NEW m \in [Actions -> Int], NEW p \in Reports, Save(st, m, p),
           st = "succeeded" => pc = "done" /\ ~partial
    PROVE  KeepsSafe
BY SaveEffect DEF KeepsSafe

LEMMA SameJobsKeepSafe == UNCHANGED jobs => KeepsSafe
BY DEF KeepsSafe

LEMMA AddressFailsKeepsSafe ==
    ASSUME TypeOK, pc # "idle", NEW h \in Int, AddressFails(h)
    PROVE  KeepsSafe
<1>1. mem \in [Actions -> Int] /\ prog \in Reports
  BY TypeParts DEF PlaceType
<1>2. SaveAt(h, "failed", mem, prog) \/ SaveAt(h, "running", mem, prog)
  BY DEF AddressFails
<1> QED  BY <1>1, <1>2, SaveAtEffect DEF KeepsSafe, JobStatus

LEMMA StepKeepsSafe ==
    ASSUME TypeOK, [Next]_vars
    PROVE  KeepsSafe
<1>0. /\ mem \in [Actions -> Int] /\ prog \in Reports /\ upto \in Int /\ pos \in Int
      /\ act \in Nat /\ hi \in Int /\ safeHead \in Int
  BY TypeParts DEF PlaceType, Actions
<1>1. ASSUME NEW a \in Addresses, NEW s \in Starts, NEW e \in Ends, NEW n \in NeighborLimits,
             Enqueue(a, s, e, n)
      PROVE  KeepsSafe
  BY <1>1, EnqueueEffect DEF KeepsSafe
<1>2. ASSUME NEW i \in DOMAIN jobs, Stop(i) PROVE KeepsSafe
  BY <1>2, StopEffect DEF KeepsSafe, Stop, JobStatus
<1>3. ASSUME Crash PROVE KeepsSafe
  BY <1>3, CrashEffect DEF KeepsSafe
<1>4. ASSUME Dequeue PROVE KeepsSafe
  <2>1. Head(queue) \in DOMAIN jobs
    <3>1. queue # <<>> /\ queue \in Seq(Nat) /\ \A i \in DOMAIN queue : queue[i] \in DOMAIN jobs
      BY <1>4, TypeParts DEF Dequeue, QueueType
    <3>2. 1 \in DOMAIN queue /\ Head(queue) = queue[1]
      BY <3>1
    <3> QED  BY <3>1, <3>2
  <2>2. CASE UNCHANGED jobs
    BY <2>2, SameJobsKeepSafe
  <2>3. CASE jobs' = [jobs EXCEPT ![Head(queue)].status = "running"]
    BY <2>1, <2>3, StopEffect DEF KeepsSafe, JobStatus
  <2> QED  BY <1>4, <2>2, <2>3 DEF Dequeue
<1>5. ASSUME PickNeighbors \/ StartNeighbor \/ Finish \/ JobFails PROVE KeepsSafe
  <2>1. pc # "idle"
    BY <1>5 DEF PickNeighbors, StartNeighbor, Finish, JobFails
  <2>2. \E st \in JobStatus : Save(st, mem, prog) /\ (st = "succeeded" => pc = "done" /\ ~partial)
    BY <1>5 DEF PickNeighbors, StartNeighbor, Finish, JobFails, JobStatus
  <2> QED  BY <1>0, <2>1, <2>2, SaveKeepsSafe
<1>6. ASSUME Abandon \/ LookupCached \/ LookupMiss \/ NextGap \/ NextAction \/ StopAtLimit
             \/ Persist \/ AdvanceCut \/ Complete
      PROVE  KeepsSafe
  <2>1. UNCHANGED jobs
    BY <1>6 DEF Abandon, LookupCached, LookupMiss, NextGap, NextAction, StopAtLimit, Persist,
                AdvanceCut, Complete, jobVars
  <2> QED  BY <2>1, SameJobsKeepSafe
<1>7. ASSUME LookupFails \/ FetchFails \/ CompleteFails PROVE KeepsSafe
  <2>1. pc # "idle" /\ \E h \in Int : AddressFails(h)
    BY <1>0, <1>7, SafeHeadType DEF LookupFails, FetchFails, CompleteFails
  <2> QED  BY <2>1, AddressFailsKeepsSafe
<1>8. ASSUME List PROVE KeepsSafe
  <2>1. prog' \in Reports /\ Save("running", mem, prog') /\ pc # "idle"
    BY <1>0, <1>8 DEF List, Reports
  <2> QED  BY <1>0, <2>1, SaveKeepsSafe DEF JobStatus
<1>9. ASSUME Advance PROVE KeepsSafe
  <2>1. mem' \in [Actions -> Int] /\ Save("running", mem', prog) /\ pc # "idle"
    BY <1>0, <1>9 DEF Advance, MoveCheckpoint
  <2> QED  BY <1>0, <2>1, SaveKeepsSafe DEF JobStatus
<1>10. ASSUME UNCHANGED vars PROVE KeepsSafe
  BY <1>10, SameJobsKeepSafe DEF vars, jobVars
<1> QED
  BY <1>1, <1>2, <1>3, <1>4, <1>5, <1>6, <1>7, <1>8, <1>9, <1>10 DEF Next

\* What succeeded stays covered, and Finish adds a job whose seed is covered.
LEMMA StillCovered ==
    ASSUME TypeOK, KeepsJobs, Grows, KeepsSafe, SeedCovered, SucceededMeansCovered
    PROVE  SucceededMeansCovered'
<1> SUFFICES ASSUME NEW i \in DOMAIN jobs', jobs'[i].status = "succeeded", jobs'[i].safe # -1,
                    Alone(jobs[i].addr)', NEW x \in Actions
             PROVE  Listed(jobs'[i]) \subseteq stored'[jobs'[i].addr][x]
  BY DEF SucceededMeansCovered
<1>1. /\ i \in DOMAIN jobs
      /\ \/ jobs[i].status = "succeeded" /\ jobs'[i].safe = jobs[i].safe
         \/ i = job /\ pc = "done" /\ ~partial /\ jobs'[i].safe = safeHead
  BY DEF KeepsSafe
<1>2. /\ jobs'[i].addr = jobs[i].addr /\ jobs'[i].start = jobs[i].start
      /\ jobs'[i].end = jobs[i].end /\ jobs[i].addr \in Addresses
  BY <1>1, JobsTyped DEF KeepsJobs
<1>3. Alone(jobs[i].addr)
  BY <1>2, AloneShrinks
<1>4. Listed(jobs'[i]) \subseteq stored[jobs[i].addr][x]
  <2>1. CASE jobs[i].status = "succeeded" /\ jobs'[i].safe = jobs[i].safe
    BY <1>1, <1>2, <1>3, <2>1 DEF SucceededMeansCovered, Listed
  <2>2. CASE i = job /\ pc = "done" /\ ~partial /\ jobs'[i].safe = safeHead
    BY <1>2, <1>3, <2>2 DEF SeedCovered, Listed, Request, WindowEnd
  <2> QED  BY <1>1, <2>1, <2>2
<1> QED  BY <1>2, <1>4 DEF Grows

\* A worker that is idle promises nothing.
LEMMA IdleCovered ==
    ASSUME pc' = "idle", safeHead' = -1
    PROVE  HeadUnread' /\ SeedCovered'
BY DEF HeadUnread, SeedCovered

\* Nor does one in the middle of an address.
LEMMA BusyCovered ==
    ASSUME pc' \in Fetching \cup {"gap", "complete"}
    PROVE  HeadUnread' /\ SeedCovered'
BY DEF HeadUnread, SeedCovered, Fetching

LEMMA SeedStillCovered ==
    ASSUME TypeOK, KeepsJobs, Grows, SeedCovered, pc # "idle",
           pc' \in {"expand", "done"} => pc \in {"expand", "done"},
           UNCHANGED <<job, partial, safeHead>>
    PROVE  SeedCovered'
<1> SUFFICES ASSUME pc' \in {"expand", "done"}, ~partial', safeHead' # -1, Alone(Request.addr)',
                    NEW x \in Actions
             PROVE  Request'.start .. WindowEnd(safeHead)' \subseteq stored'[Request'.addr][x]
  BY DEF SeedCovered
<1>1. /\ Request'.addr = Request.addr /\ Request'.start = Request.start
      /\ Request'.end = Request.end /\ Request.addr \in Addresses
  BY RequestKept, WindowType
<1>2. Alone(Request.addr)
  BY <1>1, AloneShrinks
<1>3. Request.start .. WindowEnd(safeHead) \subseteq stored[Request.addr][x]
  BY <1>2 DEF SeedCovered
<1>4. WindowEnd(safeHead)' = WindowEnd(safeHead)
  BY <1>1 DEF WindowEnd
<1> QED  BY <1>1, <1>3, <1>4 DEF Grows

\* A step elsewhere, while the worker stays where it is.
LEMMA ElsewhereCovered ==
    ASSUME TypeOK, KeepsJobs, Grows, HeadUnread, SeedCovered,
           UNCHANGED <<pc, job, safeHead, partial>>
    PROVE  HeadUnread' /\ SeedCovered'
<1>1. CASE pc = "idle"
  BY <1>1, IdleCovered DEF HeadUnread
<1>2. CASE pc # "idle"
  <2>1. Request'.neighbors = Request.neighbors
    BY <1>2, RequestKept
  <2> QED  BY <1>2, <2>1, SeedStillCovered DEF HeadUnread
<1> QED  BY <1>1, <1>2

LEMMA AddressFailsCovered ==
    ASSUME NEW h, AddressFails(h)
    PROVE  HeadUnread' /\ SeedCovered'
BY DEF AddressFails, LeaveJob, HeadUnread, SeedCovered

\* A job without neighbours never leaves its seed, and a cached answer for it comes before
\* the safe head is read.
LEMMA CachedCovered ==
    ASSUME TypeOK, Held, KeepsJobs, HeadUnread, LookupCached
    PROVE  HeadUnread' /\ SeedCovered'
<1>1. pc = "lookup" /\ pc' \in {"expand", "done"} /\ UNCHANGED <<job, safeHead>>
  BY DEF LookupCached, AddressDone
<1>2. Request'.addr = Request.addr /\ Request.addr \in Addresses /\ job \in DOMAIN jobs
  BY <1>1, RequestKept, WindowType, TypeParts DEF PlaceType
<1>3. ASSUME Alone(Request.addr)' PROVE safeHead' = -1
  <2>1. Alone(Request.addr)
    BY <1>2, <1>3, AloneShrinks
  <2>2. Request.neighbors = 0
    BY <1>2, <2>1 DEF Alone, Request
  <2> QED  BY <1>1, <2>2 DEF HeadUnread
<1> QED  BY <1>1, <1>3 DEF HeadUnread, SeedCovered

\* The seed that is done, and was not cut by the record limit, is all there.
LEMMA CompleteCovered ==
    ASSUME TypeOK, Held, KeepsJobs, Grows, Complete
    PROVE  HeadUnread' /\ SeedCovered'
<1>1. /\ pc = "complete" /\ UNCHANGED <<job, safeHead, stored>> /\ pc' \in {"expand", "done"}
      /\ partial' = (partial \/ trunc)
  BY DEF Complete, Conclude, AddressDone
<1>2. SeedCovered'
  <2> SUFFICES ASSUME ~trunc, Alone(Request.addr)', NEW x \in Actions
               PROVE  Request'.start .. WindowEnd(safeHead)' \subseteq stored'[Request'.addr][x]
    BY <1>1 DEF SeedCovered
  <2>1. /\ Request'.addr = Request.addr /\ Request'.start = Request.start /\ Request'.end = Request.end
        /\ Request.addr \in Addresses /\ cur \in Addresses /\ job \in DOMAIN jobs
    BY <1>1, RequestKept, WindowType, TypeParts DEF PlaceType
  <2>2. Alone(Request.addr)
    BY <2>1, AloneShrinks
  <2>3. cur = Request.addr /\ Alone(cur)
    BY <1>1, <2>2, AloneOnSeed DEF Held, OnSeed
  <2>4. Fetched(x) /\ Claimed(cover[cur][x]) \subseteq stored[cur][x]
    BY <1>1, <2>1, <2>3 DEF Held, AddressHolds, CoverageSound, Sound
  <2>5. Want[1] .. Want[2] \subseteq stored[cur][x]
    BY <1>1, <2>4, WindowStored
  <2>6. WindowEnd(safeHead)' = WindowEnd(safeHead) /\ Want = <<Request.start, WindowEnd(safeHead)>>
    BY <1>1, <2>1 DEF Want, WindowEnd
  <2> QED  BY <1>1, <2>1, <2>3, <2>5, <2>6
<1> QED  BY <1>1, <1>2 DEF HeadUnread

LEMMA StepCovered ==
    ASSUME TypeOK, Held, KeepsJobs, Grows, Promised, [Next]_vars
    PROVE  HeadUnread' /\ SeedCovered'
<1> USE DEF Promised
<1>1. ASSUME \/ \E a \in Addresses, s \in Starts, e \in Ends, n \in NeighborLimits : Enqueue(a, s, e, n)
             \/ \E i \in DOMAIN jobs : Stop(i)
             \/ UNCHANGED vars
      PROVE  HeadUnread' /\ SeedCovered'
  <2>1. UNCHANGED <<pc, job, safeHead, partial>>
    BY <1>1 DEF Enqueue, Stop, vars, workVars, flagVars
  <2> QED  BY <2>1, ElsewhereCovered
<1>2. ASSUME Crash \/ Abandon \/ Finish \/ JobFails PROVE HeadUnread' /\ SeedCovered'
  BY <1>2, IdleCovered DEF Crash, Abandon, Finish, JobFails, LeaveJob
<1>3. ASSUME Dequeue PROVE HeadUnread' /\ SeedCovered'
  <2>1. pc = "idle" /\ safeHead' = -1 /\ pc' \in {"idle", "lookup"}
    BY <1>3 DEF Dequeue, HeadUnread, flagVars, workVars
  <2> QED  BY <2>1 DEF HeadUnread, SeedCovered
<1>4. ASSUME PickNeighbors PROVE HeadUnread' /\ SeedCovered'
  <2>1. /\ pc = "expand" /\ pc' = "done" /\ UNCHANGED <<job, safeHead, partial>>
    BY <1>4 DEF PickNeighbors, flagVars
  <2> QED  BY <2>1, SeedStillCovered DEF HeadUnread
<1>5. ASSUME StartNeighbor PROVE HeadUnread' /\ SeedCovered'
  <2>1. pc = "done" /\ pc' = "lookup" /\ todo # {} /\ UNCHANGED job
    BY <1>5 DEF StartNeighbor
  <2>2. Request'.neighbors = Request.neighbors /\ Request.neighbors > 0
    BY <2>1, RequestKept DEF Held, SeedFirst
  <2> QED  BY <2>1, <2>2 DEF HeadUnread, SeedCovered
<1>6. ASSUME LookupMiss \/ NextGap \/ NextAction \/ StopAtLimit \/ List \/ Persist \/ Advance \/ AdvanceCut
      PROVE  HeadUnread' /\ SeedCovered'
  <2>1. pc' \in Fetching \cup {"gap", "complete"}
    BY <1>6 DEF LookupMiss, NextGap, NextAction, StopAtLimit, List, Persist, Advance, AdvanceCut, ResumeAt,
                Fetching
  <2> QED  BY <2>1, BusyCovered
<1>7. ASSUME LookupFails \/ FetchFails \/ CompleteFails PROVE HeadUnread' /\ SeedCovered'
  BY <1>7, AddressFailsCovered DEF LookupFails, FetchFails, CompleteFails
<1> QED
  BY <1>1, <1>2, <1>3, <1>4, <1>5, <1>6, <1>7, CachedCovered, CompleteCovered DEF Next

LEMMA InitPromised == Init => Promised
<1> SUFFICES ASSUME Init PROVE Promised
  OBVIOUS
<1>1. jobs = <<>> /\ pc = "idle" /\ safeHead = -1
  BY DEF Init
<1> QED  BY <1>1 DEF Promised, HeadUnread, SeedCovered, SucceededMeansCovered

\* In every configuration whose listings do not both reach the record limit and split, a
\* job that ended "succeeded" and read the safe head has the records of its window stored.
THEOREM SucceededIsCovered ==
    ASSUME ~(Truncates /\ Splits)
    PROVE  Spec => []SucceededMeansCovered
<1>1. IInv /\ [Next]_vars => IInv'
  BY StepHeld
<1>2. IInv /\ Promised /\ [Next]_vars => Promised'
  <2> SUFFICES ASSUME IInv, Promised, [Next]_vars PROVE Promised'
    OBVIOUS
  <2>1. TypeOK /\ Held /\ KeepsJobs /\ Grows /\ KeepsSafe
    BY StepKeeps, StepKeepsSafe DEF IInv, Held
  <2> QED  BY <2>1, StepCovered, StillCovered DEF Promised
<1>3. Promised => SucceededMeansCovered
  BY DEF Promised
<1> QED  BY InitHeld, InitPromised, <1>1, <1>2, <1>3, PTL DEF Spec
=============================================================================
