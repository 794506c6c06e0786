--------------------------- MODULE TraceJobsProofs ---------------------------
(***************************************************************************)
(* Keys, merged extensions and recorded outcomes of traces, for every      *)
(* number of traces, sync jobs, goroutines and addresses and every queue   *)
(* size.                                                                   *)
(***************************************************************************)
EXTENDS TraceJobs, SequenceTheorems, WellFoundedInduction, TLAPS

SyncStates == {"none", "failed", "stopped"} \cup Sync!Live \cup Sync!Result
TraceStates == {"none"} \cup Live \cup Ended
Senders == [pc : {"send"}, job : Traces] \cup {Idle}
Stops == [pc : {"save", "cancel", "sync", "syncsave"}, job : Traces,
          ids : SUBSET Syncs, sync : 0 .. MaxSyncs]
Workers == [pc : Places, job : 0 .. MaxTraces, ids : SUBSET Syncs, wait : 0 .. MaxSyncs,
            need : Addresses, tried : SUBSET Dependencies, lost : SUBSET Addresses,
            partial : BOOLEAN, out : SUBSET Traces, base : Documents]

\* Nobody's trace is no trace, and indices are numbers.
LEMMA Indices ==
    /\ NoTrace \notin Traces /\ NoTrace \in 0 .. MaxTraces /\ NoSync \in 0 .. MaxSyncs
    /\ Traces \subseteq 0 .. MaxTraces /\ Syncs \subseteq 0 .. MaxSyncs
    /\ \A i \in 0 .. MaxTraces : i # NoTrace => i \in Traces
    /\ \A k \in 0 .. MaxSyncs : k # NoSync => k \in Syncs
    /\ 0 .. MaxTraces \subseteq Nat /\ 0 .. MaxSyncs \subseteq Nat
BY ConstantsAssumption DEF Traces, NoTrace, Syncs, NoSync

\* A worker begins with nothing.
LEMMA WorkingType ==
    ASSUME NEW p \in Places, NEW i \in 0 .. MaxTraces
    PROVE  /\ Working(p, i) \in Workers
           /\ Working(p, i).pc = p /\ Working(p, i).job = i
           /\ Working(p, i).ids = {} /\ Working(p, i).base = NoRoot
<1>1. (CHOOSE a \in Addresses : TRUE) \in Addresses
  BY ConstantsAssumption
<1>2. NoRoot \in Documents
  BY DEF NoRoot, Documents
<1> QED  BY <1>1, <1>2, Indices DEF Working, Workers

\* What the type of a hand says of its fields.
LEMMA Hands ==
    ASSUME TypeOK
    PROVE  /\ \A e \in Enqueuers :
                 /\ sender[e] \in Senders /\ sender[e].job \in 0 .. MaxTraces
                 /\ sender[e].pc = "send" => sender[e].job \in Traces
                 /\ sender[e].job = NoTrace <=> sender[e] = Idle
                 /\ sender[e].pc = "send" <=> sender[e] # Idle
           /\ \A s \in Stoppers :
                 /\ stopper[s].job \in 0 .. MaxTraces /\ stopper[s].ids \subseteq Syncs
                 /\ stopper[s] # NotStopping => stopper[s] \in Stops /\ stopper[s].job \in Traces
                 /\ stopper[s].pc = "idle" <=> stopper[s] = NotStopping
           /\ \A k \in DOMAIN queue : queue[k] \in Traces
           /\ worker \in Workers /\ Job \in 0 .. MaxTraces
           /\ worker.pc = "idle" => Job = NoTrace
           /\ Resting \in Workers /\ Resting.pc = "idle" /\ Resting.job = NoTrace
<1>1. ASSUME NEW e \in Enqueuers
      PROVE  /\ sender[e] \in Senders /\ sender[e].job \in 0 .. MaxTraces
             /\ sender[e].pc = "send" => sender[e].job \in Traces
             /\ sender[e].job = NoTrace <=> sender[e] = Idle
             /\ sender[e].pc = "send" <=> sender[e] # Idle
  <2>1. sender[e] \in Senders
    BY DEF TypeOK, Senders
  <2>2. CASE sender[e] = Idle
    BY <2>1, <2>2, Indices DEF Idle
  <2>3. CASE sender[e] \in [pc : {"send"}, job : Traces]
    <3>1. sender[e].pc = "send" /\ sender[e].job \in Traces
      BY <2>3
    <3>2. Idle.pc = "idle"
      BY DEF Idle
    <3> QED  BY <2>1, <3>1, <3>2, Indices
  <2> QED  BY <2>1, <2>2, <2>3 DEF Senders
<1>2. ASSUME NEW s \in Stoppers
      PROVE  /\ stopper[s].job \in 0 .. MaxTraces /\ stopper[s].ids \subseteq Syncs
             /\ stopper[s] # NotStopping => stopper[s] \in Stops /\ stopper[s].job \in Traces
             /\ stopper[s].pc = "idle" <=> stopper[s] = NotStopping
  <2>1. stopper[s] \in Stops \cup {NotStopping}
    BY DEF TypeOK, Stops
  <2>2. CASE stopper[s] = NotStopping
    BY <2>2, Indices DEF NotStopping
  <2>3. CASE stopper[s] \in Stops
    <3>1. /\ stopper[s].pc # "idle" /\ stopper[s].job \in Traces /\ stopper[s].ids \subseteq Syncs
      BY <2>3 DEF Stops
    <3>2. NotStopping.pc = "idle"
      BY DEF NotStopping
    <3> QED  BY <2>3, <3>1, <3>2, Indices
  <2> QED  BY <2>1, <2>2, <2>3
<1>3. \A k \in DOMAIN queue : queue[k] \in Traces
  BY DEF TypeOK
<1>4. worker \in Workers /\ Job \in 0 .. MaxTraces
  BY DEF TypeOK, Workers, Job
<1>5. Resting \in Workers /\ Resting.pc = "idle" /\ Resting.job = NoTrace
  BY WorkingType, Indices DEF Resting, Places
<1>6. worker.pc = "idle" => Job = NoTrace
  BY <1>5 DEF TypeOK, Job
<1> QED  BY <1>1, <1>2, <1>3, <1>4, <1>5, <1>6

\* Every map is a function on its set, the queue is 1 .. Len(queue) long.
LEMMA Shapes ==
    ASSUME TypeOK
    PROVE  /\ DOMAIN sender = Enqueuers /\ sender = [e \in Enqueuers |-> sender[e]]
           /\ DOMAIN stopper = Stoppers /\ stopper = [s \in Stoppers |-> stopper[s]]
           /\ DOMAIN status = Traces /\ DOMAIN syncs = Traces /\ DOMAIN result = Traces
           /\ DOMAIN seed = Traces /\ DOMAIN variant = Traces /\ DOMAIN root = Traces
           /\ DOMAIN active = Addresses \X Variants /\ DOMAIN extending = Traces
           /\ DOMAIN syncStatus = Syncs /\ DOMAIN syncAddr = Syncs /\ DOMAIN syncActive = Addresses
           /\ Len(queue) \in Nat /\ DOMAIN queue = 1 .. Len(queue) /\ queue \in Seq(Traces)
           /\ created \in Nat /\ syncCreated \in Nat
BY Indices DEF TypeOK

\* A saved document is one.
LEMMA SaveType ==
    ASSUME TypeOK, NEW i, NEW st \in TraceStates, NEW ids \in SUBSET Syncs,
           NEW out \in SUBSET Traces, Save(i, st, ids, out)
    PROVE  /\ status' \in [Traces -> TraceStates]
           /\ syncs' \in [Traces -> SUBSET Syncs]
           /\ result' \in [Traces -> SUBSET Traces]
BY DEF Save, TypeOK, TraceStates

\* Wherever the worker goes, it keeps its job, and forgets what it does not need.
LEMMA GotoKeeps ==
    ASSUME TypeOK, NEW p \in Places \ {"idle"}, Goto(p)
    PROVE  /\ worker' \in Workers /\ worker'.pc = p /\ worker'.job = worker.job
           /\ p \notin {"release", "fail", "failsave"} =>
                 /\ worker'.ids = worker.ids /\ worker'.wait = worker.wait
                 /\ worker'.partial = worker.partial /\ worker'.base = worker.base
<1>1. worker \in Workers /\ worker.job \in 0 .. MaxTraces
  BY Hands DEF Job
<1>2. CASE p = "release"
  BY <1>1, <1>2, WorkingType DEF Goto, Job
<1>3. CASE p \in {"fail", "failsave"}
  <2>1. worker' = [Working(p, Job) EXCEPT !.ids = worker.ids, !.out = worker.out]
    BY <1>3 DEF Goto
  <2>2. Working(p, Job) \in Workers /\ Working(p, Job).pc = p /\ Working(p, Job).job = Job
    BY <1>1, WorkingType DEF Job
  <2>3. worker.ids \in SUBSET Syncs /\ worker.out \in SUBSET Traces
    BY <1>1 DEF Workers
  <2> QED  BY <1>3, <2>1, <2>2, <2>3 DEF Workers, Job
<1>4. CASE p \notin {"release", "fail", "failsave"}
  <2>1. worker' = [worker EXCEPT !.pc = p]
    BY <1>4 DEF Goto
  <2> QED  BY <1>1, <2>1 DEF Workers
<1> QED  BY <1>2, <1>3, <1>4

\* A save of the worker's own document, or a failure.
LEMMA SaveStepKeeps ==
    ASSUME TypeOK, NEW place, NEW st \in TraceStates, NEW then \in Places \ {"idle"},
           SaveStep(place, st, then)
    PROVE  /\ worker.pc = place /\ Writing
           /\ \/ Save(Job, st, worker.ids, worker.out) /\ Goto(then)
              \/ Goto("fail") /\ UNCHANGED docVars
           /\ status' \in [Traces -> TraceStates]
           /\ syncs' \in [Traces -> SUBSET Syncs]
           /\ result' \in [Traces -> SUBSET Traces]
           /\ worker' \in Workers /\ worker'.pc \in {then, "fail"} /\ worker'.job = worker.job
<1>1. worker.ids \in SUBSET Syncs /\ worker.out \in SUBSET Traces
  BY Hands DEF Workers
<1>2. CASE Save(Job, st, worker.ids, worker.out) /\ Goto(then)
  BY <1>1, <1>2, SaveType, GotoKeeps DEF SaveStep
<1>3. CASE Goto("fail") /\ UNCHANGED docVars
  <2>1. "fail" \in Places \ {"idle"}
    BY DEF Places
  <2> QED  BY <1>3, <2>1, GotoKeeps DEF SaveStep, docVars, TypeOK, TraceStates
<1> QED  BY <1>2, <1>3 DEF SaveStep

LEMMA WritingType ==
    ASSUME TypeOK, Writing, worker' \in Workers, worker'.pc # "idle",
           status' \in [Traces -> TraceStates],
           syncs' \in [Traces -> SUBSET Syncs],
           result' \in [Traces -> SUBSET Traces]
    PROVE  TypeOK'
BY DEF TypeOK, Writing, Workers, TraceStates, syncVars, newVars, keyVars, callVars

LEMMA SilentType ==
    ASSUME TypeOK, Silent, worker' \in Workers, worker'.pc # "idle"
    PROVE  TypeOK'
<1>1. /\ status' \in [Traces -> TraceStates]
      /\ syncs' \in [Traces -> SUBSET Syncs]
      /\ result' \in [Traces -> SUBSET Traces]
  BY DEF Silent, docVars, TypeOK, TraceStates
<1> QED  BY <1>1, WritingType DEF Silent

\* A step of the sync service leaves its documents documents.
LEMMA SyncType ==
    ASSUME TypeOK
    PROVE  /\ \A a \in Addresses : Sync!Enqueue(a) =>
                 /\ syncStatus' \in [Syncs -> SyncStates] /\ syncAddr' \in [Syncs -> Addresses]
                 /\ syncActive' \in [Addresses -> 0 .. MaxSyncs] /\ syncCreated' \in Syncs
                 /\ syncOpen' \subseteq Syncs
           /\ \A k \in 0 .. MaxSyncs :
                 /\ Sync!Run(k) \/ Sync!Stop(k) => syncStatus' \in [Syncs -> SyncStates]
                 /\ \A st \in Sync!Result \cup {"failed"} :
                       Sync!Finish(k, st) => syncStatus' \in [Syncs -> SyncStates] /\ syncOpen' \subseteq Syncs
           /\ \A a \in Addresses : Sync!Release(a) => syncActive' \in [Addresses -> 0 .. MaxSyncs]
           /\ Sync!Sweep => syncStatus' \in [Syncs -> SyncStates]
<1> USE DEF TypeOK, SyncStates
<1>1. ASSUME NEW a \in Addresses, Sync!Enqueue(a)
      PROVE  /\ syncStatus' \in [Syncs -> SyncStates] /\ syncAddr' \in [Syncs -> Addresses]
             /\ syncActive' \in [Addresses -> 0 .. MaxSyncs] /\ syncCreated' \in Syncs
             /\ syncOpen' \subseteq Syncs
  <2>1. syncCreated' = syncCreated + 1 /\ syncCreated' \in Syncs /\ syncCreated' \in 0 .. MaxSyncs
    BY <1>1, ConstantsAssumption DEF Sync!Enqueue, Syncs
  <2> QED  BY <1>1, <2>1 DEF Sync!Enqueue, Sync!Live
<1>2. ASSUME NEW k \in 0 .. MaxSyncs, Sync!Run(k) \/ Sync!Stop(k)
      PROVE  syncStatus' \in [Syncs -> SyncStates]
  BY <1>2 DEF Sync!Run, Sync!Stop, Sync!Live
<1>3. ASSUME NEW k \in 0 .. MaxSyncs, NEW st \in Sync!Result \cup {"failed"}, Sync!Finish(k, st)
      PROVE  syncStatus' \in [Syncs -> SyncStates] /\ syncOpen' \subseteq Syncs
  BY <1>3 DEF Sync!Finish
<1>4. ASSUME NEW a \in Addresses, Sync!Release(a)
      PROVE  syncActive' \in [Addresses -> 0 .. MaxSyncs]
  BY <1>4, Indices DEF Sync!Release, Sync!NoJob, NoSync
<1>5. ASSUME Sync!Sweep PROVE syncStatus' \in [Syncs -> SyncStates]
  BY <1>5 DEF Sync!Sweep, Sync!Jobs, Syncs
<1> QED  BY <1>1, <1>2, <1>3, <1>4, <1>5

\* Enqueue and EnqueueExtension.
LEMMA CreateType ==
    ASSUME TypeOK, NEW e \in Enqueuers, NEW a \in Addresses, NEW v \in Variants,
           NEW r \in 0 .. MaxTraces, Create(e, a, v, r),
           active' \in [Addresses \X Variants -> 0 .. MaxTraces] \/ created' \notin Traces,
           extending' \in [Traces -> 0 .. MaxTraces] \/ created' \notin Traces
    PROVE  TypeOK'
<1> USE DEF TypeOK
<1>1. created' \in Traces /\ created' \in 0 .. MaxTraces
  BY ConstantsAssumption DEF Create, Traces
<1>2. /\ status' \in [Traces -> {"none"} \cup Live \cup Ended]
      /\ seed' \in [Traces -> Addresses] /\ variant' \in [Traces -> Variants]
      /\ root' \in [Traces -> 0 .. MaxTraces]
  BY DEF Create, Live
<1>3. sender' \in [Enqueuers -> [pc : {"send"}, job : Traces] \cup {Idle}]
  <2>1. At("send", created') \in [pc : {"send"}, job : Traces]
    BY <1>1 DEF At
  <2> QED  BY <2>1 DEF Create
<1> QED  BY <1>1, <1>2, <1>3 DEF Create, syncVars

LEMMA EnqueueType ==
    ASSUME TypeOK, NEW e \in Enqueuers, NEW a \in Addresses,
           (\E v \in Variants : Enqueue(e, a, v)) \/ (\E r \in 1 .. created : EnqueueExtension(e, r, a))
    PROVE  TypeOK'
<1>1. \A v \in Variants, r \in 0 .. MaxTraces : Create(e, a, v, r) => created' \in 0 .. MaxTraces
  BY Shapes, ConstantsAssumption DEF Create
<1>2. ASSUME NEW v \in Variants, Enqueue(e, a, v) PROVE TypeOK'
  <2>1. /\ active' \in [Addresses \X Variants -> 0 .. MaxTraces]
        /\ extending' \in [Traces -> 0 .. MaxTraces]
    BY <1>1, <1>2, Indices DEF Enqueue, TypeOK
  <2> QED  BY <1>2, <2>1, CreateType, Indices DEF Enqueue
<1>3. ASSUME NEW r \in 1 .. created, EnqueueExtension(e, r, a) PROVE TypeOK'
  <2>1. r \in 0 .. MaxTraces /\ r \in Traces
    BY Shapes, ConstantsAssumption DEF TypeOK, Traces
  <2>2. variant[r] \in Variants
    BY <2>1 DEF TypeOK
  <2>3. /\ active' \in [Addresses \X Variants -> 0 .. MaxTraces]
        /\ extending' \in [Traces -> 0 .. MaxTraces]
    BY <1>1, <1>3, <2>1, <2>2 DEF EnqueueExtension, TypeOK
  <2> QED  BY <1>3, <2>1, <2>2, <2>3, CreateType DEF EnqueueExtension
<1> QED  BY <1>2, <1>3

\* A key given back leaves the keys keys.
LEMMA ReleaseKeyType ==
    ASSUME TypeOK, NEW i, ReleaseKey(i)
    PROVE  /\ active' \in [Addresses \X Variants -> 0 .. MaxTraces]
           /\ extending' \in [Traces -> 0 .. MaxTraces]
<1>1. /\ active \in [Addresses \X Variants -> 0 .. MaxTraces]
      /\ extending \in [Traces -> 0 .. MaxTraces]
      /\ NoTrace \in 0 .. MaxTraces
  BY Indices DEF TypeOK
<1>2. CASE IsRoot(i)
  BY <1>1, <1>2 DEF ReleaseKey
<1>3. CASE ~IsRoot(i)
  BY <1>1, <1>3 DEF ReleaseKey
<1> QED  BY <1>2, <1>3

LEMMA SendType ==
    ASSUME TypeOK, NEW e \in Enqueuers, SendStep(e)
    PROVE  TypeOK'
<1> USE DEF Sending, keyVars, syncVars, docVars, newVars
<1>1. sender[e].job \in Traces
  BY Hands DEF SendStep, Send, QueueFull
<1>2. sender' \in [Enqueuers -> [pc : {"send"}, job : Traces] \cup {Idle}]
  BY DEF SendStep, Send, QueueFull, TypeOK
<1>3. CASE Send(e)
  <2>1. queue' \in Seq(Traces) /\ Len(queue') = Len(queue) + 1
    BY <1>1, <1>3, Shapes, AppendProperties DEF Send
  <2>2. Len(queue') <= QueueSize
    BY <1>3, <2>1, Shapes, ConstantsAssumption DEF Send
  <2> QED  BY <1>2, <1>3, <2>1, <2>2 DEF Send, TypeOK
<1>4. CASE QueueFull(e)
  <2>1. /\ active' \in [Addresses \X Variants -> 0 .. MaxTraces]
        /\ extending' \in [Traces -> 0 .. MaxTraces]
    BY <1>4, ReleaseKeyType DEF QueueFull
  <2> QED  BY <1>2, <1>4, <2>1 DEF QueueFull, TypeOK
<1> QED  BY <1>3, <1>4 DEF SendStep

\* Of any set of traces there is a latest.
LEMMA Latest ==
    ASSUME NEW T, T \subseteq Traces, T # {}
    PROVE  \E e \in T : \A f \in T : f <= e
<1> DEFINE Back(e) == MaxTraces - e
           B == {Back(e) : e \in T}
           R == OpToRel(<, Nat)
<1>1. \A e \in T : Back(e) \in Nat /\ e \in Nat
  BY ConstantsAssumption DEF Traces
<1>2. B \subseteq Nat /\ B # {}
  BY <1>1
<1>3. IsWellFoundedOn(R, Nat)
  BY NatLessThanWellFounded
<1> HIDE DEF B, R
<1>4. PICK b \in B : \A c \in B : <<c, b>> \notin R
  BY <1>2, <1>3, WFMin
<1> USE DEF B, R
<1>5. PICK e \in T : b = Back(e)
  BY <1>4
<1>6. \A f \in T : ~(Back(f) < Back(e))
  BY <1>1, <1>4, <1>5 DEF OpToRel
<1>7. \A f \in T : f <= e
  BY <1>1, <1>6, ConstantsAssumption
<1> QED  BY <1>7

LEMMA StopType ==
    ASSUME TypeOK, NEW s \in Stoppers, (\E i \in 1 .. created : StopRead(s, i)) \/ StopStep(s)
    PROVE  TypeOK'
<1> USE DEF Unheard, newVars, keyVars, syncVars, docVars
<1>0. ASSUME stopper[s] # NotStopping
      PROVE  /\ stopper[s] \in Stops /\ stopper[s].job \in Traces
             /\ stopper[s].ids \in SUBSET Syncs /\ stopper[s].sync \in 0 .. MaxSyncs
  BY <1>0, Hands DEF Stops
<1>1. stopper \in [Stoppers -> Stops \cup {NotStopping}]
  BY DEF TypeOK, Stops
<1>2. ASSUME NEW i \in 1 .. created, StopRead(s, i) PROVE TypeOK'
  <2>1. i \in Traces
    BY Shapes, ConstantsAssumption DEF Traces, TypeOK
  <2>2. Target(i) \in Traces
    <3> DEFINE E == {e \in Traces : root[e] = i /\ e <= created}
    <3>1. CASE Target(i) = i
      BY <2>1, <3>1
    <3>2. CASE E # {} /\ Target(i) = CHOOSE e \in E : \A f \in E : f <= e
      <4>1. E \subseteq Traces
        OBVIOUS
      <4> HIDE DEF E
      <4>2. \E e \in E : \A f \in E : f <= e
        BY <3>2, <4>1, Latest
      <4> QED  BY <3>2, <4>1, <4>2
    <3> QED  BY <3>1, <3>2 DEF Target
  <2>3. syncs[Target(i)] \subseteq Syncs
    BY <2>2 DEF TypeOK
  <2>4. [pc |-> "save", job |-> Target(i), ids |-> syncs[Target(i)], sync |-> NoSync] \in Stops
    BY <2>2, <2>3, Indices DEF Stops
  <2>5. stopper' \in [Stoppers -> Stops \cup {NotStopping}]
    BY <1>1, <1>2, <2>4 DEF StopRead
  <2> QED  BY <1>2, <2>5 DEF StopRead, TypeOK, Stops
<1>3. CASE StopSave(s)
  <2>1. stopper[s] # NotStopping
    BY <1>3 DEF StopSave, NotStopping
  <2>2. [stopper[s] EXCEPT !.pc = "cancel"] \in Stops
    BY <1>0, <2>1 DEF Stops
  <2>3. stopper' \in [Stoppers -> Stops \cup {NotStopping}]
    BY <1>1, <1>3, <2>2 DEF StopSave
  <2>4. "stopped" \in TraceStates /\ {} \in SUBSET Traces
    BY DEF TraceStates, Ended
  <2>5. /\ status' \in [Traces -> TraceStates] /\ syncs' \in [Traces -> SUBSET Syncs]
        /\ result' \in [Traces -> SUBSET Traces]
    BY <1>0, <1>3, <2>1, <2>4, SaveType DEF StopSave, TypeOK, TraceStates
  <2> QED  BY <1>3, <2>3, <2>5 DEF StopSave, TypeOK, Stops, TraceStates
<1>4. CASE StopCancel(s)
  <2>1. stopper[s] # NotStopping
    BY <1>4 DEF StopCancel, NotStopping
  <2>2. [stopper[s] EXCEPT !.pc = "sync"] \in Stops
    BY <1>0, <2>1 DEF Stops
  <2>3. stopper' \in [Stoppers -> Stops \cup {NotStopping}]
    BY <1>1, <1>4, <2>2 DEF StopCancel
  <2>4. cancelled' \in BOOLEAN
    BY <1>4 DEF StopCancel, TypeOK
  <2> QED  BY <1>4, <2>3, <2>4 DEF StopCancel, TypeOK, Stops
<1>5. CASE StopSyncRead(s)
  <2>1. stopper[s] # NotStopping
    <3>1. stopper[s].pc = "sync" /\ NotStopping.pc = "idle"
      BY <1>5 DEF StopSyncRead, NotStopping
    <3> QED  BY <3>1
  <2>2. \A k \in stopper[s].ids :
           LET rest == [stopper[s] EXCEPT !.ids = @ \ {k}] IN
           rest \in Stops /\ [rest EXCEPT !.pc = "syncsave", !.sync = k] \in Stops
    BY <1>0, <2>1, Indices DEF Stops
  <2>3. stopper' \in [Stoppers -> Stops \cup {NotStopping}]
    BY <1>1, <1>5, <2>2 DEF StopSyncRead
  <2> QED  BY <1>5, <2>3 DEF StopSyncRead, TypeOK, Stops
<1>6. CASE StopSyncSave(s)
  <2>1. stopper[s] # NotStopping
    BY <1>6 DEF StopSyncSave, NotStopping
  <2>2. [stopper[s] EXCEPT !.pc = "sync", !.sync = NoSync] \in Stops
    BY <1>0, <2>1, Indices DEF Stops
  <2>3. stopper' \in [Stoppers -> Stops \cup {NotStopping}]
    BY <1>1, <1>6, <2>2 DEF StopSyncSave
  <2>4. /\ syncStatus' \in [Syncs -> SyncStates] /\ book' \in [Addresses -> {"open", "synced", "high"}]
        /\ UNCHANGED <<syncAddr, syncCreated, syncActive, syncOpen>>
    BY <1>0, <1>6, <2>1, SyncType DEF StopSyncSave, Sync!Stop, TypeOK, SyncStates
  <2> QED  BY <1>6, <2>3, <2>4 DEF StopSyncSave, TypeOK, Stops, SyncStates
<1> QED  BY <1>2, <1>3, <1>4, <1>5, <1>6 DEF StopStep

LEMMA RunType ==
    ASSUME TypeOK, Placed, Recover \/ Receive \/ Load \/ Release \/ Crash \/ Outage
    PROVE  TypeOK'
<1> USE DEF newVars, keyVars, syncVars, docVars, callVars
<1>1. /\ Resting \in Workers
      /\ worker' = Resting => worker' \in Workers
  BY Hands
<1>2. CASE Recover
  <2>1. status' \in [Traces -> {"none"} \cup Live \cup Ended]
    BY <1>2 DEF Recover, TypeOK, Ended
  <2> QED  BY <1>2, <2>1 DEF Recover, TypeOK
<1>3. CASE Receive
  <2>1. Head(queue) \in Traces /\ Tail(queue) \in Seq(Traces) /\ Len(Tail(queue)) = Len(queue) - 1
    BY <1>3, Shapes, HeadTailProperties DEF Receive
  <2>2. worker' \in Workers /\ worker'.pc = "load"
    <3>1. worker' = Working("load", Head(queue)) /\ "load" \in Places /\ Head(queue) \in 0 .. MaxTraces
      BY <1>3, <2>1, Indices DEF Receive, Places
    <3> QED  BY <3>1, WorkingType
  <2>3. queue' \in Seq(Traces) /\ Len(queue') <= QueueSize
    BY <1>3, <2>1, Shapes, ConstantsAssumption DEF Receive, TypeOK
  <2> QED  BY <1>3, <2>2, <2>3 DEF Receive, TypeOK, Workers
<1>4. CASE Load
  <2>1. CASE reachable /\ status[Job] # "stopped"
    <3>1. worker \in Workers /\ Job \in Traces
      BY <1>4, Hands DEF Load, Placed
    <3>2. syncs[Job] \in SUBSET Syncs /\ seed[Job] \in Addresses
      BY <3>1 DEF TypeOK
    <3>3. worker' \in Workers /\ worker'.pc # "idle"
      <4>1. PICK p \in {"begin", "root"} :
                worker' = [worker EXCEPT !.pc = p, !.ids = syncs[Job], !.need = seed[Job]]
        BY <1>4, <2>1 DEF Load
      <4>2. p \in Places /\ p # "idle"
        BY DEF Places
      <4> QED  BY <3>1, <3>2, <4>1, <4>2 DEF Workers
    <3> QED  BY <1>4, <2>1, <3>3 DEF Load, TypeOK, Workers
  <2>2. CASE ~(reachable /\ status[Job] # "stopped")
    <3>1. /\ active' \in [Addresses \X Variants -> 0 .. MaxTraces]
          /\ extending' \in [Traces -> 0 .. MaxTraces]
      BY <1>4, <2>2, ReleaseKeyType DEF Load, TypeOK
    <3>2. worker' = Resting /\ worker' \in Workers /\ cancelled' = FALSE
      BY <1>1, <1>4, <2>2 DEF Load
    <3> QED  BY <1>4, <3>1, <3>2 DEF Load, TypeOK, Workers, Resting, Working
  <2> QED  BY <2>1, <2>2
<1>5. CASE Release
  <2>1. /\ active' \in [Addresses \X Variants -> 0 .. MaxTraces]
        /\ extending' \in [Traces -> 0 .. MaxTraces]
    BY <1>5, ReleaseKeyType DEF Release
  <2>2. worker' = Resting /\ worker' \in Workers /\ cancelled' = FALSE
    BY <1>1, <1>5 DEF Release
  <2> QED  BY <1>5, <2>1, <2>2 DEF Release, TypeOK, Workers, Resting, Working
<1>6. CASE Crash
  <2>1. /\ syncActive' \in [Addresses -> 0 .. MaxSyncs] /\ syncOpen' = {}
        /\ UNCHANGED <<syncStatus, syncAddr, syncCreated>>
    BY <1>6, Indices DEF Crash, Sync!Restart, Sync!NoJob, NoSync
  <2>2. /\ active' \in [Addresses \X Variants -> 0 .. MaxTraces]
        /\ extending' \in [Traces -> 0 .. MaxTraces]
    BY <1>6, Indices DEF Crash
  <2>3. queue' \in Seq(Traces) /\ Len(queue') <= QueueSize
    BY <1>6, ConstantsAssumption DEF Crash
  <2>4. /\ sender' \in [Enqueuers -> Senders]
        /\ stopper' \in [Stoppers -> Stops \cup {NotStopping}]
    BY <1>6 DEF Crash, Senders
  <2>5. worker' = Resting /\ worker' \in Workers
    BY <1>1, <1>6 DEF Crash
  <2> QED  BY <1>6, <2>1, <2>2, <2>3, <2>4, <2>5
           DEF Crash, TypeOK, Workers, Stops, Senders, Resting, Working
<1>7. CASE Outage
  BY <1>7 DEF Outage, TypeOK
<1> QED  BY <1>2, <1>3, <1>4, <1>5, <1>6, <1>7

\* The steps of the worker in the middle of a job.
LEMMA JobType ==
    ASSUME TypeOK, Placed, ReadRoot \/ Begin \/ ReadSeed \/ Poll \/ Mark \/ Traverse \/ Again
                           \/ Finish \/ Reread \/ Merge \/ Close \/ Fail \/ FailSave \/ TraverseFails
    PROVE  TypeOK'
<1>0. worker \in Workers
  BY Hands
<1>1. ASSUME NEW p \in Places \ {"idle"}, Goto(p), Silent PROVE TypeOK'
  BY <1>1, GotoKeeps, SilentType
<1>2. /\ "fail" \in Places \ {"idle"} /\ "begin" \in Places \ {"idle"} /\ "ask" \in Places \ {"idle"}
      /\ "release" \in Places \ {"idle"} /\ "failsave" \in Places \ {"idle"}
      /\ "seed" \in Places \ {"idle"} /\ "trace" \in Places \ {"idle"}
  BY DEF Places
<1>3. ASSUME NEW place, NEW st \in TraceStates, NEW p \in Places \ {"idle"}, SaveStep(place, st, p)
      PROVE  TypeOK'
  BY <1>2, <1>3, SaveStepKeeps, WritingType
<1>4. {"waiting_sync", "running", "partial", "succeeded", "failed"} \subseteq TraceStates
  BY DEF TraceStates, Live, Ended, Result
<1>5. CASE ReadRoot
  BY <1>1, <1>2, <1>5 DEF ReadRoot
<1>6. CASE Begin \/ Mark \/ Again \/ Finish \/ Close
  BY <1>2, <1>3, <1>4, <1>6 DEF Begin, Mark, Again, Finish, Close, Outcome
<1>7. CASE ReadSeed
  <2>1. CASE worker' = [worker EXCEPT !.pc = "mark", !.partial = TRUE] /\ Silent
    <3>1. worker' \in Workers /\ worker'.pc = "mark"
      BY <1>0, <2>1 DEF Workers, Places
    <3> QED  BY <2>1, <3>1, SilentType
  <2> QED  BY <1>1, <1>2, <1>7, <2>1 DEF ReadSeed
<1>8. CASE Poll
  <2>1. ASSUME NEW st, SyncEnds(st), Silent PROVE TypeOK'
    <3>1. (worker.partial \/ (IsRoot(Job) /\ st = "partial")) \in BOOLEAN
      BY <1>0 DEF Workers
    <3>2. worker' \in Workers /\ worker'.pc \in {"mark", "trace"}
      BY <1>0, <2>1, <3>1, Indices DEF SyncEnds, Workers, Places
    <3> QED  BY <2>1, <3>2, SilentType
  <2> QED  BY <1>1, <1>2, <1>8, <2>1 DEF Poll
<1>9. CASE Traverse \/ TraverseFails
  <2>1. ASSUME NEW d \in Dependencies, Miss(d), Silent, worker.pc = "trace" PROVE TypeOK'
    <3>1. d[1] \in Addresses
      BY <2>1 DEF Dependencies
    <3>2. CASE d \in worker.tried
      <4>1. (worker.partial \/ IsRoot(Job)) \in BOOLEAN
        BY <1>0 DEF Workers, IsRoot
      <4>2. worker' \in Workers /\ worker'.pc = "trace"
        BY <1>0, <2>1, <3>1, <3>2, <4>1 DEF Miss, Workers
      <4> QED  BY <2>1, <4>2, SilentType
    <3>3. CASE d \notin worker.tried
      <4>1. worker' \in Workers /\ worker'.pc = "again"
        BY <1>0, <2>1, <3>1, <3>3 DEF Miss, Workers, Places
      <4> QED  BY <2>1, <4>1, SilentType
    <3> QED  BY <3>2, <3>3
  <2>2. CASE worker' = [worker EXCEPT !.pc = "finish", !.out = {Job}] /\ Silent /\ Job \in Traces
    <3>1. worker' \in Workers /\ worker'.pc = "finish"
      BY <1>0, <2>2 DEF Workers, Places
    <3> QED  BY <2>2, <3>1, SilentType
  <2>3. ASSUME NEW p \in BOOLEAN, worker' = [worker EXCEPT !.pc = "reread", !.partial = p], Silent
        PROVE  TypeOK'
    <3>1. worker' \in Workers /\ worker'.pc = "reread"
      BY <1>0, <2>3 DEF Workers, Places
    <3> QED  BY <2>3, <3>1, SilentType
  <2>4. Job \in Traces
    BY <1>9 DEF Placed, Traverse, TraverseFails
  <2>5. <<seed[Job], Whole>> \in Dependencies
    BY <2>4 DEF TypeOK, Dependencies
  <2>6. \A a \in Addresses, w \in Windows : <<a, w>> \in Dependencies
    BY DEF Dependencies
  <2> QED  BY <1>1, <1>2, <1>9, <2>1, <2>2, <2>3, <2>4, <2>5, <2>6 DEF Traverse, TraverseFails
<1>10. CASE Reread
  <2>1. Job \in Traces /\ root[Job] \in Traces
    BY <1>10, Indices DEF Reread, Placed, IsRoot, TypeOK
  <2>2. [status |-> status[root[Job]], syncs |-> syncs[root[Job]], result |-> result[root[Job]]] \in Documents
    BY <2>1 DEF TypeOK, Documents
  <2>3. CASE Serves
    <3> DEFINE copy == [status |-> status[root[Job]], syncs |-> syncs[root[Job]], result |-> result[root[Job]]]
    <3>0. worker' = [worker EXCEPT !.pc = "merge", !.base = copy]
      BY <1>10, <2>3 DEF Reread
    <3> HIDE DEF copy
    <3>1. worker' \in Workers /\ worker'.pc = "merge"
      <4>1. copy \in Documents
        BY <2>2 DEF copy
      <4> QED  BY <1>0, <3>0, <4>1 DEF Workers, Places
    <3> QED  BY <1>10, <3>1, SilentType DEF Reread
  <2> QED  BY <1>1, <1>2, <1>10, <2>3 DEF Reread
<1>11. CASE Merge
  <2>1. Job \in Traces
    BY <1>11 DEF Merge, Placed
  <2>2. CASE Serves
    <3>1. /\ worker.base \in Documents /\ NoRoot \in Documents
      BY <1>0 DEF Workers, NoRoot, Documents
    <3>2. /\ (IF worker.partial THEN "partial" ELSE worker.base.status) \in TraceStates
          /\ worker.base.syncs \in SUBSET Syncs /\ worker.base.result \cup {Job} \in SUBSET Traces
      BY <1>4, <2>1, <3>1 DEF Documents, TraceStates
    <3>3. worker' \in Workers /\ worker'.pc = "close"
      <4>1. worker' = [worker EXCEPT !.pc = "close", !.out = {Job}, !.base = NoRoot]
        BY <1>11, <2>2 DEF Merge
      <4> QED  BY <1>0, <2>1, <3>1, <4>1 DEF Workers, Places
    <3>4. /\ status' \in [Traces -> TraceStates]
          /\ syncs' \in [Traces -> SUBSET Syncs]
          /\ result' \in [Traces -> SUBSET Traces]
      BY <1>11, <2>2, <3>2, SaveType DEF Merge
    <3> QED  BY <1>11, <3>3, <3>4, WritingType DEF Merge
  <2> QED  BY <1>1, <1>2, <1>11, <2>2 DEF Merge, Silent
<1>12. CASE Fail
  BY <1>1, <1>2, <1>12 DEF Fail
<1>13. CASE FailSave
  <2>1. worker' \in Workers /\ worker'.pc = "release"
    BY <1>2, <1>13, GotoKeeps DEF FailSave
  <2>2. worker.ids \in SUBSET Syncs /\ worker.out \in SUBSET Traces
    BY <1>0 DEF Workers
  <2>3. /\ status' \in [Traces -> TraceStates]
        /\ syncs' \in [Traces -> SUBSET Syncs]
        /\ result' \in [Traces -> SUBSET Traces]
    BY <1>4, <1>13, <2>2, SaveType DEF FailSave, docVars, TypeOK, TraceStates
  <2> QED  BY <1>13, <2>1, <2>3, WritingType DEF FailSave
<1> QED  BY <1>5, <1>6, <1>7, <1>8, <1>9, <1>10, <1>11, <1>12, <1>13

LEMMA AskType ==
    ASSUME TypeOK, Placed, Ask \/ Note
    PROVE  TypeOK'
<1>0. worker \in Workers /\ worker.need \in Addresses
  BY Hands DEF Workers
<1>1. "fail" \in Places \ {"idle"}
  BY DEF Places
<1>2. CASE Ask
  <2> USE DEF syncVars
  <2>1. CASE /\ syncActive[worker.need] # NoSync
             /\ worker' = [worker EXCEPT !.pc = "note", !.wait = syncActive[worker.need]]
             /\ UNCHANGED syncVars
    <3>1. syncActive[worker.need] \in 0 .. MaxSyncs
      BY <1>0 DEF TypeOK
    <3>2. worker' \in Workers /\ worker'.pc = "note"
      BY <1>0, <2>1, <3>1 DEF Workers, Places
    <3> QED  BY <1>2, <2>1, <3>2 DEF Ask, TypeOK, Workers, docVars, newVars, keyVars, callVars
  <2>2. CASE /\ Sync!Enqueue(worker.need)
             /\ worker' = [worker EXCEPT !.pc = "note", !.wait = syncCreated']
             /\ UNCHANGED book
    <3>1. /\ syncStatus' \in [Syncs -> SyncStates] /\ syncAddr' \in [Syncs -> Addresses]
          /\ syncActive' \in [Addresses -> 0 .. MaxSyncs] /\ syncCreated' \in 0 .. MaxSyncs
          /\ syncOpen' \subseteq Syncs
      BY <1>0, <2>2, SyncType, Indices
    <3>2. worker' \in Workers /\ worker'.pc = "note"
      BY <1>0, <2>2, <3>1 DEF Workers, Places
    <3> QED  BY <1>2, <2>2, <3>1, <3>2 DEF Ask, TypeOK, SyncStates, Workers, docVars, newVars, keyVars, callVars
  <2>3. CASE Goto("fail") /\ UNCHANGED syncVars
    <3>1. worker' \in Workers /\ worker'.pc = "fail"
      BY <1>1, <2>3, GotoKeeps
    <3> QED  BY <1>2, <2>3, <3>1 DEF Ask, TypeOK, Workers, docVars, newVars, keyVars, callVars
  <2> QED  BY <1>2, <2>1, <2>2, <2>3 DEF Ask
<1>3. CASE Note
  <2> DEFINE ids == worker.ids \cup {worker.wait}
  <2>1. worker.wait \in Syncs
    BY <1>3 DEF Note, Placed
  <2>2. ids \in SUBSET Syncs /\ worker.out \in SUBSET Traces /\ Job \in 0 .. MaxTraces
    BY <1>0, <2>1, Hands DEF Workers
  <2> HIDE DEF ids
  <2>3. CASE Save(Job, "waiting_sync", ids, worker.out) /\ worker' = [worker EXCEPT !.pc = "wait", !.ids = ids]
    <3>1. worker' \in Workers /\ worker'.pc = "wait"
      BY <1>0, <2>2, <2>3 DEF Workers, Places
    <3>2. "waiting_sync" \in TraceStates
      BY DEF TraceStates, Live
    <3> QED  BY <1>3, <2>2, <2>3, <3>1, <3>2, SaveType, WritingType DEF Note
  <2>4. CASE worker' = [Working("fail", Job) EXCEPT !.ids = ids, !.out = worker.out] /\ UNCHANGED docVars
    <3>1. Working("fail", Job) \in Workers /\ Working("fail", Job).pc = "fail"
      BY <1>1, <2>2, WorkingType
    <3>2. worker' \in Workers /\ worker'.pc = "fail"
      BY <2>2, <2>4, <3>1 DEF Workers
    <3> QED  BY <1>3, <2>4, <3>2, SilentType DEF Note, Silent
  <2> QED  BY <1>3, <2>3, <2>4 DEF Note, ids
<1> QED  BY <1>2, <1>3

LEMMA EnvironmentType ==
    ASSUME TypeOK, SyncStep
    PROVE  TypeOK'
<1> USE DEF Others, newVars, keyVars, syncVars, docVars, callVars
<1>1. ASSUME NEW a \in Addresses, SyncEnqueue(a) PROVE TypeOK'
  BY <1>1, SyncType, Indices DEF SyncEnqueue, TypeOK, SyncStates
<1>2. ASSUME NEW k \in Syncs, SyncRun(k) PROVE TypeOK'
  <2>1. syncStatus' \in [Syncs -> SyncStates] /\ UNCHANGED <<syncAddr, syncCreated, syncActive, syncOpen>>
    BY <1>2, SyncType, Indices DEF SyncRun, Sync!Run
  <2> QED  BY <1>2, <2>1 DEF SyncRun, TypeOK, SyncStates
<1>3. ASSUME NEW k \in Syncs, NEW st \in Sync!Result \cup {"failed"}, SyncFinish(k, st) PROVE TypeOK'
  <2>1. /\ syncStatus' \in [Syncs -> SyncStates] /\ syncOpen' \subseteq Syncs
        /\ UNCHANGED <<syncAddr, syncCreated, syncActive>>
    BY <1>3, SyncType, Indices DEF SyncFinish, Sync!Finish
  <2>2. book' \in [Addresses -> {"open", "synced", "high"}]
    <3>1. book[syncAddr[k]] \in {"open", "synced", "high"}
      BY DEF TypeOK
    <3> QED  BY <1>3, <3>1 DEF SyncFinish, TypeOK, Sync!Result
  <2> QED  BY <1>3, <2>1, <2>2 DEF SyncFinish, TypeOK, SyncStates
<1>4. CASE SyncLetsGo
  <2>1. CASE \E k \in Syncs : Sync!Abandon(k)
    BY <1>4, <2>1 DEF SyncLetsGo, Sync!Abandon, TypeOK
  <2>2. CASE \E a \in Addresses : Sync!Release(a)
    <3>1. syncActive' \in [Addresses -> 0 .. MaxSyncs] /\ UNCHANGED <<syncStatus, syncAddr, syncCreated, syncOpen>>
      BY <2>2, SyncType DEF Sync!Release
    <3> QED  BY <1>4, <3>1 DEF SyncLetsGo, TypeOK
  <2>3. CASE Sync!Sweep
    <3>1. syncStatus' \in [Syncs -> SyncStates] /\ UNCHANGED <<syncAddr, syncCreated, syncActive, syncOpen>>
      BY <2>3, SyncType DEF Sync!Sweep
    <3> QED  BY <1>4, <3>1 DEF SyncLetsGo, TypeOK, SyncStates
  <2> QED  BY <1>4, <2>1, <2>2, <2>3 DEF SyncLetsGo
<1> QED  BY <1>1, <1>2, <1>3, <1>4 DEF SyncStep

LEMMA StepType ==
    ASSUME TypeOK, Placed, [Next]_vars
    PROVE  TypeOK'
<1>1. CASE UNCHANGED vars
  BY <1>1 DEF TypeOK, vars, syncVars, docVars, newVars, keyVars, callVars
<1> QED  BY <1>1, EnqueueType, SendType, StopType, RunType, JobType, AskType, EnvironmentType
         DEF Next, WorkerStep
-----------------------------------------------------------------------------
(* What a step can do to jobs, keys and outcomes: but for the few that hand a *)
(* job on, it keeps everybody's hands as they are.                            *)

Kept ==
    /\ UNCHANGED <<newVars, keyVars, queue, sender>>
    /\ worker'.job = worker.job
    /\ worker'.pc = "idle" <=> worker.pc = "idle"
    /\ worker'.pc = "load" => worker.pc = "load"
    /\ worker.pc = "release" => worker'.pc = "release"
    /\ \A i \in Traces :
          /\ status'[i] \in Result =>
                status[i] \in Result \/ (i = Job /\ worker'.pc = "release") \/ Extended(i)
          /\ status[i] = "stopped" => status'[i] = "stopped" \/ i = Job \/ Extended(i)

\* The worker lets its job go; the key of a stopped root may stay behind.
Leaves ==
    /\ UNCHANGED <<newVars, queue, sender, docVars>>
    /\ Job \in Traces /\ worker' = Resting /\ worker.pc \in {"load", "release"}
    /\ \/ ReleaseKey(Job)
       \/ worker.pc = "load" /\ status[Job] = "stopped" /\ IsRoot(Job) /\ UNCHANGED keyVars

\* A save changes one document.
LEMMA SaveEffect ==
    ASSUME TypeOK, NEW i \in Traces, NEW st, NEW ids, NEW out, Save(i, st, ids, out)
    PROVE  /\ status'[i] = st /\ syncs'[i] = ids /\ result'[i] = out
           /\ \A j \in Traces \ {i} :
                 status'[j] = status[j] /\ syncs'[j] = syncs[j] /\ result'[j] = result[j]
BY Shapes DEF Save

\* Steps of the worker in the middle of a job that save nothing, or its own document
\* with no outcome, or with the outcome as the last thing.
LEMMA OwnStep ==
    ASSUME TypeOK, Placed, Writing, Job \in Traces, worker.pc \notin {"idle", "load", "release"},
           worker'.job = worker.job, worker'.pc \notin {"idle", "load"},
           \/ UNCHANGED docVars
           \/ \E st \in TraceStates : \E ids, out :
                 Save(Job, st, ids, out) /\ (st \in Result => worker'.pc = "release")
    PROVE  Kept
<1>1. \A i \in Traces : status'[i] \in Result =>
         status[i] \in Result \/ (i = Job /\ worker'.pc = "release") \/ Extended(i)
  BY SaveEffect DEF docVars
<1>2. \A i \in Traces : status[i] = "stopped" => status'[i] = "stopped" \/ i = Job \/ Extended(i)
  BY SaveEffect DEF docVars
<1> QED  BY <1>1, <1>2 DEF Kept, Writing, newVars, keyVars, callVars

LEMMA PlainPlace ==
    ASSUME Placed, worker.pc # "idle", worker'.job = worker.job, UNCHANGED root,
           worker'.pc \in {"root", "reread", "merge", "close"} => ~IsRoot(Job),
           worker'.pc \in {"seed", "finish"} => IsRoot(Job),
           worker'.pc \in {"note", "wait"} => worker'.wait \in Syncs
    PROVE  Placed'
BY DEF Placed, IsRoot, Job

LEMMA JobStep ==
    ASSUME TypeOK, Placed, ReadRoot \/ Begin \/ ReadSeed \/ Poll \/ Mark \/ Traverse \/ Again
                           \/ Finish \/ Reread \/ Close \/ Fail \/ FailSave \/ TraverseFails
    PROVE  Kept /\ Placed'
<1>0. /\ worker \in Workers /\ worker.pc \notin {"idle", "load", "release"} /\ Job \in Traces
      /\ Writing
  BY Hands DEF Placed, ReadRoot, Begin, ReadSeed, Poll, Mark, Traverse, Again, Finish, Reread,
     Close, Fail, FailSave, TraverseFails, SaveStep, Silent
<1>1. ASSUME worker'.job = worker.job, worker'.pc \notin {"idle", "load"}, UNCHANGED docVars,
             worker'.pc \in {"root", "reread", "merge", "close"} => ~IsRoot(Job),
             worker'.pc \in {"seed", "finish"} => IsRoot(Job),
             worker'.pc \notin {"note", "wait"}
      PROVE  Kept /\ Placed'
  BY <1>0, <1>1, OwnStep, PlainPlace DEF Writing, newVars
<1>2. ASSUME NEW p \in Places \ {"idle", "load", "root", "reread", "merge", "close", "seed", "finish", "note", "wait"},
             Goto(p), Silent
      PROVE  Kept /\ Placed'
  BY <1>1, <1>2, GotoKeeps DEF Silent
<1>3. ASSUME NEW place, NEW st \in TraceStates, NEW p \in Places \ {"idle", "load", "note", "wait"},
             SaveStep(place, st, p), st \in Result => p = "release",
             p \in {"root", "reread", "merge", "close"} => ~IsRoot(Job),
             p \in {"seed", "finish"} => IsRoot(Job)
      PROVE  Kept /\ Placed'
  <2>1. worker'.job = worker.job /\ worker'.pc \in {p, "fail"}
    BY <1>3, SaveStepKeeps
  <2>2. CASE Save(Job, st, worker.ids, worker.out) /\ Goto(p)
    <3>1. worker'.pc = p
      BY <2>2, GotoKeeps
    <3> QED  BY <1>0, <1>3, <2>1, <2>2, <3>1, OwnStep, PlainPlace DEF Writing, newVars
  <2>3. CASE Goto("fail") /\ UNCHANGED docVars
    BY <1>0, <1>2, <2>3 DEF Silent, Places
  <2> QED  BY <1>3, <2>2, <2>3, SaveStepKeeps
<1>4. {"waiting_sync", "running", "partial", "succeeded", "failed"} \subseteq TraceStates
  BY DEF TraceStates, Live, Ended, Result
<1>5. /\ "fail" \in Places /\ "begin" \in Places /\ "ask" \in Places /\ "seed" \in Places
      /\ "release" \in Places /\ "failsave" \in Places /\ "trace" \in Places
  BY DEF Places
<1>6. CASE ReadRoot
  BY <1>2, <1>5, <1>6 DEF ReadRoot
<1>7. CASE Begin
  BY <1>3, <1>4, <1>5, <1>7 DEF Begin, Result
<1>8. CASE Mark \/ Again
  BY <1>3, <1>4, <1>5, <1>8 DEF Mark, Again, Result
<1>9. CASE Finish \/ Close
  BY <1>3, <1>4, <1>5, <1>9 DEF Finish, Close, Outcome
<1>10. CASE ReadSeed
  <2>1. CASE worker' = [worker EXCEPT !.pc = "mark", !.partial = TRUE] /\ Silent
    <3>1. worker'.pc = "mark" /\ worker'.job = worker.job
      BY <1>0, <2>1 DEF Workers
    <3> QED  BY <1>1, <2>1, <3>1 DEF Silent
  <2> QED  BY <1>2, <1>5, <1>10, <2>1 DEF ReadSeed
<1>11. CASE Poll
  <2>1. ASSUME NEW st, SyncEnds(st), Silent PROVE Kept /\ Placed'
    <3>1. worker'.pc \in {"mark", "trace"} /\ worker'.job = worker.job
      BY <1>0, <2>1 DEF SyncEnds, Workers
    <3> QED  BY <1>1, <2>1, <3>1 DEF Silent
  <2> QED  BY <1>2, <1>5, <1>11, <2>1 DEF Poll
<1>12. CASE Traverse \/ TraverseFails
  <2>1. ASSUME NEW d, Miss(d), Silent, worker.pc = "trace" PROVE Kept /\ Placed'
    <3>1. worker'.pc \in {"trace", "again"} /\ worker'.job = worker.job
      BY <1>0, <2>1 DEF Miss, Workers
    <3> QED  BY <1>1, <2>1, <3>1 DEF Silent
  <2>2. CASE IsRoot(Job) /\ worker' = [worker EXCEPT !.pc = "finish", !.out = {Job}] /\ Silent
    <3>1. worker'.pc = "finish" /\ worker'.job = worker.job
      BY <1>0, <2>2 DEF Workers
    <3> QED  BY <1>1, <2>2, <3>1 DEF Silent
  <2>3. ASSUME NEW q, ~IsRoot(Job), worker' = [worker EXCEPT !.pc = "reread", !.partial = q], Silent
        PROVE  Kept /\ Placed'
    <3>1. worker'.pc = "reread" /\ worker'.job = worker.job
      BY <1>0, <2>3 DEF Workers
    <3> QED  BY <1>1, <2>3, <3>1 DEF Silent
  <2> QED  BY <1>2, <1>5, <1>12, <2>1, <2>2, <2>3 DEF Traverse, TraverseFails
<1>13. CASE Reread
  <2>1. CASE Serves
    <3>1. worker'.pc = "merge" /\ worker'.job = worker.job /\ ~IsRoot(Job)
      BY <1>0, <1>13, <2>1 DEF Reread, Workers, Placed
    <3> QED  BY <1>1, <1>13, <3>1 DEF Reread, Silent
  <2> QED  BY <1>2, <1>5, <1>13, <2>1 DEF Reread
<1>14. CASE Fail
  BY <1>2, <1>5, <1>14 DEF Fail
<1>15. CASE FailSave
  <2>1. worker'.pc = "release" /\ worker'.job = worker.job
    BY <1>5, <1>15, GotoKeeps DEF FailSave
  <2>2. UNCHANGED docVars \/ Save(Job, "failed", worker.ids, worker.out)
    BY <1>15 DEF FailSave
  <2> QED  BY <1>0, <1>4, <2>1, <2>2, OwnStep, PlainPlace DEF Writing, newVars
<1> QED  BY <1>6, <1>7, <1>8, <1>9, <1>10, <1>11, <1>12, <1>13, <1>14, <1>15

LEMMA MergeStep ==
    ASSUME TypeOK, Placed, Merge
    PROVE  Kept /\ Placed'
<1>1. /\ worker \in Workers /\ Job \in Traces /\ root[Job] \in Traces /\ Writing /\ worker.pc = "merge"
  BY Hands, Indices DEF Merge, Placed, IsRoot, TypeOK
<1>2. Extended(root[Job])
  BY <1>1 DEF Extended
<1>3. CASE Serves
  <2>1. worker'.pc = "close" /\ worker'.job = worker.job
    <3>1. worker' = [worker EXCEPT !.pc = "close", !.out = {Job}, !.base = NoRoot]
      BY <1>3 DEF Merge
    <3> QED  BY <1>1, <3>1 DEF Workers
  <2>2. \A i \in Traces \ {root[Job]} : status'[i] = status[i]
    BY <1>1, <1>3, SaveEffect DEF Merge
  <2>3. Kept
    BY <1>1, <1>2, <2>1, <2>2 DEF Kept, Writing, newVars, keyVars, callVars
  <2>4. Placed'
    BY <1>1, <2>1, PlainPlace DEF Placed, Writing, newVars
  <2> QED  BY <2>3, <2>4
<1>4. CASE ~Serves
  <2>1. UNCHANGED docVars /\ "fail" \in Places /\ Goto("fail")
    BY <1>4 DEF Merge, Places
  <2>2. worker'.pc = "fail" /\ worker'.job = worker.job
    BY <2>1, GotoKeeps
  <2> QED  BY <1>1, <2>1, <2>2, OwnStep, PlainPlace DEF Writing, newVars
<1> QED  BY <1>3, <1>4

LEMMA AskStep ==
    ASSUME TypeOK, Placed, Ask \/ Note
    PROVE  Kept /\ Placed'
<1>1. /\ worker \in Workers /\ worker.pc \notin {"idle", "load", "release"} /\ Job \in Traces
      /\ "fail" \in Places /\ worker.need \in Addresses
  BY Hands DEF Ask, Note, Placed, Workers, Places
<1>2. CASE Ask
  <2>1. UNCHANGED <<newVars, keyVars, queue, sender, docVars>>
    BY <1>2 DEF Ask, callVars
  <2>2. \/ worker'.pc = "note" /\ worker'.wait \in Syncs /\ worker'.job = worker.job
        \/ worker'.pc = "fail" /\ worker'.job = worker.job
    <3>1. CASE /\ syncActive[worker.need] # NoSync
               /\ worker' = [worker EXCEPT !.pc = "note", !.wait = syncActive[worker.need]]
      <4>1. syncActive[worker.need] \in Syncs
        BY <1>1, <3>1, Indices DEF TypeOK
      <4> QED  BY <1>1, <3>1, <4>1 DEF Workers
    <3>2. CASE Sync!Enqueue(worker.need) /\ worker' = [worker EXCEPT !.pc = "note", !.wait = syncCreated']
      BY <1>1, <3>2, SyncType DEF Workers
    <3>3. CASE Goto("fail")
      BY <1>1, <3>3, GotoKeeps
    <3> QED  BY <1>2, <3>1, <3>2, <3>3 DEF Ask
  <2>3. Kept
    BY <1>1, <2>1, <2>2 DEF Kept, docVars
  <2>4. Placed'
    BY <1>1, <2>1, <2>2, PlainPlace DEF newVars
  <2> QED  BY <2>3, <2>4
<1>3. CASE Note
  <2> DEFINE ids == worker.ids \cup {worker.wait}
  <2>1. worker.wait \in Syncs /\ Writing
    BY <1>3 DEF Note, Placed
  <2>2. CASE Save(Job, "waiting_sync", ids, worker.out) /\ worker' = [worker EXCEPT !.pc = "wait", !.ids = ids]
    <3>1. worker'.pc = "wait" /\ worker'.wait = worker.wait /\ worker'.job = worker.job
      BY <1>1, <2>2 DEF Workers
    <3>2. "waiting_sync" \in TraceStates /\ "waiting_sync" \notin Result
      BY DEF TraceStates, Live, Result
    <3> QED  BY <1>1, <2>1, <2>2, <3>1, <3>2, OwnStep, PlainPlace DEF Writing, newVars
  <2>3. CASE worker' = [Working("fail", Job) EXCEPT !.ids = ids, !.out = worker.out] /\ UNCHANGED docVars
    <3>1. Working("fail", Job) \in Workers /\ Working("fail", Job).pc = "fail" /\ Working("fail", Job).job = Job
      BY <1>1, WorkingType, Indices
    <3> HIDE DEF ids
    <3>2. worker'.pc = "fail" /\ worker'.job = worker.job
      BY <2>3, <3>1 DEF Workers, Job
    <3> QED  BY <1>1, <2>1, <2>3, <3>2, OwnStep, PlainPlace DEF Writing, newVars
  <2> QED  BY <1>3, <2>2, <2>3 DEF Note
<1> QED  BY <1>2, <1>3

LEMMA LoadStep ==
    ASSUME TypeOK, Placed, Load \/ Release
    PROVE  (Kept \/ Leaves) /\ Placed'
<1>1. worker \in Workers /\ Job \in Traces /\ worker.pc \in {"load", "release"}
  BY Hands DEF Load, Release, Placed
<1>2. CASE Load /\ reachable /\ status[Job] # "stopped"
  <2>1. /\ worker'.job = worker.job
        /\ worker'.pc = IF IsRoot(Job) THEN "begin" ELSE "root"
    BY <1>1, <1>2 DEF Load, Workers
  <2>2. Kept
    BY <1>1, <1>2, <2>1 DEF Kept, Load, newVars, callVars, docVars, keyVars
  <2>3. Placed'
    BY <1>1, <1>2, <2>1, PlainPlace DEF Load, newVars
  <2> QED  BY <2>2, <2>3
<1>3. CASE Release \/ (Load /\ ~(reachable /\ status[Job] # "stopped"))
  <2>1. worker' = Resting
    BY <1>3 DEF Load, Release
  <2>2. Leaves
    BY <1>1, <1>3, <2>1 DEF Leaves, Load, Release, callVars
  <2>3. Placed'
    BY <2>1, Hands DEF Placed
  <2> QED  BY <2>2, <2>3
<1> QED  BY <1>2, <1>3

LEMMA StopKeeps ==
    ASSUME TypeOK, NEW s \in Stoppers, (\E i \in 1 .. created : StopRead(s, i)) \/ StopStep(s)
    PROVE  /\ UNCHANGED <<reachable, phase, newVars, keyVars, queue, sender, worker>>
           /\ \/ /\ stopper[s].pc = "save" /\ stopper[s].job \in Traces
                 /\ Save(stopper[s].job, "stopped", stopper[s].ids, {})
              \/ UNCHANGED docVars
<1>1. UNCHANGED <<reachable, phase, newVars, keyVars, queue, sender, worker>>
  BY DEF StopRead, StopStep, StopSave, StopCancel, StopSyncRead, StopSyncSave, Unheard
<1>2. stopper[s].pc = "save" => stopper[s].job \in Traces
  BY Hands
<1> QED  BY <1>1, <1>2 DEF StopRead, StopStep, StopSave, StopCancel, StopSyncRead, StopSyncSave

\* A step keeps all hands, or is one of those that hand a job on.
LEMMA StepKinds ==
    ASSUME TypeOK, Placed, [Next]_vars
    PROVE  \/ \E e \in Enqueuers, a \in Addresses :
                 \/ \E v \in Variants : Enqueue(e, a, v)
                 \/ \E r \in 1 .. created : EnqueueExtension(e, r, a)
           \/ \E e \in Enqueuers : SendStep(e)
           \/ Receive \/ Leaves \/ Crash \/ Kept
<1>1. ASSUME UNCHANGED <<newVars, keyVars, queue, sender, worker, docVars>> PROVE Kept
  BY <1>1 DEF Kept, docVars
<1>2. ASSUME NEW s \in Stoppers, (\E i \in 1 .. created : StopRead(s, i)) \/ StopStep(s)
      PROVE  Kept
  <2>1. /\ UNCHANGED <<newVars, keyVars, queue, sender, worker>>
        /\ \A i \in Traces : status'[i] = status[i] \/ status'[i] = "stopped"
    BY <1>2, StopKeeps, SaveEffect DEF docVars
  <2> QED  BY <2>1 DEF Kept, Result
<1>3. CASE Recover
  <2>1. \A i \in Traces : status'[i] = IF reachable /\ status[i] \in Live THEN "failed" ELSE status[i]
    BY <1>3 DEF Recover
  <2> QED  BY <1>3, <2>1 DEF Recover, Kept, callVars, Live, Result
<1>4. CASE SyncStep
  BY <1>1, <1>4 DEF SyncStep, SyncEnqueue, SyncRun, SyncFinish, SyncLetsGo, Others, callVars
<1>5. CASE Outage
  BY <1>1, <1>5 DEF Outage, callVars
<1>6. CASE UNCHANGED vars
  BY <1>1, <1>6 DEF vars, callVars
<1> QED  BY <1>2, <1>3, <1>4, <1>5, <1>6, JobStep, MergeStep, AskStep, LoadStep DEF Next, WorkerStep

LEMMA StepPlaced ==
    ASSUME TypeOK, Placed, Fresh, [Next]_vars
    PROVE  Placed'
<1>1. ASSUME NEW e \in Enqueuers, NEW a \in Addresses, NEW v, NEW r, Create(e, a, v, r)
      PROVE  Placed'
  <2>1. worker' = worker /\ \A i \in Traces : i # created' => root'[i] = root[i]
    BY <1>1, Shapes DEF Create
  <2>2. Job # created'
    BY <1>1, Shapes, Hands, Indices DEF Create, Fresh
  <2> QED  BY <2>1, <2>2 DEF Placed, Job, IsRoot
<1>2. ASSUME UNCHANGED <<worker, root>> PROVE Placed'
  BY <1>2 DEF Placed, Job, IsRoot
<1>3. ASSUME NEW e \in Enqueuers, SendStep(e) PROVE Placed'
  BY <1>2, <1>3 DEF SendStep, Send, QueueFull, Sending, newVars
<1>4. ASSUME NEW s \in Stoppers, (\E i \in 1 .. created : StopRead(s, i)) \/ StopStep(s)
      PROVE  Placed'
  BY <1>2, <1>4, StopKeeps DEF newVars
<1>5. CASE Recover \/ SyncStep \/ Outage \/ UNCHANGED vars
  BY <1>2, <1>5 DEF Recover, SyncStep, SyncEnqueue, SyncRun, SyncFinish, SyncLetsGo, Others, Outage,
     vars, newVars, callVars
<1>6. CASE Receive
  <2>1. worker' = Working("load", Head(queue)) /\ "load" \in Places /\ Head(queue) \in 0 .. MaxTraces
        /\ Head(queue) \in Traces
    BY <1>6, Shapes, HeadTailProperties, Indices DEF Receive, Places
  <2>2. worker'.pc = "load" /\ worker'.job \in Traces
    BY <2>1, WorkingType
  <2> QED  BY <2>2 DEF Placed, Job
<1>7. CASE Crash
  BY <1>7, Hands DEF Crash, Placed
<1> QED  BY <1>1, <1>3, <1>4, <1>5, <1>6, <1>7, JobStep, MergeStep, AskStep, LoadStep
         DEF Next, WorkerStep, Enqueue, EnqueueExtension
-----------------------------------------------------------------------------
(* Everybody handles traces that there are. *)

LEMMA CreateEffect ==
    ASSUME TypeOK, NEW e \in Enqueuers, NEW a, NEW v, NEW r, Create(e, a, v, r)
    PROVE  /\ created' = created + 1 /\ created' \in Traces /\ created' \notin 1 .. created
           /\ sender[e] = Idle /\ sender'[e] # Idle /\ sender'[e].pc = "send" /\ sender'[e].job = created'
           /\ \A f \in Enqueuers \ {e} : sender'[f] = sender[f]
           /\ status'[created'] = "queued" /\ seed'[created'] = a /\ variant'[created'] = v /\ root'[created'] = r
           /\ \A i \in Traces \ {created'} :
                 /\ status'[i] = status[i] /\ seed'[i] = seed[i] /\ variant'[i] = variant[i]
                 /\ root'[i] = root[i]
           /\ UNCHANGED <<queue, worker, stopper, syncs, result>>
<1>1. created' = created + 1 /\ created' \in Traces /\ created' \notin 1 .. created
  BY Shapes, ConstantsAssumption DEF Create, Traces
<1>2. sender'[e] # Idle /\ sender'[e].pc = "send" /\ sender'[e].job = created'
  <2>1. sender'[e] = At("send", created')
    BY Shapes DEF Create
  <2> QED  BY <2>1 DEF At, Idle
<1>3. \A f \in Enqueuers \ {e} : sender'[f] = sender[f]
  BY Shapes DEF Create
<1>4. /\ status'[created'] = "queued" /\ seed'[created'] = a
      /\ variant'[created'] = v /\ root'[created'] = r
  BY <1>1, Shapes DEF Create
<1>5. \A i \in Traces \ {created'} :
         /\ status'[i] = status[i] /\ seed'[i] = seed[i] /\ variant'[i] = variant[i]
         /\ root'[i] = root[i]
  BY <1>1, Shapes DEF Create
<1> QED  BY <1>1, <1>2, <1>3, <1>4, <1>5 DEF Create

\* A message goes into the queue, or the key goes back.
LEMMA SendEffect ==
    ASSUME TypeOK, NEW e \in Enqueuers, SendStep(e)
    PROVE  /\ sender[e] # Idle /\ sender[e].job \in Traces /\ sender'[e] = Idle
           /\ \A f \in Enqueuers \ {e} : sender'[f] = sender[f]
           /\ UNCHANGED <<syncVars, docVars, newVars, stopper, worker>>
           /\ \/ /\ UNCHANGED keyVars
                 /\ DOMAIN queue' = 1 .. Len(queue) + 1
                 /\ \A k \in DOMAIN queue : queue'[k] = queue[k] /\ k \in DOMAIN queue'
                 /\ queue'[Len(queue) + 1] = sender[e].job
                 /\ \A k \in DOMAIN queue' : k \in DOMAIN queue \/ k = Len(queue) + 1
              \/ queue' = queue /\ ReleaseKey(sender[e].job)
<1>1. sender[e] # Idle /\ sender[e].job \in Traces
  BY Hands DEF SendStep, Send, QueueFull
<1>2. sender'[e] = Idle /\ \A f \in Enqueuers \ {e} : sender'[f] = sender[f]
  BY Shapes DEF SendStep, Send, QueueFull
<1>3. UNCHANGED <<syncVars, docVars, newVars, stopper, worker>>
  BY DEF SendStep, Send, QueueFull, Sending
<1>4. CASE Send(e)
  <2>1. queue' = Append(queue, sender[e].job) /\ UNCHANGED keyVars
    BY <1>4 DEF Send
  <2>2. /\ DOMAIN queue' = 1 .. Len(queue) + 1
        /\ \A k \in 1 .. Len(queue) : queue'[k] = queue[k]
        /\ queue'[Len(queue) + 1] = sender[e].job
    BY <1>1, <2>1, Shapes, AppendProperties
  <2>3. /\ \A k \in DOMAIN queue : queue'[k] = queue[k] /\ k \in DOMAIN queue'
        /\ \A k \in DOMAIN queue' : k \in DOMAIN queue \/ k = Len(queue) + 1
    BY <2>2, Shapes
  <2> QED  BY <1>1, <1>2, <1>3, <2>1, <2>2, <2>3
<1>5. CASE QueueFull(e)
  BY <1>1, <1>2, <1>3, <1>5 DEF QueueFull
<1> QED  BY <1>4, <1>5 DEF SendStep

\* The worker takes the first message.
LEMMA ReceiveEffect ==
    ASSUME TypeOK, Receive
    PROVE  /\ worker.pc = "idle" /\ Job = NoTrace /\ worker = Resting
           /\ 1 \in DOMAIN queue /\ queue[1] \in Traces
           /\ worker'.job = queue[1] /\ worker'.pc = "load" /\ worker' = Working("load", queue[1])
           /\ \A k \in DOMAIN queue' :
                 queue'[k] = queue[k + 1] /\ k + 1 \in DOMAIN queue /\ k + 1 # 1 /\ k \in Nat
           /\ \A k \in DOMAIN queue : k # 1 => k - 1 \in DOMAIN queue' /\ queue'[k - 1] = queue[k]
           /\ UNCHANGED <<syncVars, docVars, newVars, keyVars, sender, stopper>>
<1>1. Len(queue) > 0 /\ 1 \in DOMAIN queue /\ queue[1] \in Traces /\ Head(queue) = queue[1]
  BY Shapes, Hands DEF Receive
<1>2. worker' = Working("load", queue[1]) /\ queue[1] \in 0 .. MaxTraces /\ "load" \in Places
  BY <1>1, Indices DEF Receive, Places
<1>3. worker'.job = queue[1] /\ worker'.pc = "load"
  BY <1>2, WorkingType
<1>4. queue' = Tail(queue)
  BY DEF Receive
<1>5. DOMAIN queue' = 1 .. Len(queue) - 1 /\ \A k \in 1 .. Len(queue) - 1 : queue'[k] = queue[k + 1]
  BY <1>1, <1>4, Shapes
<1>6. /\ \A k \in DOMAIN queue' :
             queue'[k] = queue[k + 1] /\ k + 1 \in DOMAIN queue /\ k + 1 # 1 /\ k \in Nat
      /\ \A k \in DOMAIN queue : k # 1 => k - 1 \in DOMAIN queue' /\ queue'[k - 1] = queue[k]
  BY <1>5, Shapes
<1> QED  BY <1>1, <1>2, <1>3, <1>6, Hands DEF Receive, Job

\* A stop reads a trace that there is, and its later steps never read again.
LEMMA StopReads ==
    ASSUME TypeOK, Fresh, NEW s \in Stoppers, NEW i \in 1 .. created, StopRead(s, i)
    PROVE  /\ \A t \in Stoppers \ {s} : stopper'[t] = stopper[t]
           /\ stopper'[s].pc = "save" /\ stopper'[s].job \in 1 .. created /\ stopper'[s].job \in Traces
           /\ stopper'[s].ids = syncs[stopper'[s].job] /\ status[stopper'[s].job] \in Live
           /\ UNCHANGED <<docVars, worker, sender, queue, newVars>>
<1>1. i \in Traces
  BY Shapes, ConstantsAssumption DEF TypeOK, Traces
<1>2. Target(i) \in Traces
  <2>1. CASE Target(i) = i
    BY <1>1, <2>1
  <2>2. CASE Target(i) # i
    <3> DEFINE E == {e \in Traces : root[e] = i /\ e <= created}
    <3>1. E # {} /\ Target(i) = CHOOSE e \in E : \A f \in E : f <= e
      BY <2>2 DEF Target
    <3>2. E \subseteq Traces
      OBVIOUS
    <3> HIDE DEF E
    <3>3. \E e \in E : \A f \in E : f <= e
      BY <3>1, <3>2, Latest
    <3> QED  BY <3>1, <3>2, <3>3
  <2> QED  BY <2>1, <2>2
<1>3. status[Target(i)] \in Live
  BY DEF StopRead
<1>4. Target(i) \in 1 .. created
  BY <1>2, <1>3, Shapes DEF Fresh, Live, Traces
<1>5. stopper' = [stopper EXCEPT ![s] = [pc |-> "save", job |-> Target(i), ids |-> syncs[Target(i)], sync |-> NoSync]]
  BY DEF StopRead
<1> QED  BY <1>2, <1>3, <1>4, <1>5, Shapes DEF StopRead, Unheard

LEMMA StopMoves ==
    ASSUME TypeOK, NEW s \in Stoppers, StopStep(s)
    PROVE  /\ \A t \in Stoppers \ {s} : stopper'[t] = stopper[t]
           /\ \/ stopper'[s] = NotStopping
              \/ stopper'[s].pc # "save" /\ stopper'[s].job = stopper[s].job
<1>1. stopper[s] \in Stops
  <2>1. stopper[s].pc # "idle"
    BY DEF StopStep, StopSave, StopCancel, StopSyncRead, StopSyncSave
  <2> QED  BY <2>1, Hands
<1>2. CASE StopSyncRead(s)
  <2>1. \A t \in Stoppers \ {s} : stopper'[t] = stopper[t]
    BY <1>2, Shapes DEF StopSyncRead
  <2>2. CASE stopper'[s] = NotStopping
    BY <2>1, <2>2
  <2>3. ASSUME NEW k,
               stopper'[s] = IF reachable /\ syncStatus[k] \in Sync!Live
                             THEN [stopper[s] EXCEPT !.ids = @ \ {k}, !.pc = "syncsave", !.sync = k]
                             ELSE [stopper[s] EXCEPT !.ids = @ \ {k}]
        PROVE  stopper'[s].pc # "save" /\ stopper'[s].job = stopper[s].job
    <3>1. stopper[s].pc = "sync"
      BY <1>2 DEF StopSyncRead
    <3> QED  BY <1>1, <2>3, <3>1 DEF Stops
  <2>4. stopper'[s] = NotStopping
        \/ \E k : stopper'[s] = IF reachable /\ syncStatus[k] \in Sync!Live
                             THEN [stopper[s] EXCEPT !.ids = @ \ {k}, !.pc = "syncsave", !.sync = k]
                             ELSE [stopper[s] EXCEPT !.ids = @ \ {k}]
    BY <1>2, Shapes DEF StopSyncRead
  <2> QED  BY <2>1, <2>2, <2>3, <2>4
<1>3. CASE StopSave(s)
  <2>1. \A t \in Stoppers \ {s} : stopper'[t] = stopper[t]
    BY <1>3, Shapes DEF StopSave
  <2>2. stopper'[s] = [stopper[s] EXCEPT !.pc = "cancel"] \/ stopper'[s] = NotStopping
    BY <1>3, Shapes DEF StopSave
  <2> QED  BY <1>1, <2>1, <2>2 DEF Stops
<1>4. CASE StopCancel(s)
  <2>1. \A t \in Stoppers \ {s} : stopper'[t] = stopper[t]
    BY <1>4, Shapes DEF StopCancel
  <2>2. stopper'[s] = [stopper[s] EXCEPT !.pc = "sync"]
    BY <1>4, Shapes DEF StopCancel
  <2> QED  BY <1>1, <2>1, <2>2 DEF Stops
<1>5. CASE StopSyncSave(s)
  <2>1. \A t \in Stoppers \ {s} : stopper'[t] = stopper[t]
    BY <1>5, Shapes DEF StopSyncSave
  <2>2. stopper'[s] = [stopper[s] EXCEPT !.pc = "sync", !.sync = NoSync]
    BY <1>5, Shapes DEF StopSyncSave
  <2> QED  BY <1>1, <2>1, <2>2 DEF Stops
<1> QED  BY <1>2, <1>3, <1>4, <1>5 DEF StopStep

\* Who creates a trace, and of which root.
LEMMA Creators ==
    ASSUME NEW e \in Enqueuers, NEW a \in Addresses,
           (\E v \in Variants : Enqueue(e, a, v)) \/ (\E r \in 1 .. created : EnqueueExtension(e, r, a))
    PROVE  \E v, r : Create(e, a, v, r) /\ (r # NoTrace => r \in 1 .. created /\ IsRoot(r))
BY DEF Enqueue, EnqueueExtension

\* The worker writes the document of its job, or merges it into the root.
LEMMA WorkerWrites ==
    ASSUME WorkerStep \/ TraverseFails
    PROVE  \/ UNCHANGED docVars
           \/ worker.pc # "idle" /\ \E st, ids, out : Save(Job, st, ids, out)
           \/ worker.pc = "merge" /\ \E st, ids, out : Save(root[Job], st, ids, out)
<1>1. CASE ReadRoot \/ ReadSeed \/ Poll \/ Traverse \/ TraverseFails \/ Reread \/ Fail \/ Receive \/ Load \/ Ask \/ Release
  BY <1>1 DEF ReadRoot, ReadSeed, Poll, Traverse, TraverseFails, Reread, Fail, Receive, Load, Ask, Release, Silent
<1>2. CASE Begin \/ Mark \/ Again \/ Finish \/ Close
  BY <1>2 DEF Begin, Mark, Again, Finish, Close, SaveStep
<1>3. CASE Note \/ Merge \/ FailSave
  BY <1>3 DEF Note, Merge, FailSave
<1> QED  BY <1>1, <1>2, <1>3 DEF WorkerStep

\* Who writes what: a new trace, a stop, the sweep, the worker.
LEMMA Writers ==
    ASSUME TypeOK, Placed, Fresh, [Next]_vars
    PROVE  \/ UNCHANGED docVars
           \/ \E e \in Enqueuers : \E a, v, r : Create(e, a, v, r)
           \/ Recover
           \/ \E i \in 1 .. created : \E st, ids, out :
                 /\ i \in Traces /\ Save(i, st, ids, out) /\ created' = created
                 /\ \/ i = Job /\ worker.pc # "idle" /\ (WorkerStep \/ TraverseFails)
                    \/ i = root[Job] /\ worker.pc = "merge" /\ WorkerStep
                    \/ \E s \in Stoppers : /\ stopper[s].pc = "save" /\ stopper[s].job = i
                                           /\ st = "stopped" /\ ids = stopper[s].ids /\ out = {}
                                           /\ UNCHANGED <<worker, sender, queue, syncStatus>>
<1>1. ASSUME WorkerStep \/ TraverseFails, ~UNCHANGED docVars
      PROVE  \E i \in 1 .. created : \E st, ids, out :
                /\ i \in Traces /\ Save(i, st, ids, out) /\ created' = created
                /\ \/ i = Job /\ worker.pc # "idle"
                   \/ i = root[Job] /\ worker.pc = "merge" /\ WorkerStep
  <2>1. Job \in 1 .. created /\ Job \in Traces
    <3>1. worker.pc # "idle"
      BY <1>1, WorkerWrites
    <3> QED  BY <3>1, Shapes DEF Placed, Fresh, Traces
  <2>2. worker.pc = "merge" => root[Job] \in 1 .. created /\ root[Job] \in Traces
    <3> SUFFICES ASSUME worker.pc = "merge" PROVE root[Job] \in 1 .. created /\ root[Job] \in Traces
      OBVIOUS
    <3>1. root[Job] \in 0 .. MaxTraces /\ root[Job] # NoTrace
      BY <2>1 DEF Placed, TypeOK, IsRoot
    <3>2. root[Job] \in Traces
      BY <3>1, Indices
    <3>3. root[Job] <= created
      BY <2>1, <3>1 DEF Fresh
    <3> QED  BY <3>2, <3>3, Shapes DEF Traces
  <2>3. created' = created
    <3>1. CASE ReadRoot \/ ReadSeed \/ Poll \/ Traverse \/ TraverseFails \/ Reread \/ Fail \/ Receive \/ Load \/ Ask \/ Release
      BY <3>1 DEF ReadRoot, ReadSeed, Poll, Traverse, TraverseFails, Reread, Fail, Receive, Load, Ask, Release, Silent,
         Writing, newVars
    <3>2. CASE Begin \/ Mark \/ Again \/ Finish \/ Close \/ Note \/ Merge \/ FailSave
      BY <3>2 DEF Begin, Mark, Again, Finish, Close, SaveStep, Note, Merge, FailSave, Writing, newVars
    <3> QED  BY <1>1, <3>1, <3>2 DEF WorkerStep
  <2>4. worker.pc = "merge" => ~TraverseFails
    BY DEF TraverseFails
  <2> QED  BY <1>1, <2>1, <2>2, <2>3, <2>4, WorkerWrites
<1>2. ASSUME NEW s \in Stoppers, (\E i \in 1 .. created : StopRead(s, i)) \/ StopStep(s), ~UNCHANGED docVars
      PROVE  \E i \in 1 .. created : \E st, ids, out :
                /\ i \in Traces /\ Save(i, st, ids, out) /\ created' = created
                /\ stopper[s].pc = "save" /\ stopper[s].job = i
                /\ st = "stopped" /\ ids = stopper[s].ids /\ out = {}
                /\ UNCHANGED <<worker, sender, queue, syncStatus>>
  <2>1. /\ stopper[s].pc = "save" /\ stopper[s].job \in Traces
        /\ Save(stopper[s].job, "stopped", stopper[s].ids, {})
    BY <1>2, StopKeeps
  <2>2. stopper[s].job \in 1 .. created
    BY <2>1, Shapes DEF Fresh, Traces
  <2>3. UNCHANGED <<worker, sender, queue, created>>
    BY <1>2, StopKeeps DEF newVars
  <2>4. UNCHANGED syncStatus
    BY <1>2, <2>1 DEF StopRead, StopStep, StopSave, StopCancel, StopSyncRead, StopSyncSave, syncVars
  <2> QED  BY <2>1, <2>2, <2>3, <2>4
<1>3. CASE UNCHANGED vars \/ SyncStep \/ Crash \/ Outage
  BY <1>3 DEF vars, SyncStep, SyncEnqueue, SyncRun, SyncFinish, SyncLetsGo, Others, Crash, Outage
<1>4. ASSUME NEW e \in Enqueuers, SendStep(e) PROVE UNCHANGED docVars
  BY <1>4 DEF SendStep, Send, QueueFull, Sending
<1>5. ASSUME NEW e \in Enqueuers, NEW a \in Addresses,
             (\E v \in Variants : Enqueue(e, a, v)) \/ (\E r \in 1 .. created : EnqueueExtension(e, r, a))
      PROVE  \E v, r : Create(e, a, v, r)
  BY <1>5 DEF Enqueue, EnqueueExtension
<1>6. CASE Recover
  BY <1>6
<1>7. CASE Next
  <2>1. \/ \E e \in Enqueuers, a \in Addresses :
              (\E v \in Variants : Enqueue(e, a, v)) \/ (\E r \in 1 .. created : EnqueueExtension(e, r, a))
        \/ \E e \in Enqueuers : SendStep(e)
        \/ \E s \in Stoppers : (\E i \in 1 .. created : StopRead(s, i)) \/ StopStep(s)
        \/ Recover \/ WorkerStep \/ TraverseFails \/ SyncStep \/ Crash \/ Outage
    BY <1>7 DEF Next
  <2>2. CASE WorkerStep \/ TraverseFails
    BY <1>1, <2>2
  <2>3. CASE \E s \in Stoppers : (\E i \in 1 .. created : StopRead(s, i)) \/ StopStep(s)
    BY <1>2, <2>3
  <2>4. CASE \E e \in Enqueuers, a \in Addresses :
              (\E v \in Variants : Enqueue(e, a, v)) \/ (\E r \in 1 .. created : EnqueueExtension(e, r, a))
    BY <1>5, <2>4
  <2> QED  BY <1>3, <1>4, <1>6, <2>1, <2>2, <2>3, <2>4
<1> QED  BY <1>3, <1>7

\* Nothing but Enqueue and EnqueueExtension creates a trace.
LEMMA StepCreated ==
    ASSUME TypeOK, Placed, [Next]_vars
    PROVE  \/ UNCHANGED newVars
           \/ \E e \in Enqueuers, a \in Addresses :
                 \/ \E v \in Variants : Enqueue(e, a, v)
                 \/ \E r \in 1 .. created : EnqueueExtension(e, r, a)
<1>1. ASSUME NEW e \in Enqueuers, SendStep(e) PROVE UNCHANGED newVars
  BY <1>1 DEF SendStep, Send, QueueFull, Sending
<1> QED  BY <1>1, StepKinds DEF Kept, Leaves, Receive, Crash

LEMMA FreshDocs ==
    ASSUME TypeOK, Placed, Fresh, [Next]_vars
    PROVE  \A i \in Traces : i > created' =>
              status'[i] = "none" /\ syncs'[i] = {} /\ result'[i] = {} /\ root'[i] = NoTrace
<1> USE DEF Fresh
<1>0. created \in Nat /\ Traces \subseteq Nat
  BY Shapes, Indices DEF Traces
<1>1. ASSUME NEW e \in Enqueuers, NEW a, NEW v, NEW r, Create(e, a, v, r), NEW i \in Traces, i > created'
      PROVE  status'[i] = "none" /\ syncs'[i] = {} /\ result'[i] = {} /\ root'[i] = NoTrace
  BY <1>0, <1>1, CreateEffect
<1>2. (created' = created /\ root' = root) \/ \E e \in Enqueuers : \E a, v, r : Create(e, a, v, r)
  <2>1. ASSUME NEW e \in Enqueuers, NEW a \in Addresses,
               (\E v \in Variants : Enqueue(e, a, v)) \/ (\E r \in 1 .. created : EnqueueExtension(e, r, a))
        PROVE  \E v, r : Create(e, a, v, r)
    BY <2>1 DEF Enqueue, EnqueueExtension
  <2> QED  BY <2>1, StepCreated DEF newVars
<1>3. CASE Recover
  <2>1. \A i \in Traces : status[i] = "none" => status'[i] = "none"
    BY <1>3 DEF Recover, Live
  <2> QED  BY <1>3, <2>1 DEF Recover, newVars
<1>4. ASSUME NEW j \in 1 .. created, j \in Traces, NEW st, NEW ids, NEW out, Save(j, st, ids, out),
             created' = created, root' = root
      PROVE  \A i \in Traces : i > created' =>
                status'[i] = "none" /\ syncs'[i] = {} /\ result'[i] = {} /\ root'[i] = NoTrace
  BY <1>0, <1>4, SaveEffect
<1>5. CASE UNCHANGED docVars /\ created' = created /\ root' = root
  BY <1>5 DEF docVars
<1> QED  BY <1>1, <1>2, <1>3, <1>4, <1>5, Writers

LEMMA FreshHands ==
    ASSUME TypeOK, Placed, Fresh, [Next]_vars
    PROVE  /\ \A e \in Enqueuers : sender'[e].job <= created'
           /\ \A k \in DOMAIN queue' : queue'[k] <= created'
           /\ worker'.job <= created'
<1> USE DEF Fresh
<1>0. /\ created \in Nat /\ Traces \subseteq Nat /\ NoTrace <= created /\ Job \in Nat
      /\ \A e \in Enqueuers : sender[e].job \in Nat
      /\ \A k \in DOMAIN queue : queue[k] \in Nat
  BY Shapes, Hands, Indices DEF Traces, NoTrace
<1>1. ASSUME NEW e \in Enqueuers, NEW a, NEW v, NEW r, Create(e, a, v, r)
      PROVE  /\ \A f \in Enqueuers : sender'[f].job <= created'
             /\ \A k \in DOMAIN queue' : queue'[k] <= created'
             /\ worker'.job <= created'
  BY <1>0, <1>1, CreateEffect DEF Job
<1>2. ASSUME NEW e \in Enqueuers, SendStep(e)
      PROVE  /\ \A f \in Enqueuers : sender'[f].job <= created
             /\ \A k \in DOMAIN queue' : queue'[k] <= created
             /\ created' = created /\ worker' = worker
  BY <1>0, <1>2, SendEffect DEF Idle, newVars
<1>3. CASE Receive
  BY <1>3, ReceiveEffect DEF newVars
<1>4. CASE Leaves
  BY <1>0, <1>4, Hands DEF Leaves, newVars
<1>5. CASE Crash
  BY <1>0, <1>5, Hands DEF Crash, newVars, Idle
<1>6. CASE Kept
  BY <1>6 DEF Kept, newVars, Job
<1>7. CASE \E e \in Enqueuers : \E a, v, r : Create(e, a, v, r)
  BY <1>1, <1>7
<1>8. CASE \E e \in Enqueuers : SendStep(e)
  BY <1>2, <1>8 DEF Job
<1> QED  BY <1>3, <1>4, <1>5, <1>6, <1>7, <1>8, StepKinds, Creators

LEMMA FreshStops ==
    ASSUME TypeOK, Placed, Fresh, [Next]_vars
    PROVE  \A s \in Stoppers : stopper'[s].job <= created'
<1> USE DEF Fresh
<1>0. /\ created \in Nat /\ NoTrace <= created /\ NotStopping.job = NoTrace
      /\ \A s \in Stoppers : stopper[s].job \in Nat
  BY Shapes, Hands, Indices DEF NoTrace, NotStopping
<1>1. ASSUME NEW s \in Stoppers, (\E i \in 1 .. created : StopRead(s, i)) \/ StopStep(s)
      PROVE  \A t \in Stoppers : stopper'[t].job <= created
  <2>1. ASSUME NEW i \in 1 .. created, StopRead(s, i)
        PROVE  \A t \in Stoppers : stopper'[t].job <= created
    BY <1>0, <2>1, StopReads
  <2> QED  BY <1>0, <1>1, <2>1, StopMoves
<1>2. ASSUME NEW e \in Enqueuers, NEW a, NEW v, NEW r, Create(e, a, v, r)
      PROVE  \A s \in Stoppers : stopper'[s].job <= created'
  BY <1>0, <1>2, CreateEffect
<1>3. CASE Crash
  BY <1>0, <1>3 DEF Crash, newVars
<1>4. ASSUME NEW e \in Enqueuers, SendStep(e) PROVE UNCHANGED <<stopper, created>>
  BY <1>4 DEF SendStep, Send, QueueFull, Sending, newVars
<1>5. CASE WorkerStep \/ TraverseFails
  <2>1. UNCHANGED <<stopper, created>>
    <3>1. CASE ReadRoot \/ ReadSeed \/ Poll \/ Traverse \/ TraverseFails \/ Reread \/ Fail \/ Receive \/ Load \/ Ask \/ Release
      BY <3>1 DEF ReadRoot, ReadSeed, Poll, Traverse, TraverseFails, Reread, Fail, Receive, Load, Ask, Release, Silent,
         Writing, newVars, callVars
    <3>2. CASE Begin \/ Mark \/ Again \/ Finish \/ Close \/ Note \/ Merge \/ FailSave
      BY <3>2 DEF Begin, Mark, Again, Finish, Close, SaveStep, Note, Merge, FailSave, Writing, newVars, callVars
    <3> QED  BY <1>5, <3>1, <3>2 DEF WorkerStep
  <2> QED  BY <2>1
<1>6. CASE Recover \/ SyncStep \/ Outage \/ UNCHANGED vars
  BY <1>6 DEF Recover, SyncStep, SyncEnqueue, SyncRun, SyncFinish, SyncLetsGo, Others, Outage,
     vars, newVars, callVars
<1>7. CASE \E e \in Enqueuers : \E a, v, r : Create(e, a, v, r)
  BY <1>2, <1>7
<1>8. ASSUME NEW s \in Stoppers, (\E i \in 1 .. created : StopRead(s, i)) \/ StopStep(s)
      PROVE  created' = created
  BY <1>8, StopKeeps DEF newVars
<1> QED  BY <1>1, <1>3, <1>4, <1>5, <1>6, <1>7, <1>8, Creators DEF Next

LEMMA StepFresh ==
    ASSUME TypeOK, Placed, Fresh, [Next]_vars
    PROVE  Fresh'
<1>1. \A i \in Traces : root'[i] # NoTrace => root'[i] <= created' /\ IsRoot(root[i])'
  <2>1. ASSUME NEW e \in Enqueuers, NEW a, NEW v, NEW r, Create(e, a, v, r),
               r # NoTrace => r \in 1 .. created /\ IsRoot(r), NEW i \in Traces, root'[i] # NoTrace
        PROVE  root'[i] <= created' /\ IsRoot(root[i])'
    <3>1. root'[i] <= created /\ root[root'[i]] = NoTrace
      BY <2>1, CreateEffect DEF Fresh, IsRoot
    <3>2. root'[i] \in Traces
      <4>1. CASE i = created'
        <5>1. root'[i] = r /\ r \in 1 .. created /\ created \in 0 .. MaxTraces
          BY <2>1, <4>1, CreateEffect, SMTT(40) DEF TypeOK
        <5> QED  BY <5>1, ConstantsAssumption DEF Traces
      <4>2. CASE i # created'
        BY <2>1, <4>2, CreateEffect, Indices DEF TypeOK
      <4> QED  BY <4>1, <4>2
    <3>3. created' = created + 1 /\ created \in Nat /\ root'[i] \in Nat
      BY <2>1, <3>2, CreateEffect, Shapes DEF Traces
    <3>4. root'[root'[i]] = root[root'[i]]
      BY <2>1, <3>1, <3>2, <3>3, CreateEffect
    <3> QED  BY <3>1, <3>3, <3>4 DEF IsRoot
  <2>2. CASE UNCHANGED newVars
    BY <2>2 DEF newVars, Fresh, IsRoot
  <2> QED  BY <2>1, <2>2, StepCreated, Creators
<1> QED  BY <1>1, FreshDocs, FreshHands, FreshStops DEF Fresh, Job
-----------------------------------------------------------------------------
(* One holder per job, and keys. *)

LEMMA StepOneHolder ==
    ASSUME TypeOK, Placed, Fresh, OneHolder, [Next]_vars
    PROVE  OneHolder'
<1> USE DEF OneHolder, Job
<1>0. /\ NoTrace \notin Traces /\ \A k \in DOMAIN queue : queue[k] \in Traces
      /\ \A f \in Enqueuers : sender[f] # Idle => sender[f].job \in Traces
      /\ Idle.job = NoTrace
  BY Indices, Hands DEF Idle
<1>1. ASSUME NEW e \in Enqueuers, NEW a, NEW v, NEW r, Create(e, a, v, r)
      PROVE  OneHolder'
  <2>1. /\ \A f \in Enqueuers : sender[f].job # created'
        /\ \A k \in DOMAIN queue : queue[k] # created'
        /\ worker.job # created'
    BY <1>1, CreateEffect, Shapes, Hands, Indices DEF Fresh
  <2> QED  BY <1>0, <1>1, <2>1, CreateEffect
<1>2. ASSUME NEW e \in Enqueuers, SendStep(e)
      PROVE  OneHolder'
  <2>1. CASE queue' = queue
    BY <1>0, <1>2, <2>1, SendEffect
  <2>2. CASE /\ DOMAIN queue' = 1 .. Len(queue) + 1
             /\ \A k \in DOMAIN queue : queue'[k] = queue[k] /\ k \in DOMAIN queue'
             /\ queue'[Len(queue) + 1] = sender[e].job
             /\ \A k \in DOMAIN queue' : k \in DOMAIN queue \/ k = Len(queue) + 1
    <3>1. /\ sender[e] # Idle /\ sender'[e] = Idle /\ \A f \in Enqueuers \ {e} : sender'[f] = sender[f]
          /\ worker' = worker
      BY <1>2, SendEffect
    <3>2. \A f \in Enqueuers \ {e} : sender[f] # Idle => sender[f].job # sender[e].job
      BY <1>0, <3>1
    <3>3. \A k, m \in DOMAIN queue' : queue'[k] = queue'[m] => k = m
      BY <2>2, <3>1
    <3>4. \A k \in DOMAIN queue' : queue'[k] # worker'.job
      BY <2>2, <3>1
    <3>5. \A f \in Enqueuers, k \in DOMAIN queue' : sender'[f] # Idle => queue'[k] # sender'[f].job
      BY <2>2, <3>1, <3>2
    <3>6. \A f, g \in Enqueuers : sender'[f] # Idle /\ sender'[f].job = sender'[g].job => f = g
      BY <1>0, <3>1
    <3>7. \A f \in Enqueuers : sender'[f] # Idle => worker'.job # sender'[f].job
      BY <3>1
    <3> QED  BY <3>3, <3>4, <3>5, <3>6, <3>7
  <2> QED  BY <1>2, <2>1, <2>2, SendEffect
<1>3. CASE Receive
  <2>1. \A k, m \in DOMAIN queue' : queue'[k] = queue'[m] => k = m
    BY <1>3, ReceiveEffect
  <2> QED  BY <1>3, <2>1, ReceiveEffect
<1>4. CASE Leaves
  <2>1. worker'.job = NoTrace /\ UNCHANGED <<sender, queue>>
    BY <1>4, Hands DEF Leaves
  <2> QED  BY <1>0, <2>1
<1>5. CASE Crash
  <2>1. queue' = <<>> /\ \A f \in Enqueuers : sender'[f] = Idle
    BY <1>5 DEF Crash
  <2> QED  BY <2>1
<1>6. CASE Kept
  BY <1>6 DEF Kept
<1>7. CASE \E e \in Enqueuers : \E a, v, r : Create(e, a, v, r)
  BY <1>1, <1>7
<1> QED  BY <1>2, <1>3, <1>4, <1>5, <1>6, <1>7, StepKinds, Creators

\* Who has a job after a step.
LEMMA HandsAfterCreate ==
    ASSUME TypeOK, Fresh, NEW e \in Enqueuers, NEW a, NEW v, NEW r, Create(e, a, v, r)
    PROVE  /\ ~InHand(created') /\ \A i \in Traces : InHand(i)' <=> InHand(i) \/ i = created'
           /\ created' # Job
<1>1. /\ \A f \in Enqueuers : sender[f].job # created'
      /\ \A k \in DOMAIN queue : queue[k] # created'
      /\ worker.job # created'
  BY CreateEffect, Shapes, Hands, Indices DEF Fresh, Job
<1>2. Idle.job = NoTrace /\ NoTrace \notin Traces
  BY Indices DEF Idle
<1>3. \A i \in Traces : (\E f \in Enqueuers : sender'[f].job = i) <=> (\E f \in Enqueuers : sender[f].job = i) \/ i = created'
  BY <1>2, CreateEffect
<1> QED  BY <1>1, <1>3, CreateEffect DEF InHand, Job

LEMMA HandsAfterSend ==
    ASSUME TypeOK, Placed, OneHolder, NEW e \in Enqueuers, SendStep(e)
    PROVE  \/ UNCHANGED keyVars /\ \A i \in Traces : InHand(i)' <=> InHand(i)
           \/ /\ ReleaseKey(sender[e].job) /\ InHand(sender[e].job)
              /\ \A i \in Traces : InHand(i)' <=> InHand(i) /\ i # sender[e].job
<1> DEFINE j == sender[e].job
<1>1. /\ sender[e] # Idle /\ j \in Traces /\ sender'[e] = Idle /\ worker' = worker
      /\ \A f \in Enqueuers \ {e} : sender'[f] = sender[f]
      /\ Idle.job = NoTrace /\ NoTrace \notin Traces
  BY SendEffect, Indices DEF Idle
<1>2. \A f \in Enqueuers \ {e} : sender[f].job # j
  BY <1>1 DEF OneHolder
<1>3. \A i \in Traces : (\E f \in Enqueuers : sender[f].job = i)
                          <=> (\E f \in Enqueuers : sender'[f].job = i) \/ i = j
  BY <1>1
<1>4. ~\E f \in Enqueuers : sender'[f].job = j
  BY <1>1, <1>2
<1>5. CASE /\ UNCHANGED keyVars
           /\ DOMAIN queue' = 1 .. Len(queue) + 1
           /\ \A k \in DOMAIN queue : queue'[k] = queue[k] /\ k \in DOMAIN queue'
           /\ queue'[Len(queue) + 1] = sender[e].job
           /\ \A k \in DOMAIN queue' : k \in DOMAIN queue \/ k = Len(queue) + 1
  <2>1. Len(queue) + 1 \in DOMAIN queue'
    BY <1>5, Shapes
  <2>2. \A i \in Traces : (\E k \in DOMAIN queue' : queue'[k] = i) <=> (\E k \in DOMAIN queue : queue[k] = i) \/ i = j
    BY <1>5, <2>1
  <2> HIDE DEF j
  <2> QED  BY <1>1, <1>3, <1>5, <2>2 DEF InHand, Job
<1>6. CASE queue' = queue /\ ReleaseKey(sender[e].job)
  <2>1. Job # j /\ \A k \in DOMAIN queue : queue[k] # j
    BY <1>1 DEF OneHolder
  <2>2. InHand(j)
    BY DEF InHand
  <2> HIDE DEF j
  <2>3. \A i \in Traces : InHand(i)' <=> InHand(i) /\ i # j
    BY <1>1, <1>3, <1>4, <1>6, <2>1 DEF InHand, Job
  <2> QED  BY <1>6, <2>2, <2>3 DEF j
<1> QED  BY <1>5, <1>6, SendEffect

LEMMA HandsAfterReceive ==
    ASSUME TypeOK, Receive
    PROVE  \A i \in Traces : InHand(i)' <=> InHand(i)
<1>1. \A i \in Traces : (\E k \in DOMAIN queue : queue[k] = i) <=> (\E k \in DOMAIN queue' : queue'[k] = i) \/ queue[1] = i
  BY ReceiveEffect
<1> QED  BY <1>1, ReceiveEffect, Indices DEF InHand, Job

LEMMA HandsAfterLeaves ==
    ASSUME TypeOK, OneHolder, Leaves
    PROVE  InHand(Job) /\ \A i \in Traces : InHand(i)' <=> InHand(i) /\ i # Job
<1>1. worker'.job = NoTrace /\ UNCHANGED <<sender, queue>> /\ Job \in Traces /\ NoTrace \notin Traces
  BY Hands, Indices DEF Leaves
<1>2. /\ \A f \in Enqueuers : sender[f].job # Job
      /\ \A k \in DOMAIN queue : queue[k] # Job
  BY <1>1, Hands DEF OneHolder
<1> QED  BY <1>1, <1>2 DEF InHand, Job

LEMMA HandsAfterCrash ==
    ASSUME TypeOK, Crash
    PROVE  \A i \in Traces : ~InHand(i)' /\ ~Holds(i)'
<1>1. /\ queue' = <<>> /\ worker'.job = NoTrace /\ \A f \in Enqueuers : sender'[f].job = NoTrace
      /\ active' = [q \in Addresses \X Variants |-> NoTrace] /\ extending' = [r \in Traces |-> NoTrace]
      /\ UNCHANGED newVars
  BY Hands DEF Crash, Idle
<1>2. \A i \in Traces : ~InHand(i)'
  BY <1>1, Indices DEF InHand, Job
<1>3. ASSUME NEW i \in Traces PROVE ~Holds(i)'
  <2>1. Query(i) \in Addresses \X Variants
    BY DEF Query, TypeOK
  <2>2. CASE IsRoot(i)
    BY <1>1, <2>1, <2>2, Indices DEF Holds, IsRoot, Query, newVars
  <2>3. CASE ~IsRoot(i)
    <3>1. root[i] \in Traces
      BY <2>3, Indices DEF IsRoot, TypeOK
    <3> QED  BY <1>1, <2>3, <3>1, Indices DEF Holds, IsRoot, newVars
  <2> QED  BY <2>2, <2>3
<1> QED  BY <1>2, <1>3

\* A new trace takes a key that nobody held.
LEMMA HoldsAfterCreate ==
    ASSUME TypeOK, Fresh, NEW e \in Enqueuers, NEW a \in Addresses,
           (\E v \in Variants : Enqueue(e, a, v)) \/ (\E r \in 1 .. created : EnqueueExtension(e, r, a))
    PROVE  Holds(created)' /\ \A i \in 1 .. created : Holds(i)' <=> Holds(i)
<1>0. 1 .. created \subseteq Traces /\ NoTrace \notin Traces
  BY Shapes, ConstantsAssumption, Indices DEF TypeOK, Traces
<1>1. ASSUME NEW v \in Variants, Enqueue(e, a, v)
      PROVE  Holds(created)' /\ \A i \in 1 .. created : Holds(i)' <=> Holds(i)
  <2>1. Create(e, a, v, NoTrace) /\ active' = [active EXCEPT ![<<a, v>>] = created'] /\ extending' = extending
        /\ active[<<a, v>>] = NoTrace /\ <<a, v>> \in Addresses \X Variants
    BY <1>1 DEF Enqueue
  <2>2. active'[<<a, v>>] = created' /\ \A q \in Addresses \X Variants : q # <<a, v>> => active'[q] = active[q]
    BY <2>1, Shapes
  <2>3. Holds(created)'
    BY <2>1, <2>2, CreateEffect DEF Holds, IsRoot, Query
  <2>4. ASSUME NEW i \in 1 .. created PROVE Holds(i)' <=> Holds(i)
    <3>1. /\ i \in Traces /\ i # created' /\ i # NoTrace
          /\ root'[i] = root[i] /\ seed'[i] = seed[i] /\ variant'[i] = variant[i]
      BY <1>0, <2>1, CreateEffect
    <3>2. Query(i) \in Addresses \X Variants
      BY <3>1 DEF Query, TypeOK
    <3>3. active'[Query(i)] = i <=> active[Query(i)] = i
      BY <2>1, <2>2, <3>1, <3>2
    <3> QED  BY <2>1, <3>1, <3>3 DEF Holds, IsRoot, Query
  <2> QED  BY <2>3, <2>4
<1>2. ASSUME NEW r \in 1 .. created, EnqueueExtension(e, r, a)
      PROVE  Holds(created)' /\ \A i \in 1 .. created : Holds(i)' <=> Holds(i)
  <2>1. /\ Create(e, a, variant[r], r) /\ extending' = [extending EXCEPT ![r] = created'] /\ active' = active
        /\ extending[r] = NoTrace /\ r \in Traces
    BY <1>0, <1>2 DEF EnqueueExtension
  <2>2. extending'[r] = created' /\ \A q \in Traces \ {r} : extending'[q] = extending[q]
    BY <2>1, Shapes
  <2>3. Holds(created)'
    BY <1>0, <2>1, <2>2, CreateEffect DEF Holds, IsRoot
  <2>4. ASSUME NEW i \in 1 .. created PROVE Holds(i)' <=> Holds(i)
    <3>1. /\ i \in Traces /\ i # created' /\ i # NoTrace
          /\ root'[i] = root[i] /\ seed'[i] = seed[i] /\ variant'[i] = variant[i]
      BY <1>0, <2>1, CreateEffect
    <3>2. CASE IsRoot(i)
      BY <2>1, <3>1, <3>2 DEF Holds, IsRoot, Query
    <3>3. CASE ~IsRoot(i)
      <4>1. root[i] \in Traces
        BY <3>1, <3>3, Indices DEF IsRoot, TypeOK
      <4>2. extending'[root[i]] = i <=> extending[root[i]] = i
        BY <2>1, <2>2, <3>1, <4>1
      <4> QED  BY <3>1, <3>3, <4>2 DEF Holds, IsRoot
    <3> QED  BY <3>2, <3>3
  <2> QED  BY <2>3, <2>4
<1> QED  BY <1>1, <1>2

\* A key given back is the key of that trace and of no other.
LEMMA HoldsAfterRelease ==
    ASSUME TypeOK, NEW j \in Traces, Holds(j), ReleaseKey(j), UNCHANGED newVars
    PROVE  \A i \in Traces : Holds(i)' <=> Holds(i) /\ i # j
<1> SUFFICES ASSUME NEW i \in Traces PROVE Holds(i)' <=> Holds(i) /\ i # j
  OBVIOUS
<1>0. /\ Query(i) \in Addresses \X Variants /\ Query(j) \in Addresses \X Variants
      /\ \A k \in Traces : ~IsRoot(k) => root[k] \in Traces
      /\ NoTrace \notin Traces
      /\ UNCHANGED <<root, seed, variant>>
  BY Indices DEF Query, IsRoot, TypeOK, newVars
<1>1. CASE IsRoot(j)
  <2>1. /\ active' = [active EXCEPT ![Query(j)] = NoTrace] /\ extending' = extending
        /\ active[Query(j)] = j
    BY <1>1 DEF ReleaseKey, Holds
  <2>2. active'[Query(j)] = NoTrace /\ \A q \in Addresses \X Variants : q # Query(j) => active'[q] = active[q]
    BY <1>0, <2>1, Shapes
  <2>3. CASE IsRoot(i)
    <3>1. active'[Query(i)] = i <=> active[Query(i)] = i /\ i # j
      BY <1>0, <2>1, <2>2
    <3> QED  BY <1>0, <2>3, <3>1 DEF Holds, IsRoot, Query
  <2>4. CASE ~IsRoot(i)
    BY <1>0, <1>1, <2>1, <2>4 DEF Holds, IsRoot, Query
  <2> QED  BY <2>3, <2>4
<1>2. CASE ~IsRoot(j)
  <2>1. /\ extending' = [extending EXCEPT ![root[j]] = NoTrace] /\ active' = active
        /\ extending[root[j]] = j /\ root[j] \in Traces
    BY <1>0, <1>2 DEF ReleaseKey, Holds
  <2>2. extending'[root[j]] = NoTrace /\ \A q \in Traces \ {root[j]} : extending'[q] = extending[q]
    BY <2>1, Shapes
  <2>3. CASE IsRoot(i)
    BY <1>0, <1>2, <2>1, <2>3 DEF Holds, IsRoot, Query
  <2>4. CASE ~IsRoot(i)
    <3>1. extending'[root[i]] = i <=> extending[root[i]] = i /\ i # j
      BY <1>0, <2>1, <2>2, <2>4
    <3> QED  BY <1>0, <2>4, <3>1 DEF Holds, IsRoot
  <2> QED  BY <2>3, <2>4
<1> QED  BY <1>1, <1>2

LEMMA HoldsAfterKept ==
    ASSUME UNCHANGED <<newVars, keyVars>>, NEW i
    PROVE  Holds(i)' <=> Holds(i)
BY DEF Holds, IsRoot, Query, newVars, keyVars

\* A key is taken with a new trace, stays with it from hand to hand, and goes when
\* the trace leaves the last pair; only a stopped root leaves its key behind.
LEMMA StepKeys ==
    ASSUME TypeOK, Placed, Fresh, OneHolder, Done, KeysMatch, [Next]_vars
    PROVE  KeysMatch'
<1>0. 1 .. created \subseteq Traces /\ NoTrace \notin Traces
  BY Shapes, ConstantsAssumption, Indices DEF TypeOK, Traces
<1>1. ASSUME NEW e \in Enqueuers, NEW a \in Addresses,
             (\E v \in Variants : Enqueue(e, a, v)) \/ (\E r \in 1 .. created : EnqueueExtension(e, r, a))
      PROVE  KeysMatch'
  <2>1. PICK v, r : Create(e, a, v, r)
    BY <1>1, Creators
  <2>2. Holds(created)' /\ \A i \in 1 .. created : Holds(i)' <=> Holds(i)
    BY <1>1, HoldsAfterCreate
  <2>3. /\ \A i \in Traces : InHand(i)' <=> InHand(i) \/ i = created'
        /\ ~InHand(created')
    BY <2>1, HandsAfterCreate
  <2>4. /\ created' \in Traces /\ \A i \in 1 .. created' : i = created' \/ i \in 1 .. created
        /\ created' = created + 1
    BY <2>1, CreateEffect, Shapes
  <2>5. \A i \in 1 .. created : i # created' /\ status'[i] = status[i] /\ root'[i] = root[i]
    BY <1>0, <2>1, CreateEffect
  <2>6. ASSUME NEW i \in 1 .. created'
        PROVE  /\ InHand(i)' => Holds(i)'
               /\ Holds(i)' => InHand(i)' \/ (status'[i] = "stopped" /\ IsRoot(i)')
    <3>1. CASE i = created'
      BY <2>2, <2>3, <2>4, <3>1
    <3>2. CASE i \in 1 .. created
      BY <1>0, <2>2, <2>3, <2>5, <3>2 DEF KeysMatch, IsRoot
    <3> QED  BY <2>4, <3>1, <3>2
  <2> QED  BY <2>6 DEF KeysMatch
<1>2. ASSUME UNCHANGED <<newVars, keyVars>>, \A i \in Traces : InHand(i)' <=> InHand(i),
             \A i \in 1 .. created : status[i] = "stopped" => status'[i] = "stopped" \/ InHand(i) \/ ~Holds(i)
      PROVE  KeysMatch'
  BY <1>0, <1>2, HoldsAfterKept DEF KeysMatch, IsRoot, newVars
<1>3. ASSUME NEW j \in Traces, ReleaseKey(j), InHand(j), \A i \in Traces : InHand(i)' <=> InHand(i) /\ i # j,
             UNCHANGED <<newVars, docVars>>, j \in 1 .. created
      PROVE  KeysMatch'
  <2>1. Holds(j)
    BY <1>3 DEF KeysMatch
  <2>2. \A i \in Traces : Holds(i)' <=> Holds(i) /\ i # j
    BY <1>3, <2>1, HoldsAfterRelease
  <2> QED  BY <1>0, <1>3, <2>2 DEF KeysMatch, IsRoot, newVars, docVars
<1>4. ASSUME NEW e \in Enqueuers, SendStep(e) PROVE KeysMatch'
  <2>1. UNCHANGED <<newVars, docVars>> /\ sender[e].job \in Traces /\ sender[e].job \in 1 .. created
    BY <1>4, SendEffect, Shapes DEF Fresh, Traces
  <2> QED  BY <1>2, <1>3, <1>4, <2>1, HandsAfterSend DEF docVars
<1>5. CASE Receive
  BY <1>2, <1>5, HandsAfterReceive, ReceiveEffect DEF docVars
<1>6. CASE Leaves
  <2>1. Job \in Traces /\ Job \in 1 .. created /\ UNCHANGED <<newVars, docVars>>
    BY <1>6, Shapes DEF Leaves, Fresh, Traces
  <2>2. CASE ReleaseKey(Job)
    BY <1>3, <1>6, <2>1, <2>2, HandsAfterLeaves
  <2>3. CASE status[Job] = "stopped" /\ IsRoot(Job) /\ UNCHANGED keyVars
    BY <1>0, <1>6, <2>1, <2>3, HandsAfterLeaves, HoldsAfterKept DEF KeysMatch, IsRoot, newVars, docVars
  <2> QED  BY <1>6, <2>2, <2>3 DEF Leaves
<1>7. CASE Crash
  <2>1. created' = created
    BY <1>7 DEF Crash, newVars
  <2> QED  BY <1>0, <1>7, <2>1, HandsAfterCrash DEF KeysMatch
<1>8. CASE Kept
  <2>1. UNCHANGED <<newVars, keyVars>> /\ \A i \in Traces : InHand(i)' <=> InHand(i)
    BY <1>8 DEF Kept, InHand, Job
  <2>2. ASSUME NEW i \in 1 .. created, status[i] = "stopped", status'[i] # "stopped"
        PROVE  InHand(i) \/ ~Holds(i)
    <3>1. i = Job \/ Extended(i)
      BY <1>0, <1>8, <2>2 DEF Kept
    <3> QED  BY <3>1 DEF Done, Past, InHand
  <2> QED  BY <1>2, <2>1, <2>2
<1> QED  BY <1>1, <1>4, <1>5, <1>6, <1>7, <1>8, StepKinds

LEMMA StepDone ==
    ASSUME TypeOK, Placed, Fresh, OneHolder, Done, KeysMatch, [Next]_vars
    PROVE  Done'
<1>0. 1 .. created \subseteq Traces /\ NoTrace \notin Traces
  BY Shapes, ConstantsAssumption, Indices DEF TypeOK, Traces
<1>1. ASSUME NEW e \in Enqueuers, NEW a \in Addresses,
             (\E v \in Variants : Enqueue(e, a, v)) \/ (\E r \in 1 .. created : EnqueueExtension(e, r, a))
      PROVE  Done'
  <2>1. PICK v, r : Create(e, a, v, r) /\ (r # NoTrace => r \in 1 .. created /\ status[r] \in Result)
    BY <1>1 DEF Enqueue, EnqueueExtension
  <2>2. \A i \in 1 .. created : Holds(i)' <=> Holds(i)
    BY <1>1, HoldsAfterCreate
  <2>3. \A i \in Traces : InHand(i)' <=> InHand(i) \/ i = created'
    BY <2>1, HandsAfterCreate
  <2>4. /\ created' \in Traces /\ \A i \in 1 .. created' : i = created' \/ i \in 1 .. created
        /\ created' \notin 1 .. created /\ created' # NoTrace /\ worker' = worker /\ created' = created + 1
    BY <1>0, <2>1, CreateEffect, Shapes
  <2>5. \A i \in 1 .. created : i \in Traces /\ i # created' /\ status'[i] = status[i]
    BY <1>0, <2>1, <2>4, CreateEffect
  <2>6. ASSUME NEW i \in 1 .. created, status'[i] \in Result \/ Extended(i)' PROVE Past(i)'
    <3>1. status[i] \in Result \/ Extended(i)
      <4>1. ASSUME NEW f \in Traces, root'[f] = i, root[f] # i PROVE status[i] \in Result
        <5>1. f = created' /\ r = i
          BY <2>1, <4>1, CreateEffect
        <5> QED  BY <1>0, <2>1, <2>5, <5>1
      <4> QED  BY <2>5, <2>6, <4>1 DEF Extended
    <3>2. Past(i)
      BY <3>1 DEF Done
    <3> QED  BY <2>2, <2>3, <2>4, <2>5, <3>2 DEF Past, Job
  <2>7. status'[created'] \notin Result /\ ~Extended(created)'
    <3>1. status'[created'] \notin Result
      BY <2>1, CreateEffect DEF Result
    <3>2. ASSUME NEW f \in Traces PROVE root'[f] # created'
      <4>1. CASE f = created'
        BY <2>1, <2>4, <4>1, CreateEffect
      <4>2. CASE f # created'
        <5>1. root'[f] = root[f]
          BY <2>1, <4>2, CreateEffect
        <5> QED  BY <2>4, <5>1, Shapes DEF Fresh
      <4> QED  BY <4>1, <4>2
    <3> QED  BY <3>1, <3>2 DEF Extended
  <2> QED  BY <2>4, <2>6, <2>7 DEF Done
<1>2. ASSUME UNCHANGED <<newVars, docVars>>, NEW j \in Traces, j \in 1 .. created, ReleaseKey(j), InHand(j),
             \A i \in Traces : InHand(i)' <=> InHand(i) /\ i # j,
             worker' = worker \/ j = Job
      PROVE  Done'
  <2>1. \A i \in Traces : Holds(i)' <=> Holds(i) /\ i # j
    BY <1>2, HoldsAfterRelease DEF KeysMatch
  <2>2. \A i \in 1 .. created : Past(i) => Past(i)'
    BY <1>0, <1>2, <2>1 DEF Past, Job
  <2> QED  BY <1>2, <2>2 DEF Done, Extended, newVars, docVars
<1>3. ASSUME UNCHANGED <<newVars, docVars, keyVars>>, \A i \in Traces : InHand(i)' <=> InHand(i),
             worker' = worker \/ worker.pc = "idle"
      PROVE  Done'
  <2>1. \A i \in 1 .. created : Past(i) => Past(i)'
    BY <1>0, <1>3, HoldsAfterKept DEF Past, Job
  <2> QED  BY <1>3, <2>1 DEF Done, Extended, newVars, docVars
<1>4. ASSUME NEW e \in Enqueuers, SendStep(e) PROVE Done'
  <2>1. /\ UNCHANGED <<newVars, docVars, worker>>
        /\ sender[e].job \in Traces /\ sender[e].job \in 1 .. created
    BY <1>4, SendEffect, Shapes DEF Fresh, Traces
  <2> QED  BY <1>2, <1>3, <1>4, <2>1, HandsAfterSend
<1>5. CASE Receive
  BY <1>3, <1>5, HandsAfterReceive, ReceiveEffect
<1>6. CASE Leaves
  <2>1. Job \in Traces /\ Job \in 1 .. created /\ UNCHANGED <<newVars, docVars>>
    BY <1>6, Shapes DEF Leaves, Fresh, Traces
  <2>2. CASE ReleaseKey(Job)
    BY <1>2, <1>6, <2>1, <2>2, HandsAfterLeaves
  <2>3. CASE worker.pc = "load" /\ UNCHANGED keyVars
    <3>1. InHand(Job) /\ \A i \in Traces : InHand(i)' <=> InHand(i) /\ i # Job
      BY <1>6, HandsAfterLeaves
    <3>2. ~Past(Job)
      BY <2>3, <3>1 DEF Past
    <3>3. \A i \in 1 .. created : Past(i) => Past(i)'
      BY <1>0, <2>1, <2>3, <3>1, <3>2, HoldsAfterKept DEF Past
    <3> QED  BY <2>1, <3>3 DEF Done, Extended, newVars, docVars
  <2> QED  BY <1>6, <2>2, <2>3 DEF Leaves
<1>7. CASE Crash
  <2>1. created' = created
    BY <1>7 DEF Crash, newVars
  <2> QED  BY <1>0, <1>7, <2>1, HandsAfterCrash DEF Done, Past
<1>8. CASE Kept
  <2>1. /\ UNCHANGED <<newVars, keyVars>> /\ \A i \in Traces : InHand(i)' <=> InHand(i)
        /\ worker'.job = Job /\ (worker.pc = "release" => worker'.pc = "release")
    BY <1>8 DEF Kept, InHand, Job
  <2>2. ASSUME NEW i \in 1 .. created, status'[i] \in Result \/ Extended(i)' PROVE Past(i)'
    <3>1. status[i] \in Result \/ Extended(i) \/ (i = Job /\ worker'.pc = "release")
      BY <1>0, <1>8, <2>2 DEF Kept, Extended, newVars
    <3>2. CASE i = Job /\ worker'.pc = "release"
      BY <1>0, <2>1, <3>2 DEF Past, InHand, Job
    <3>3. CASE Past(i)
      BY <1>0, <2>1, <3>3, HoldsAfterKept DEF Past, Job
    <3> QED  BY <3>1, <3>2, <3>3 DEF Done
  <2> QED  BY <2>1, <2>2 DEF Done, newVars
<1> QED  BY <1>1, <1>4, <1>5, <1>6, <1>7, <1>8, StepKinds
-----------------------------------------------------------------------------
(* What becomes of sync jobs. *)

LEMMA SyncMoves ==
    ASSUME TypeOK, [Next]_vars
    PROVE  \/ UNCHANGED <<syncStatus, syncCreated, syncOpen>>
           \/ \E a \in Addresses : Sync!Enqueue(a)
           \/ \E k \in Syncs : \/ Sync!Run(k) \/ Sync!Abandon(k)
                               \/ \E st \in Sync!Result \cup {"failed"} : Sync!Finish(k, st)
           \/ \E k \in 0 .. MaxSyncs : Sync!Stop(k)
           \/ Sync!Sweep \/ Sync!Restart
<1>1. ASSUME NEW e \in Enqueuers, SendStep(e) PROVE UNCHANGED syncVars
  BY <1>1, SendEffect
<1>2. ASSUME NEW e \in Enqueuers, NEW a \in Addresses,
             (\E v \in Variants : Enqueue(e, a, v)) \/ (\E r \in 1 .. created : EnqueueExtension(e, r, a))
      PROVE  UNCHANGED syncVars
  BY <1>2 DEF Enqueue, EnqueueExtension, Create
<1>3. ASSUME NEW s \in Stoppers, (\E i \in 1 .. created : StopRead(s, i)) \/ StopStep(s)
      PROVE  UNCHANGED syncVars \/ \E k \in 0 .. MaxSyncs : Sync!Stop(k)
  <2>1. StopSyncSave(s) => stopper[s].sync \in 0 .. MaxSyncs
    <3>1. StopSyncSave(s) => stopper[s] \in Stops
      BY Hands DEF StopSyncSave
    <3> QED  BY <3>1 DEF Stops
  <2> QED  BY <1>3, <2>1 DEF StopRead, StopStep, StopSave, StopCancel, StopSyncRead, StopSyncSave
<1>4. CASE WorkerStep \/ TraverseFails
  <2>1. CASE ReadRoot \/ ReadSeed \/ Poll \/ Traverse \/ TraverseFails \/ Reread \/ Fail \/ Receive \/ Load \/ Release
    BY <2>1 DEF ReadRoot, ReadSeed, Poll, Traverse, TraverseFails, Reread, Fail, Receive, Load, Release, Silent,
       Writing, syncVars
  <2>2. CASE Begin \/ Mark \/ Again \/ Finish \/ Close \/ Note \/ Merge \/ FailSave
    BY <2>2 DEF Begin, Mark, Again, Finish, Close, SaveStep, Note, Merge, FailSave, Writing, syncVars
  <2>3. CASE Ask
    <3>1. worker.need \in Addresses
      BY Hands DEF Workers
    <3> QED  BY <2>3, <3>1 DEF Ask, syncVars
  <2> QED  BY <1>4, <2>1, <2>2, <2>3 DEF WorkerStep
<1>5. CASE SyncStep
  BY <1>5 DEF SyncStep, SyncEnqueue, SyncRun, SyncFinish, SyncLetsGo, Sync!Release
<1>6. CASE Recover \/ Crash \/ Outage \/ UNCHANGED vars
  BY <1>6 DEF Recover, Crash, Outage, vars, syncVars
<1> QED  BY <1>1, <1>2, <1>3, <1>4, <1>5, <1>6 DEF Next, syncVars

LEMMA StepSyncsFresh ==
    ASSUME TypeOK, SyncsFresh, [Next]_vars
    PROVE  SyncsFresh' /\ \A k \in Syncs : Settled(k) => Settled(k)'
<1> USE DEF SyncsFresh, Settled
<1>0. syncCreated \in Nat /\ Syncs \subseteq Nat /\ DOMAIN syncStatus = Syncs /\ syncOpen \subseteq Syncs
  BY Shapes, Indices DEF Syncs, TypeOK
<1>1. CASE UNCHANGED <<syncStatus, syncCreated, syncOpen>>
  BY <1>1
<1>2. ASSUME NEW a \in Addresses, Sync!Enqueue(a)
      PROVE  SyncsFresh' /\ \A k \in Syncs : Settled(k) => Settled(k)'
  <2>1. /\ syncCreated' = syncCreated + 1 /\ syncCreated' \in Syncs
        /\ syncStatus'[syncCreated'] = "queued"
        /\ \A k \in Syncs : k # syncCreated' => syncStatus'[k] = syncStatus[k]
        /\ syncOpen' = syncOpen \cup {syncCreated'}
    BY <1>0, <1>2, ConstantsAssumption DEF Sync!Enqueue, Syncs
  <2>2. syncStatus[syncCreated'] = "none"
    BY <1>0, <2>1
  <2> QED  BY <1>0, <2>1, <2>2 DEF Sync!Result
<1>3. ASSUME NEW k \in Syncs, Sync!Run(k)
      PROVE  SyncsFresh' /\ \A m \in Syncs : Settled(m) => Settled(m)'
  BY <1>0, <1>3 DEF Sync!Run, Sync!Result
<1>4. ASSUME NEW k \in Syncs, Sync!Abandon(k)
      PROVE  SyncsFresh' /\ \A m \in Syncs : Settled(m) => Settled(m)'
  BY <1>0, <1>4 DEF Sync!Abandon
<1>5. ASSUME NEW k \in Syncs, NEW st, Sync!Finish(k, st)
      PROVE  SyncsFresh' /\ \A m \in Syncs : Settled(m) => Settled(m)'
  BY <1>0, <1>5 DEF Sync!Finish
<1>6. ASSUME NEW k \in 0 .. MaxSyncs, Sync!Stop(k)
      PROVE  SyncsFresh' /\ \A m \in Syncs : Settled(m) => Settled(m)'
  BY <1>0, <1>6 DEF Sync!Stop, Sync!Result
<1>7. CASE Sync!Sweep
  <2>1. \A m \in Syncs : syncStatus'[m] = IF syncStatus[m] \in Sync!Live THEN "failed" ELSE syncStatus[m]
    BY <1>7 DEF Sync!Sweep, Sync!Jobs, Syncs
  <2> QED  BY <1>0, <1>7, <2>1 DEF Sync!Sweep, Sync!Live, Sync!Result
<1>8. CASE Sync!Restart
  BY <1>8 DEF Sync!Restart
<1> QED  BY <1>1, <1>2, <1>3, <1>4, <1>5, <1>6, <1>7, <1>8, SyncMoves
-----------------------------------------------------------------------------
(* The worker's way through a job. *)

Ways == {"begin", "root", "seed", "ask", "note", "mark", "trace", "again", "finish", "reread", "merge", "close"}
Exits == {"release", "fail", "failsave"}

\* From place to place, nothing is lost.
Onward ==
    /\ worker.pc \in Ways \ {"merge", "close"} /\ worker'.pc \in Ways \ {"merge", "close"}
    /\ worker'.ids = worker.ids
    /\ IsRoot(Job) /\ worker.partial => worker'.partial

Waits ==
    /\ worker.pc = "note" /\ worker'.pc = "wait"
    /\ worker'.ids = worker.ids \cup {worker.wait} /\ worker'.wait = worker.wait
    /\ worker'.partial = worker.partial

Waited ==
    /\ worker.pc = "wait" /\ worker'.pc \in {"mark", "trace"} /\ worker'.ids = worker.ids
    /\ syncStatus[worker.wait] \in Sync!Result /\ UNCHANGED <<syncStatus, syncOpen>>
    /\ IsRoot(Job) /\ (worker.partial \/ syncStatus[worker.wait] = "partial") => worker'.partial

Rereads ==
    /\ worker.pc = "reread" /\ worker'.pc = "merge" /\ UNCHANGED docVars
    /\ worker'.base = [status |-> status[root[Job]], syncs |-> syncs[root[Job]], result |-> result[root[Job]]]

Merges ==
    /\ worker.pc = "merge" /\ worker'.pc = "close" /\ worker'.partial = worker.partial
    /\ Save(root[Job], IF worker.partial THEN "partial" ELSE worker.base.status,
            worker.base.syncs, worker.base.result \cup {Job})

Begins ==
    /\ worker.pc = "load" /\ worker'.pc \in {"begin", "root"}
    /\ worker'.ids = syncs[Job] /\ UNCHANGED docVars

LEMMA GotoMoves ==
    ASSUME TypeOK, NEW p \in (Ways \ {"merge", "close"}) \cup Exits, Goto(p),
           worker.pc \in Ways \ {"merge", "close"} \/ p \in Exits
    PROVE  worker'.job = worker.job /\ (worker'.pc \in Exits \/ Onward)
<1>1. Places \ {"idle"} = Ways \cup Exits \cup {"load", "wait"}
  BY DEF Places, Ways, Exits
<1>2. worker'.pc = p /\ worker'.job = worker.job
  BY <1>1, GotoKeeps
<1>3. CASE p \in Exits
  BY <1>2, <1>3
<1>4. CASE p \notin Exits
  <2>1. worker'.ids = worker.ids /\ worker'.partial = worker.partial
    BY <1>1, <1>4, GotoKeeps DEF Exits
  <2> QED  BY <1>2, <1>4, <2>1 DEF Onward
<1> QED  BY <1>3, <1>4

LEMMA WorkerMoves ==
    ASSUME TypeOK, Placed, WorkerStep \/ TraverseFails, ~Receive, ~Leaves
    PROVE  /\ worker'.job = worker.job
           /\ worker'.pc \in Exits \/ Onward \/ Waits \/ Waited \/ Rereads \/ Merges \/ Begins
<1> DEFINE Moves == /\ worker'.job = worker.job
                    /\ worker'.pc \in Exits \/ Onward \/ Waits \/ Waited \/ Rereads \/ Merges \/ Begins
<1>0. worker \in Workers
  BY Hands
<1>1. ASSUME NEW p \in (Ways \ {"merge", "close"}) \cup Exits, Goto(p),
             worker.pc \in Ways \ {"merge", "close"} \/ p \in Exits
      PROVE  Moves
  BY <1>1, GotoMoves
<1>2. ASSUME NEW place \in Ways, NEW st \in TraceStates, NEW p \in (Ways \ {"merge", "close"}) \cup Exits,
             SaveStep(place, st, p), place \notin {"merge", "close"} \/ p \in Exits
      PROVE  Moves
  <2>1. Goto(p) \/ Goto("fail")
    BY <1>2 DEF SaveStep
  <2>2. worker.pc = place
    BY <1>2 DEF SaveStep
  <2> QED  BY <1>1, <1>2, <2>1, <2>2 DEF Exits
<1>3. {"waiting_sync", "running", "partial", "succeeded", "failed"} \subseteq TraceStates
  BY DEF TraceStates, Live, Ended, Result
<1>4. CASE ReadRoot
  BY <1>1, <1>4 DEF ReadRoot, Ways, Exits
<1>5. CASE Begin \/ Mark \/ Again \/ Finish \/ Close
  BY <1>2, <1>3, <1>5 DEF Begin, Mark, Again, Finish, Close, Outcome, Ways, Exits
<1>6. CASE ReadSeed
  <2>1. CASE worker' = [worker EXCEPT !.pc = "mark", !.partial = TRUE] /\ worker.pc = "seed"
    BY <1>0, <2>1 DEF Workers, Onward, Ways
  <2> QED  BY <1>1, <1>6, <2>1 DEF ReadSeed, Ways, Exits
<1>7. CASE Ask
  <2>1. ASSUME NEW k, worker' = [worker EXCEPT !.pc = "note", !.wait = k], worker.pc = "ask" PROVE Moves
    BY <1>0, <2>1 DEF Workers, Onward, Ways
  <2> QED  BY <1>1, <1>7, <2>1 DEF Ask, Exits
<1>8. CASE Note
  <2> DEFINE ids == worker.ids \cup {worker.wait}
  <2>1. CASE worker' = [worker EXCEPT !.pc = "wait", !.ids = ids]
    BY <1>0, <1>8, <2>1 DEF Note, Workers, Waits
  <2>2. CASE worker' = [Working("fail", Job) EXCEPT !.ids = ids, !.out = worker.out]
    <3>1. Working("fail", Job) \in Workers /\ Working("fail", Job).pc = "fail" /\ Working("fail", Job).job = Job
      BY <1>0, WorkingType, Hands DEF Places
    <3> HIDE DEF ids
    <3> QED  BY <2>2, <3>1 DEF Workers, Exits, Job
  <2> QED  BY <1>8, <2>1, <2>2 DEF Note
<1>9. CASE Poll
  <2>1. ASSUME SyncEnds(syncStatus[worker.wait]), syncStatus[worker.wait] \in Sync!Result PROVE Moves
    <3>1. worker.pc = "wait" /\ UNCHANGED <<syncStatus, syncOpen>>
      BY <1>9 DEF Poll, Silent, Writing, syncVars
    <3>2. /\ worker'.pc \in {"mark", "trace"} /\ worker'.ids = worker.ids /\ worker'.job = worker.job
          /\ worker'.partial = (worker.partial \/ (IsRoot(Job) /\ syncStatus[worker.wait] = "partial"))
      BY <1>0, <2>1 DEF SyncEnds, Workers
    <3> QED  BY <2>1, <3>1, <3>2 DEF Waited
  <2> QED  BY <1>1, <1>9, <2>1 DEF Poll, Exits
<1>10. CASE Traverse \/ TraverseFails
  <2>1. ASSUME NEW d, Miss(d), worker.pc = "trace" PROVE Moves
    <3>1. /\ worker'.pc \in {"trace", "again"} /\ worker'.job = worker.job /\ worker'.ids = worker.ids
          /\ worker.partial => worker'.partial
      BY <1>0, <2>1 DEF Miss, Workers
    <3> QED  BY <2>1, <3>1 DEF Onward, Ways
  <2>2. CASE worker' = [worker EXCEPT !.pc = "finish", !.out = {Job}] /\ worker.pc = "trace"
    BY <1>0, <2>2 DEF Workers, Onward, Ways
  <2>3. ASSUME NEW q, worker' = [worker EXCEPT !.pc = "reread", !.partial = q], ~IsRoot(Job), worker.pc = "trace"
        PROVE  Moves
    BY <1>0, <2>3 DEF Workers, Onward, Ways
  <2> QED  BY <1>1, <1>10, <2>1, <2>2, <2>3 DEF Traverse, TraverseFails, Exits
<1>11. CASE Reread
  <2>1. CASE Serves
    <3> DEFINE copy == [status |-> status[root[Job]], syncs |-> syncs[root[Job]], result |-> result[root[Job]]]
    <3>1. worker' = [worker EXCEPT !.pc = "merge", !.base = copy]
      BY <1>11, <2>1 DEF Reread
    <3> HIDE DEF copy
    <3>2. worker'.pc = "merge" /\ worker'.base = copy /\ worker'.job = worker.job
      BY <1>0, <3>1 DEF Workers
    <3> QED  BY <1>11, <3>2 DEF Rereads, Reread, Silent, copy
  <2> QED  BY <1>1, <1>11, <2>1 DEF Reread, Exits
<1>12. CASE Merge
  <2>1. CASE Serves
    <3>1. worker' = [worker EXCEPT !.pc = "close", !.out = {Job}, !.base = NoRoot]
      BY <1>12, <2>1 DEF Merge
    <3>2. worker'.pc = "close" /\ worker'.partial = worker.partial /\ worker'.job = worker.job
      BY <1>0, <3>1 DEF Workers
    <3> QED  BY <1>12, <2>1, <3>2 DEF Merges, Merge
  <2> QED  BY <1>1, <1>12, <2>1 DEF Merge, Exits
<1>13. CASE Fail \/ FailSave
  BY <1>1, <1>13 DEF Fail, FailSave, Exits
<1>14. CASE Load
  <2>1. CASE reachable /\ status[Job] # "stopped"
    <3>1. /\ worker'.pc = (IF IsRoot(Job) THEN "begin" ELSE "root") /\ worker'.ids = syncs[Job]
          /\ worker'.job = worker.job
      BY <1>0, <1>14, <2>1 DEF Load, Workers
    <3> QED  BY <1>14, <3>1 DEF Begins, Load
  <2>2. CASE ~(reachable /\ status[Job] # "stopped")
    BY <1>14, <2>2 DEF Load, Leaves, callVars, Placed
  <2> QED  BY <2>1, <2>2
<1>15. CASE Release
  BY <1>15 DEF Release, Leaves, callVars, Placed
<1> QED  BY <1>4, <1>5, <1>6, <1>7, <1>8, <1>9, <1>10, <1>11, <1>12, <1>13, <1>14, <1>15 DEF WorkerStep
-----------------------------------------------------------------------------
(* What a step makes of the documents. *)

\* The worker's saves: an outcome comes last, with the sync jobs of the whole way.
OwnSave ==
    /\ Job \in Traces /\ worker.pc \notin {"idle", "load", "release"}
    /\ worker'.pc # "merge" /\ worker'.pc # "close"
    /\ \E st, ids, out :
          /\ Save(Job, st, ids, out)
          /\ st \in Result => ids = worker.ids /\ st = Outcome /\ worker.pc \in {"finish", "close"}

LEMMA WorkerSaves ==
    ASSUME TypeOK, Placed, WorkerStep \/ TraverseFails
    PROVE  UNCHANGED docVars \/ OwnSave \/ Merges
<1>0. worker \in Workers /\ (worker.pc # "idle" => Job \in Traces)
  BY Hands DEF Placed
<1>1. ASSUME NEW place \in Ways, NEW st, NEW p \in Ways \cup Exits,
             SaveStep(place, st, p), p \notin {"merge", "close"}, ~UNCHANGED docVars,
             st \in Result => st = Outcome /\ place \in {"finish", "close"}
      PROVE  OwnSave
  <2>1. worker.pc = place /\ Save(Job, st, worker.ids, worker.out) /\ Goto(p)
    BY <1>1 DEF SaveStep
  <2>2. worker'.pc = p
    BY <2>1, GotoKeeps DEF Places, Ways, Exits
  <2> QED  BY <1>0, <1>1, <2>1, <2>2 DEF OwnSave, Ways
<1>2. CASE ReadRoot \/ ReadSeed \/ Poll \/ Traverse \/ TraverseFails \/ Reread \/ Fail \/ Receive \/ Load \/ Ask \/ Release
  BY <1>2 DEF ReadRoot, ReadSeed, Poll, Traverse, TraverseFails, Reread, Fail, Receive, Load, Ask, Release, Silent
<1>3. CASE Begin \/ Mark \/ Again \/ Finish \/ Close
  BY <1>1, <1>3 DEF Begin, Mark, Again, Finish, Close, Ways, Exits, Result
<1>4. CASE Note /\ ~UNCHANGED docVars
  <2>1. /\ worker.pc = "note" /\ worker' = [worker EXCEPT !.pc = "wait", !.ids = worker.ids \cup {worker.wait}]
        /\ Save(Job, "waiting_sync", worker.ids \cup {worker.wait}, worker.out)
    BY <1>4 DEF Note
  <2>2. worker'.pc = "wait" /\ "waiting_sync" \notin Result
    BY <1>0, <2>1 DEF Workers, Result
  <2> QED  BY <1>0, <2>1, <2>2 DEF OwnSave
<1>5. CASE FailSave /\ ~UNCHANGED docVars
  <2>1. worker.pc = "failsave" /\ Goto("release") /\ Save(Job, "failed", worker.ids, worker.out)
    BY <1>5 DEF FailSave
  <2>2. worker'.pc = "release" /\ "failed" \notin Result
    BY <2>1, GotoKeeps DEF Places, Result
  <2> QED  BY <1>0, <2>1, <2>2 DEF OwnSave
<1>6. CASE Merge /\ ~UNCHANGED docVars
  <2>1. worker' = [worker EXCEPT !.pc = "close", !.out = {Job}, !.base = NoRoot]
    BY <1>6 DEF Merge
  <2>2. worker'.pc = "close" /\ worker'.partial = worker.partial
    BY <1>0, <2>1 DEF Workers
  <2> QED  BY <1>6, <2>2 DEF Merges, Merge
<1> QED  BY <1>2, <1>3, <1>4, <1>5, <1>6 DEF WorkerStep

\* Everybody else creates, stops, or fails what was interrupted; and no document that
\* there was comes to have a result, or loses one, but by a stop.
Elsewhere ==
    /\ worker' = worker
    /\ created' = created \/ (created' = created + 1 /\ created' \in Traces)
    /\ created' # created => status'[created'] = "queued" /\ syncs'[created'] = {}
    /\ \A i \in 1 .. created :
          /\ root'[i] = root[i]
          /\ \/ status'[i] = status[i] /\ syncs'[i] = syncs[i] /\ result'[i] = result[i]
             \/ status[i] \in Live /\ status'[i] = "failed" /\ syncs'[i] = syncs[i] /\ result'[i] = result[i]
             \/ /\ status'[i] = "stopped" /\ result'[i] = {}
                /\ \E s \in Stoppers : stopper[s].pc = "save" /\ stopper[s].job = i /\ syncs'[i] = stopper[s].ids

LEMMA StepElsewhere ==
    ASSUME TypeOK, Placed, Fresh, [Next]_vars
    PROVE  \/ WorkerStep \/ TraverseFails
           \/ Crash /\ worker' = Resting /\ UNCHANGED <<docVars, newVars>>
           \/ Elsewhere
<1>0. 1 .. created \subseteq Traces /\ created \in Nat
  BY Shapes, ConstantsAssumption DEF TypeOK, Traces
<1>1. ASSUME NEW e \in Enqueuers, NEW a, NEW v, NEW r, Create(e, a, v, r)
      PROVE  Elsewhere
  BY <1>0, <1>1, CreateEffect DEF Elsewhere, Fresh
<1>2. ASSUME worker' = worker, UNCHANGED <<docVars, newVars>>
      PROVE  Elsewhere
  BY <1>2 DEF Elsewhere, docVars, newVars
<1>3. ASSUME NEW e \in Enqueuers, SendStep(e) PROVE Elsewhere
  BY <1>2, <1>3, SendEffect
<1>4. ASSUME NEW s \in Stoppers, (\E i \in 1 .. created : StopRead(s, i)) \/ StopStep(s)
      PROVE  Elsewhere
  <2>1. UNCHANGED <<newVars, worker>>
    BY <1>4, StopKeeps
  <2>2. CASE stopper[s].pc = "save" /\ stopper[s].job \in Traces /\ Save(stopper[s].job, "stopped", stopper[s].ids, {})
    BY <1>0, <2>1, <2>2, SaveEffect DEF Elsewhere, newVars
  <2> QED  BY <1>2, <1>4, <2>1, <2>2, StopKeeps
<1>5. CASE Recover
  <2>1. \A i \in Traces : status'[i] = status[i] \/ (status[i] \in Live /\ status'[i] = "failed")
    BY <1>5 DEF Recover
  <2> QED  BY <1>0, <1>5, <2>1 DEF Recover, Elsewhere, newVars
<1>6. CASE SyncStep \/ Outage \/ UNCHANGED vars
  BY <1>2, <1>6 DEF SyncStep, SyncEnqueue, SyncRun, SyncFinish, SyncLetsGo, Others, Outage, vars
<1>7. CASE Crash
  BY <1>7 DEF Crash
<1>8. CASE \E e \in Enqueuers : \E a, v, r : Create(e, a, v, r)
  BY <1>1, <1>8
<1> QED  BY <1>3, <1>4, <1>5, <1>6, <1>7, <1>8, Creators DEF Next
-----------------------------------------------------------------------------
(* Extensions and the results of their roots. *)

\* The root of an extension is a root, and there.
LEMMA RootOf ==
    ASSUME TypeOK, Fresh, NEW i \in 1 .. created, ~IsRoot(i)
    PROVE  /\ i \in Traces /\ root[i] \in 1 .. created /\ root[i] \in Traces
           /\ IsRoot(root[i]) /\ root[i] # i
<1>1. i \in Traces
  BY ConstantsAssumption DEF TypeOK, Traces
<1>2. root[i] \in Traces
  BY <1>1, Indices DEF IsRoot, TypeOK
<1>3. root[i] <= created /\ IsRoot(root[i])
  BY <1>1 DEF Fresh, IsRoot
<1>4. root[i] \in 1 .. created
  BY <1>2, <1>3, Shapes DEF Traces
<1>5. root[i] # i
  BY <1>3
<1> QED  BY <1>1, <1>2, <1>3, <1>4, <1>5

\* A job that is in process has no result and no extension, and neither has its root
\* another job in process.
LEMMA InProcess ==
    ASSUME TypeOK, Placed, Fresh, Done, worker.pc \notin {"idle", "release"}
    PROVE  /\ Job \in 1 .. created /\ Job \in Traces /\ status[Job] \notin Result /\ ~Extended(Job)
           /\ ~IsRoot(Job) => root[Job] \in 1 .. created /\ root[Job] \in Traces /\ IsRoot(root[Job])
<1>1. Job \in Traces /\ Job \in 1 .. created
  BY Shapes DEF Placed, Fresh, Traces
<1>2. InHand(Job)
  BY DEF InHand
<1>3. ~IsRoot(Job) => root[Job] \in Traces
  BY <1>1, Indices DEF IsRoot, TypeOK
<1>4. ~IsRoot(Job) => root[Job] <= created /\ IsRoot(root[Job])
  BY <1>1 DEF Fresh, IsRoot
<1>5. ~IsRoot(Job) => root[Job] \in 1 .. created
  BY <1>3, <1>4, Shapes DEF Traces
<1> QED  BY <1>1, <1>2, <1>3, <1>4, <1>5 DEF Done, Past

\* Whatever it does to its job, the worker creates nothing.
LEMMA WorkerCreates ==
    ASSUME WorkerStep \/ TraverseFails
    PROVE  UNCHANGED newVars
<1>1. CASE ReadRoot \/ ReadSeed \/ Poll \/ Traverse \/ TraverseFails \/ Reread \/ Fail \/ Receive \/ Load \/ Ask \/ Release
  BY <1>1 DEF ReadRoot, ReadSeed, Poll, Traverse, TraverseFails, Reread, Fail, Receive, Load, Ask, Release, Silent,
     Writing
<1>2. CASE Begin \/ Mark \/ Again \/ Finish \/ Close \/ Note \/ Merge \/ FailSave
  BY <1>2 DEF Begin, Mark, Again, Finish, Close, SaveStep, Note, Merge, FailSave, Writing
<1> QED  BY <1>1, <1>2 DEF WorkerStep

\* The worker comes to the merge by reading the root, and to its close by the merge.
LEMMA WorkerArrives ==
    ASSUME TypeOK, Placed, WorkerStep \/ TraverseFails
    PROVE  /\ worker'.pc = "merge" => Rereads /\ worker'.job = worker.job
           /\ worker'.pc = "close" => Merges /\ worker'.job = worker.job
<1>1. CASE Receive
  BY <1>1, ReceiveEffect
<1>2. CASE Leaves
  BY <1>2, Hands DEF Leaves
<1>3. CASE ~Receive /\ ~Leaves
  BY <1>3, WorkerMoves DEF Exits, Onward, Waits, Waited, Rereads, Merges, Begins
<1> QED  BY <1>1, <1>2, <1>3

LEMMA StepBased ==
    ASSUME TypeOK, Placed, Fresh, Based, ExtensionsMerged, [Next]_vars
    PROVE  Based'
<1>0. 1 .. created \subseteq Traces /\ created \in Nat
  BY Shapes, ConstantsAssumption DEF TypeOK, Traces
<1>1. CASE WorkerStep \/ TraverseFails
  <2> SUFFICES ASSUME worker'.pc = "merge" PROVE Based'
    BY DEF Based
  <2>1. Rereads /\ worker'.job = worker.job /\ UNCHANGED newVars
    BY <1>1, WorkerArrives, WorkerCreates
  <2> DEFINE r == root[Job]
  <2>2. /\ worker'.base.status = status[r] /\ worker'.base.result = result[r] /\ UNCHANGED docVars
        /\ root'[Job'] = r
    BY <2>1 DEF Rereads, Job, newVars
  <2>3. \A e \in 1 .. created :
           root[e] = r /\ status[e] \in Result /\ r \in result[r] =>
              e \in result[r] /\ (status[e] = "partial" => status[r] # "succeeded")
    <3>1. r # NoTrace
      BY <2>1 DEF Rereads, Placed, IsRoot
    <3> QED  BY <3>1 DEF ExtensionsMerged
  <2> QED  BY <2>1, <2>2, <2>3 DEF Based, docVars, newVars
<1>2. CASE Crash /\ worker' = Resting
  BY <1>2, Hands DEF Based
<1>3. CASE Elsewhere
  <2> SUFFICES ASSUME worker.pc = "merge" PROVE Based'
    BY <1>3 DEF Elsewhere, Based
  <2> DEFINE r == root[Job]
  <2>1. Job \in Traces /\ Job \in 1 .. created /\ ~IsRoot(Job)
    BY Shapes DEF Placed, Fresh, Traces
  <2>2. r \in 1 .. created
    BY <2>1, RootOf
  <2>3. worker' = worker /\ root'[Job'] = r
    BY <1>3, <2>1 DEF Elsewhere, Job
  <2>4. \A i \in 1 .. created : status'[i] \in Result => status[i] = status'[i] /\ result[i] = result'[i]
    BY <1>3 DEF Elsewhere, Result
  <2>5. ASSUME NEW e \in 1 .. created', root'[e] = r, status'[e] \in Result, r \in worker.base.result
        PROVE  e \in worker.base.result /\ (status'[e] = "partial" => worker.base.status # "succeeded")
    <3>1. e \in 1 .. created
      BY <1>0, <1>3, <2>5 DEF Elsewhere, Result
    <3> QED  BY <1>3, <2>4, <2>5, <3>1 DEF Based, Elsewhere
  <2>6. status'[r] \in Result => worker.base.status = status'[r] /\ worker.base.result = result'[r]
    BY <2>2, <2>4 DEF Based
  <2> HIDE DEF r
  <2> QED  BY <2>3, <2>5, <2>6 DEF Based
<1> QED  BY <1>1, <1>2, <1>3, StepElsewhere

LEMMA MergeEffect ==
    ASSUME TypeOK, Placed, Fresh, Merges
    PROVE  LET r == root[Job] IN
           /\ r \in 1 .. created /\ r \in Traces /\ Job \in 1 .. created /\ Job # r
           /\ status'[r] = IF worker.partial THEN "partial" ELSE worker.base.status
           /\ syncs'[r] = worker.base.syncs /\ result'[r] = worker.base.result \cup {Job}
           /\ \A j \in Traces \ {r} : status'[j] = status[j] /\ syncs'[j] = syncs[j] /\ result'[j] = result[j]
<1>1. worker.pc = "merge" /\ Job \in Traces /\ Job \in 1 .. created /\ ~IsRoot(Job)
  BY Shapes DEF Merges, Placed, Fresh, Traces
<1>2. root[Job] \in 1 .. created /\ root[Job] \in Traces /\ root[Job] # Job
  BY <1>1, RootOf
<1> QED  BY <1>1, <1>2, SaveEffect DEF Merges

LEMMA StepMerged ==
    ASSUME TypeOK, Placed, Fresh, Merged, [Next]_vars
    PROVE  Merged'
<1>1. CASE WorkerStep \/ TraverseFails
  <2> SUFFICES ASSUME worker'.pc = "close" PROVE Merged'
    BY DEF Merged
  <2>1. Merges /\ worker'.job = worker.job /\ UNCHANGED newVars
    BY <1>1, WorkerArrives, WorkerCreates
  <2>2. root'[Job'] = root[Job] /\ Job' = Job /\ worker'.partial = worker.partial
    BY <2>1 DEF Merges, Job, newVars
  <2> QED  BY <2>1, <2>2, MergeEffect DEF Merged
<1>2. CASE Crash /\ worker' = Resting
  BY <1>2, Hands DEF Merged
<1>3. CASE Elsewhere
  <2> SUFFICES ASSUME worker.pc = "close" PROVE Merged'
    BY <1>3 DEF Elsewhere, Merged
  <2> DEFINE r == root[Job]
  <2>1. Job \in Traces /\ Job \in 1 .. created /\ ~IsRoot(Job)
    BY Shapes DEF Placed, Fresh, Traces
  <2>2. r \in 1 .. created
    BY <2>1, RootOf
  <2>3. worker' = worker /\ root'[Job'] = r /\ Job' = Job
    BY <1>3, <2>1 DEF Elsewhere, Job
  <2>4. r \in result'[r] => result'[r] = result[r] /\ (status'[r] = "succeeded" => status[r] = "succeeded")
    BY <1>3, <2>2 DEF Elsewhere
  <2> HIDE DEF r
  <2> QED  BY <2>3, <2>4 DEF Merged, r
<1> QED  BY <1>1, <1>2, <1>3, StepElsewhere

\* An extension's outcome follows its merge, and a later merge keeps what it found.
LEMMA StepExtensionsMerged ==
    ASSUME TypeOK, Placed, Fresh, Done, Based, Merged, ExtensionsMerged, [Next]_vars
    PROVE  ExtensionsMerged'
<1>0. /\ 1 .. created \subseteq Traces /\ created \in Nat
      /\ \A e \in 1 .. created : root[e] # NoTrace =>
            root[e] \in 1 .. created /\ IsRoot(root[e]) /\ e # root[e]
  <2>1. 1 .. created \subseteq Traces /\ created \in Nat
    BY Shapes, ConstantsAssumption DEF TypeOK, Traces
  <2> QED  BY <2>1, RootOf DEF IsRoot
<1>1. CASE UNCHANGED <<docVars, newVars>>
  BY <1>1 DEF ExtensionsMerged, docVars, newVars
<1>2. CASE (WorkerStep \/ TraverseFails) /\ OwnSave
  <2>1. UNCHANGED newVars
    BY <1>2, WorkerCreates
  <2>2. Job \in 1 .. created /\ Job \in Traces /\ ~Extended(Job)
    BY <1>2, InProcess DEF OwnSave
  <2>3. /\ \A j \in Traces \ {Job} : status'[j] = status[j] /\ result'[j] = result[j]
        /\ status'[Job] \in Result => status'[Job] = Outcome /\ worker.pc \in {"finish", "close"}
    BY <1>2, SaveEffect DEF OwnSave
  <2>4. ASSUME NEW e \in 1 .. created, root[e] # NoTrace, status'[e] \in Result, root[e] \in result'[root[e]]
        PROVE  e \in result'[root[e]] /\ (status'[e] = "partial" => status'[root[e]] # "succeeded")
    <3>1. root[e] # Job /\ root[e] \in Traces /\ e \in Traces
      BY <1>0, <2>2, <2>4 DEF Extended
    <3>2. CASE e # Job
      BY <2>3, <2>4, <3>1, <3>2 DEF ExtensionsMerged
    <3>3. CASE e = Job
      <4>1. worker.pc = "close" /\ status'[e] = Outcome
        BY <2>3, <2>4, <3>3 DEF Placed, IsRoot
      <4> QED  BY <2>3, <2>4, <3>1, <3>3, <4>1 DEF Merged, Outcome
    <3> QED  BY <3>2, <3>3
  <2> QED  BY <2>1, <2>4 DEF ExtensionsMerged, newVars
<1>3. CASE (WorkerStep \/ TraverseFails) /\ Merges
  <2> DEFINE r == root[Job]
  <2>1. UNCHANGED newVars /\ worker.pc = "merge"
    BY <1>3, WorkerCreates DEF Merges
  <2>2. /\ r \in 1 .. created /\ r \in Traces /\ Job \in 1 .. created /\ Job # r
        /\ status'[r] \in {"partial", worker.base.status}
        /\ result'[r] = worker.base.result \cup {Job}
        /\ \A j \in Traces \ {r} : status'[j] = status[j] /\ result'[j] = result[j]
    BY <1>3, MergeEffect
  <2>3. ASSUME NEW e \in 1 .. created, root[e] # NoTrace, status'[e] \in Result, root[e] \in result'[root[e]]
        PROVE  e \in result'[root[e]] /\ (status'[e] = "partial" => status'[root[e]] # "succeeded")
    <3>1. e # r /\ status'[e] = status[e] /\ e \in Traces /\ root[e] \in Traces
      <4>1. r # NoTrace /\ IsRoot(r)
        BY <1>0, <2>1, <2>2 DEF Placed, IsRoot
      <4> QED  BY <1>0, <2>2, <2>3, <4>1 DEF IsRoot
    <3>2. CASE root[e] = r
      BY <2>1, <2>2, <2>3, <3>1, <3>2 DEF Based
    <3>3. CASE root[e] # r
      BY <2>2, <2>3, <3>1, <3>3 DEF ExtensionsMerged
    <3> QED  BY <3>2, <3>3
  <2> QED  BY <2>1, <2>3 DEF ExtensionsMerged, newVars
<1>4. CASE Elsewhere
  <2>1. ASSUME NEW e \in 1 .. created', root'[e] # NoTrace, status'[e] \in Result, root'[e] \in result'[root'[e]]
        PROVE  e \in result'[root'[e]] /\ (status'[e] = "partial" => status'[root'[e]] # "succeeded")
    <3>1. e \in 1 .. created
      BY <1>0, <1>4, <2>1 DEF Elsewhere, Result
    <3>2. root'[e] = root[e] /\ status'[e] = status[e] /\ root[e] \in 1 .. created
      BY <1>0, <1>4, <2>1, <3>1 DEF Elsewhere, Result
    <3>3. result'[root[e]] = result[root[e]] /\ (status'[root[e]] = "succeeded" => status[root[e]] = "succeeded")
      BY <1>4, <2>1, <3>2 DEF Elsewhere
    <3> QED  BY <2>1, <3>1, <3>2, <3>3 DEF ExtensionsMerged
  <2> QED  BY <2>1 DEF ExtensionsMerged
<1>5. CASE (WorkerStep \/ TraverseFails) /\ UNCHANGED docVars
  BY <1>1, <1>5, WorkerCreates
<1> QED  BY <1>1, <1>2, <1>3, <1>4, <1>5, StepElsewhere, WorkerSaves
-----------------------------------------------------------------------------
(* Outcomes and the sync jobs they rest on. *)

\* A trace comes to hand when it is created, and unprocessed it has been all along.
LEMMA UnprocessedBefore ==
    ASSUME TypeOK, Placed, Fresh, OneHolder, [Next]_vars, NEW i \in 1 .. created, Unprocessed(i)'
    PROVE  Unprocessed(i)
<1>0. i \in Traces /\ NoTrace \notin Traces
  BY ConstantsAssumption, Indices DEF TypeOK, Traces
<1>1. ASSUME NEW e \in Enqueuers, NEW a, NEW v, NEW r, Create(e, a, v, r) PROVE Unprocessed(i)
  <2>1. i # created' /\ worker' = worker
    BY <1>1, CreateEffect
  <2> QED  BY <1>0, <1>1, <2>1, HandsAfterCreate DEF Unprocessed, Job
<1>2. ASSUME NEW e \in Enqueuers, SendStep(e) PROVE Unprocessed(i)
  BY <1>0, <1>2, SendEffect, HandsAfterSend DEF Unprocessed, Job
<1>3. CASE Receive
  BY <1>0, <1>3, ReceiveEffect, HandsAfterReceive DEF Unprocessed, Job
<1>4. CASE Leaves
  BY <1>0, <1>4, HandsAfterLeaves DEF Unprocessed
<1>5. CASE Crash
  BY <1>0, <1>5, HandsAfterCrash DEF Unprocessed
<1>6. CASE Kept
  BY <1>6 DEF Kept, Unprocessed, InHand, Job
<1>7. CASE \E e \in Enqueuers : \E a, v, r : Create(e, a, v, r)
  BY <1>1, <1>7
<1> QED  BY <1>2, <1>3, <1>4, <1>5, <1>6, <1>7, StepKinds, Creators

\* Stops past their read keep what they read, or have it from the document.
LEMMA StopCopies ==
    ASSUME TypeOK, Placed, Fresh, [Next]_vars, NEW s \in Stoppers, stopper'[s].pc = "save"
    PROVE  \/ stopper'[s] = stopper[s]
           \/ /\ stopper'[s].job \in 1 .. created /\ stopper'[s].ids = syncs[stopper'[s].job]
              /\ UNCHANGED docVars
<1>1. ASSUME NEW t \in Stoppers, (\E i \in 1 .. created : StopRead(t, i)) \/ StopStep(t)
      PROVE  \/ stopper'[s] = stopper[s]
             \/ /\ stopper'[s].job \in 1 .. created /\ stopper'[s].ids = syncs[stopper'[s].job]
                /\ UNCHANGED docVars
  <2>1. CASE StopStep(t)
    <3>1. NotStopping.pc # "save"
      BY DEF NotStopping
    <3> QED  BY <2>1, <3>1, StopMoves
  <2>2. ASSUME NEW i \in 1 .. created, StopRead(t, i)
        PROVE  \/ stopper'[s] = stopper[s]
               \/ /\ stopper'[s].job \in 1 .. created /\ stopper'[s].ids = syncs[stopper'[s].job]
                  /\ UNCHANGED docVars
    BY <2>2, StopReads
  <2> QED  BY <1>1, <2>1, <2>2
<1>2. ASSUME NEW e \in Enqueuers, SendStep(e) PROVE stopper' = stopper
  BY <1>2, SendEffect
<1>3. ASSUME NEW e \in Enqueuers, NEW a, NEW v, NEW r, Create(e, a, v, r) PROVE stopper' = stopper
  BY <1>3, CreateEffect
<1>4. CASE Crash
  BY <1>4 DEF Crash, NotStopping
<1>5. ASSUME WorkerStep \/ TraverseFails PROVE stopper' = stopper
  <2>1. CASE ReadRoot \/ ReadSeed \/ Poll \/ Traverse \/ TraverseFails \/ Reread \/ Fail \/ Receive \/ Load \/ Ask \/ Release
    BY <2>1 DEF ReadRoot, ReadSeed, Poll, Traverse, TraverseFails, Reread, Fail, Receive, Load, Ask, Release, Silent,
       Writing, callVars
  <2>2. CASE Begin \/ Mark \/ Again \/ Finish \/ Close \/ Note \/ Merge \/ FailSave
    BY <2>2 DEF Begin, Mark, Again, Finish, Close, SaveStep, Note, Merge, FailSave, Writing, callVars
  <2> QED  BY <1>5, <2>1, <2>2 DEF WorkerStep
<1>6. ASSUME Recover \/ SyncStep \/ Outage \/ UNCHANGED vars PROVE stopper' = stopper
  BY <1>6 DEF Recover, SyncStep, SyncEnqueue, SyncRun, SyncFinish, SyncLetsGo, Others, Outage, vars, callVars
<1>7. ASSUME \E e \in Enqueuers : \E a, v, r : Create(e, a, v, r) PROVE stopper' = stopper
  BY <1>3, <1>7
<1> QED  BY <1>1, <1>2, <1>4, <1>5, <1>6, <1>7, Creators DEF Next

\* The documents of unprocessed traces have no sync jobs, whoever writes.
LEMMA StepUnprocessed ==
    ASSUME TypeOK, Placed, Fresh, OneHolder, Done, Synced, [Next]_vars
    PROVE  \A i \in 1 .. created' : Unprocessed(i)' =>
              /\ syncs'[i] = {}
              /\ \A s \in Stoppers : stopper'[s].pc = "save" /\ stopper'[s].job = i => stopper'[s].ids = {}
<1>0. 1 .. created \subseteq Traces /\ created \in Nat
  BY Shapes, ConstantsAssumption DEF TypeOK, Traces
<1>1. ASSUME NEW i \in 1 .. created, Unprocessed(i)'
      PROVE  syncs'[i] = {}
  <2>1. /\ Unprocessed(i) /\ syncs[i] = {} /\ i \in Traces
        /\ \A s \in Stoppers : stopper[s].pc = "save" /\ stopper[s].job = i => stopper[s].ids = {}
    BY <1>0, <1>1, UnprocessedBefore DEF Synced
  <2>2. CASE UNCHANGED docVars
    BY <2>1, <2>2 DEF docVars
  <2>3. CASE OwnSave
    <3>1. i # Job
      BY <2>1, <2>3 DEF OwnSave, Unprocessed
    <3> QED  BY <2>1, <2>3, <3>1, SaveEffect DEF OwnSave
  <2>4. CASE Merges
    <3>1. root[Job] # i
      <4>1. worker.pc = "merge" /\ Extended(root[Job])
        BY <2>4 DEF Merges, Placed, Extended
      <4> QED  BY <2>1, <4>1 DEF Done, Past, Unprocessed
    <3> QED  BY <2>1, <2>4, <3>1, MergeEffect
  <2>5. CASE Elsewhere
    BY <2>1, <2>5 DEF Elsewhere
  <2> QED  BY <2>2, <2>3, <2>4, <2>5, StepElsewhere, WorkerSaves
<1>2. ASSUME NEW i \in 1 .. created, Unprocessed(i)', NEW s \in Stoppers,
             stopper'[s].pc = "save", stopper'[s].job = i
      PROVE  stopper'[s].ids = {}
  <2>1. Unprocessed(i)
    BY <1>2, UnprocessedBefore
  <2> QED  BY <1>2, <2>1, StopCopies DEF Synced
<1>3. ASSUME created' # created, NEW i \in 1 .. created', i \notin 1 .. created
      PROVE  /\ syncs'[i] = {}
             /\ \A s \in Stoppers : stopper'[s].pc = "save" => stopper'[s].job # i
  <2>1. Elsewhere
    BY <1>3, StepElsewhere, WorkerCreates DEF newVars
  <2>2. i = created' /\ syncs'[i] = {}
    BY <1>0, <1>3, <2>1 DEF Elsewhere
  <2>3. ASSUME NEW s \in Stoppers, stopper'[s].pc = "save" PROVE stopper'[s].job # i
    <3>1. stopper'[s] = stopper[s] => stopper'[s].job <= created
      BY DEF Fresh
    <3> QED  BY <1>0, <1>3, <2>1, <2>2, <2>3, <3>1, StopCopies DEF Elsewhere
  <2> QED  BY <2>2, <2>3
<1> QED  BY <1>1, <1>2, <1>3

LEMMA StepSynced ==
    ASSUME TypeOK, Placed, Fresh, OneHolder, Done, SyncsFresh, Synced, [Next]_vars
    PROVE  Synced'
<1>0. /\ 1 .. created \subseteq Traces /\ created \in Nat
      /\ \A k \in Syncs : Settled(k) => Settled(k)'
      /\ worker.ids \subseteq Syncs /\ worker.base.syncs \subseteq Syncs
      /\ \A i \in Traces : syncs[i] \subseteq Syncs
  <2>1. worker.ids \subseteq Syncs /\ worker.base.syncs \subseteq Syncs
    BY Hands DEF Workers, Documents
  <2>2. \A i \in Traces : syncs[i] \subseteq Syncs
    BY DEF TypeOK
  <2>3. 1 .. created \subseteq Traces /\ created \in Nat
    BY Shapes, ConstantsAssumption DEF TypeOK, Traces
  <2> QED  BY <2>1, <2>2, <2>3, StepSyncsFresh
<1>1. ASSUME NEW i \in 1 .. created', status'[i] = "succeeded", IsRoot(i)', NEW k \in syncs'[i]
      PROVE  Settled(k)'
  <2>1. ASSUME i \in 1 .. created, status[i] = "succeeded", IsRoot(i), syncs'[i] = syncs[i] PROVE Settled(k)'
    BY <1>0, <1>1, <2>1 DEF Synced
  <2>2. CASE Elsewhere
    <3>1. i \in 1 .. created
      BY <1>0, <1>1, <2>2 DEF Elsewhere
    <3> QED  BY <1>1, <2>1, <2>2, <3>1 DEF Elsewhere, IsRoot
  <2>3. CASE UNCHANGED <<docVars, newVars>>
    BY <1>1, <2>1, <2>3 DEF docVars, newVars, IsRoot
  <2>4. CASE (WorkerStep \/ TraverseFails) /\ OwnSave
    <3>1. UNCHANGED newVars
      BY <2>4, WorkerCreates
    <3>2. i \in 1 .. created /\ i \in Traces /\ IsRoot(i)
      BY <1>0, <1>1, <3>1 DEF newVars, IsRoot
    <3>3. CASE i = Job
      <4>1. syncs'[i] = worker.ids /\ Outcome = "succeeded" /\ worker.pc \in {"finish", "close"}
        BY <1>1, <2>4, <3>3, SaveEffect DEF OwnSave, Result
      <4>2. worker.pc = "finish" /\ ~worker.partial
        BY <3>2, <3>3, <4>1 DEF Placed, Outcome
      <4> QED  BY <1>0, <1>1, <3>2, <3>3, <4>1, <4>2 DEF Synced, Deciding
    <3>4. CASE i # Job
      BY <1>1, <2>1, <2>4, <3>2, <3>4, SaveEffect DEF OwnSave
    <3> QED  BY <3>3, <3>4
  <2>5. CASE (WorkerStep \/ TraverseFails) /\ Merges
    <3>1. UNCHANGED newVars
      BY <2>5, WorkerCreates
    <3>2. i \in 1 .. created /\ i \in Traces /\ IsRoot(i)
      BY <1>0, <1>1, <3>1 DEF newVars, IsRoot
    <3>3. CASE i = root[Job]
      <4>1. syncs'[i] = worker.base.syncs /\ worker.base.status = "succeeded" /\ worker.pc = "merge"
        BY <1>1, <2>5, <3>3, MergeEffect DEF Merges
      <4> QED  BY <1>0, <1>1, <4>1 DEF Synced
    <3>4. CASE i # root[Job]
      BY <1>1, <2>1, <2>5, <3>2, <3>4, MergeEffect
    <3> QED  BY <3>3, <3>4
  <2> QED  BY <2>2, <2>3, <2>4, <2>5, StepElsewhere, WorkerSaves, WorkerCreates
<1>2. ASSUME Deciding', NEW k \in worker'.ids
      PROVE  Settled(k)' \/ (worker'.pc = "wait" /\ k = worker'.wait)
  <2>1. CASE worker' = worker /\ root'[Job] = root[Job]
    BY <1>0, <1>2, <2>1 DEF Synced, Deciding, IsRoot, Job
  <2>2. CASE WorkerStep \/ TraverseFails
    <3>1. UNCHANGED newVars
      BY <2>2, WorkerCreates
    <3>2. ~Receive /\ ~Leaves
      BY <1>2, ReceiveEffect, Hands DEF Leaves, Deciding
    <3>3. /\ worker'.job = worker.job
          /\ Onward \/ Waits \/ Waited \/ Rereads \/ Merges \/ Begins
      BY <1>2, <2>2, <3>2, WorkerMoves DEF Deciding, Exits
    <3>4. IsRoot(Job) /\ ~worker'.partial
      BY <1>2, <3>1, <3>3 DEF Deciding, IsRoot, Job, newVars
    <3>5. CASE Onward
      <4>1. worker'.ids = worker.ids /\ worker.pc \in Ways /\ ~worker.partial
        BY <3>4, <3>5 DEF Onward
      <4>2. Deciding /\ worker.pc # "wait"
        BY <3>4, <4>1 DEF Deciding, Ways
      <4>3. Settled(k)
        BY <1>2, <4>1, <4>2 DEF Synced
      <4> QED  BY <1>0, <1>2, <4>1, <4>3
    <3>6. CASE Waits
      BY <1>0, <1>2, <3>4, <3>6 DEF Waits, Synced, Deciding
    <3>7. CASE Waited
      <4>1. Deciding /\ worker'.ids = worker.ids /\ worker.pc = "wait"
        BY <3>4, <3>7 DEF Waited, Deciding
      <4>2. worker.wait \in Syncs /\ syncStatus[worker.wait] = "succeeded"
        BY <3>4, <3>7 DEF Waited, Placed, Sync!Result
      <4>3. Settled(worker.wait)
        BY <4>2 DEF SyncsFresh, Settled, Sync!Result
      <4> QED  BY <1>0, <1>2, <4>1, <4>2, <4>3 DEF Synced
    <3>8. CASE Rereads \/ Merges
      BY <3>4, <3>8 DEF Rereads, Merges, Placed
    <3>9. CASE Begins
      <4>1. Job \in 1 .. created /\ Unprocessed(Job)
        BY <3>9, Shapes DEF Begins, Placed, Fresh, Traces, Unprocessed, InHand
      <4> QED  BY <1>2, <3>9, <4>1 DEF Begins, Synced
    <3> QED  BY <3>3, <3>5, <3>6, <3>7, <3>8, <3>9
  <2>3. CASE worker' = Resting
    BY <1>2, <2>3, Hands DEF Deciding
  <2>4. CASE Elsewhere
    <3>1. worker.pc # "idle"
      BY <1>2, <2>4 DEF Elsewhere, Deciding
    <3>2. Job \in 1 .. created
      BY <3>1, Shapes DEF Placed, Fresh, Traces
    <3> QED  BY <2>1, <2>4, <3>2 DEF Elsewhere
  <2> QED  BY <2>2, <2>3, <2>4, StepElsewhere
<1>3. ASSUME worker'.pc = "merge", worker'.base.status = "succeeded", NEW k \in worker'.base.syncs
      PROVE  Settled(k)'
  <2>1. CASE worker' = worker
    BY <1>0, <1>3, <2>1 DEF Synced
  <2>2. CASE WorkerStep \/ TraverseFails
    <3>1. Rereads
      BY <1>3, <2>2, WorkerArrives
    <3>2. worker'.base.status = status[root[Job]] /\ worker'.base.syncs = syncs[root[Job]] /\ worker.pc = "reread"
      BY <3>1 DEF Rereads
    <3>3. Job \in 1 .. created /\ ~IsRoot(Job)
      BY <3>2, Shapes DEF Placed, Fresh, Traces
    <3> QED  BY <1>0, <1>3, <3>2, <3>3, RootOf DEF Synced
  <2>3. CASE worker' = Resting
    BY <1>3, <2>3, Hands
  <2> QED  BY <2>1, <2>2, <2>3, StepElsewhere DEF Elsewhere
<1>4. ASSUME NEW i \in 1 .. created', Unprocessed(i)'
      PROVE  /\ syncs'[i] = {}
             /\ \A s \in Stoppers : stopper'[s].pc = "save" /\ stopper'[s].job = i => stopper'[s].ids = {}
  BY <1>4, StepUnprocessed
<1> QED  BY <1>1, <1>2, <1>3, <1>4 DEF Synced
-----------------------------------------------------------------------------
(* The inductive invariant, and what follows. *)

LEMMA InitHolds == Init => IInv
<1> SUFFICES ASSUME Init PROVE IInv
  OBVIOUS
<1> USE DEF Init, Sync!Init
<1>0. /\ (CHOOSE a \in Addresses : TRUE) \in Addresses
      /\ (CHOOSE v \in Variants : TRUE) \in Variants
  BY ConstantsAssumption
<1>1. /\ worker = Resting /\ Resting \in Workers /\ Resting.pc = "idle" /\ Resting.job = NoTrace
      /\ created = 0 /\ 1 .. created = {} /\ Job = NoTrace
  BY WorkingType, Indices DEF Resting, Places, Job
<1>2. queue \in Seq(Traces) /\ Len(queue) = 0 /\ DOMAIN queue = {}
  OBVIOUS
<1>3. TypeOK
  <2>1. /\ syncStatus \in [Syncs -> {"none", "failed", "stopped"} \cup Sync!Live \cup Sync!Result]
        /\ syncAddr \in [Syncs -> Addresses] /\ syncActive \in [Addresses -> 0 .. MaxSyncs]
        /\ syncCreated \in 0 .. MaxSyncs /\ syncOpen \subseteq Syncs
        /\ book \in [Addresses -> {"open", "synced", "high"}]
    BY <1>0, Indices DEF Sync!Jobs, Syncs, Sync!NoJob, NoSync
  <2>2. /\ status \in [Traces -> {"none"} \cup Live \cup Ended]
        /\ seed \in [Traces -> Addresses] /\ variant \in [Traces -> Variants]
        /\ root \in [Traces -> 0 .. MaxTraces]
        /\ syncs \in [Traces -> SUBSET Syncs] /\ result \in [Traces -> SUBSET Traces]
        /\ created \in 0 .. MaxTraces
        /\ active \in [Addresses \X Variants -> 0 .. MaxTraces] /\ extending \in [Traces -> 0 .. MaxTraces]
    BY <1>0, Indices DEF NoTrace
  <2>3. /\ sender \in [Enqueuers -> [pc : {"send"}, job : Traces] \cup {Idle}]
        /\ stopper \in [Stoppers -> [pc : {"save", "cancel", "sync", "syncsave"}, job : Traces,
                                     ids : SUBSET Syncs, sync : 0 .. MaxSyncs] \cup {NotStopping}]
    OBVIOUS
  <2>4. Len(queue) <= QueueSize
    <3> HIDE DEF Init
    <3> QED  BY <1>2, ConstantsAssumption
  <2>5. reachable \in BOOLEAN /\ cancelled \in BOOLEAN /\ phase \in {"starting", "serving", "dead"}
    BY Zenon
  <2> QED  BY <1>1, <1>2, <2>1, <2>2, <2>3, <2>4, <2>5 DEF TypeOK, Workers
<1>4. /\ \A e \in Enqueuers : sender[e] = Idle /\ sender[e].job = NoTrace
      /\ \A s \in Stoppers : stopper[s] = NotStopping /\ stopper[s].job = NoTrace
  BY DEF Idle, NotStopping
<1>5. Placed /\ OneHolder
  BY <1>1, <1>2, <1>4 DEF Placed, OneHolder
<1>6. Fresh
  BY <1>1, <1>2, <1>4 DEF Fresh, NoTrace
<1>7. Done /\ KeysMatch /\ Based /\ Merged /\ ExtensionsMerged
  BY <1>1 DEF Done, KeysMatch, Based, Merged, ExtensionsMerged
<1>8. SyncsFresh /\ Synced
  BY <1>1 DEF SyncsFresh, Synced, Deciding, Sync!Jobs, Syncs
<1> QED  BY <1>3, <1>5, <1>6, <1>7, <1>8 DEF IInv

LEMMA IInvHolds == Spec => []IInv
<1>1. ASSUME IInv, [Next]_vars PROVE IInv'
  BY <1>1, StepType, StepPlaced, StepFresh, StepOneHolder, StepDone, StepKeys, StepBased, StepMerged,
     StepExtensionsMerged, StepSyncsFresh, StepSynced DEF IInv
<1> QED  BY <1>1, InitHolds, PTL DEF Spec

\* Type correctness of the trace manager.
THEOREM TypeCorrect == Spec => []TypeOK
<1>1. IInv => TypeOK
  BY DEF IInv
<1> QED  BY <1>1, IInvHolds, PTL

\* Manager.active and the extension keys: a trace that a call, the queue or the worker
\* has holds its key, and a key that is held is on behalf of such a trace or of a stopped
\* root, however enqueues, extensions, stops, outages and crashes interleave.
THEOREM KeysAlwaysMatch == Spec => []KeysMatch
<1>1. IInv => KeysMatch
  BY DEF IInv
<1> QED  BY <1>1, IInvHolds, PTL

\* processExtension and mergeResult: an extension that ended well is in its root's
\* result, and a partial one has made the root's outcome partial, although the root is
\* read, merged and written back in separate steps, and any of them may fail.
THEOREM ExtensionsAlwaysMerged == Spec => []ExtensionsMerged
<1>1. IInv => ExtensionsMerged
  BY DEF IInv
<1> QED  BY <1>1, IInvHolds, PTL

\* waitSync and the outcome of process: a root reads succeeded only on sync jobs that
\* have all succeeded, whoever enqueued, stopped or swept them.
THEOREM SucceededAlwaysSynced == Spec => []SucceededMeansSynced
<1>1. IInv => SucceededMeansSynced
  BY DEF IInv, Synced, Settled, SucceededMeansSynced
<1> QED  BY <1>1, IInvHolds, PTL

\* A recorded outcome and the findings in it outlive every step but the save of a stop
\* that read the job before it ended.
THEOREM OutcomesAlwaysStand == Spec => OutcomesStand
<1> DEFINE Stands ==
      \A i \in Traces : status[i] \in Result /\ ~LateStop(i) =>
          status'[i] \in {status[i], "partial"} /\ result[i] \subseteq result'[i]
<1>1. ASSUME IInv, [Next]_vars PROVE Stands
  <2> SUFFICES ASSUME NEW i \in Traces, status[i] \in Result, ~LateStop(i)
               PROVE  status'[i] \in {status[i], "partial"} /\ result[i] \subseteq result'[i]
    OBVIOUS
  <2> USE <1>1 DEF IInv
  <2>1. i \in 1 .. created
    BY Shapes DEF Fresh, Result, Traces
  <2>2. CASE UNCHANGED docVars
    BY <2>2 DEF docVars
  <2>3. CASE Elsewhere
    BY <2>1, <2>3 DEF Elsewhere, LateStop, Live, Result
  <2>4. CASE OwnSave
    <3>1. i # Job
      BY <2>4, InProcess DEF OwnSave
    <3> QED  BY <2>4, <3>1, SaveEffect DEF OwnSave
  <2>5. CASE Merges
    <3>1. CASE i = root[Job]
      <4>1. worker.base.status = status[i] /\ worker.base.result = result[i]
        BY <2>5, <3>1 DEF Merges, Based
      <4> QED  BY <2>5, <3>1, <4>1, MergeEffect
    <3>2. CASE i # root[Job]
      BY <2>5, <3>2, MergeEffect
    <3> QED  BY <3>1, <3>2
  <2> QED  BY <2>2, <2>3, <2>4, <2>5, StepElsewhere, WorkerSaves
<1> QED  BY <1>1, IInvHolds, PTL DEF Spec, OutcomesStand
=============================================================================
