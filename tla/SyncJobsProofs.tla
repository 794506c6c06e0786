--------------------------- MODULE SyncJobsProofs ---------------------------
(***************************************************************************)
(* Keys and results of sync jobs, and the service they implement, for every *)
(* number of jobs, goroutines and addresses and every queue size.          *)
(***************************************************************************)
EXTENDS SyncJobs, SequenceTheorems, TLAPS

\* What the type of a hand says of its fields.
LEMMA Hands ==
    ASSUME TypeOK
    PROVE  /\ NoJob \notin Jobs
           /\ \A e \in Enqueuers :
                 /\ sender[e].job \in Jobs \cup {NoJob}
                 /\ sender[e].pc \in {"idle", "send", "reject"}
                 /\ sender[e].pc = "idle" <=> sender[e] = Idle
                 /\ sender[e].job = NoJob <=> sender[e] = Idle
                 /\ \A i \in Jobs : sender[e] = At("send", i) <=> sender[e].pc = "send" /\ sender[e].job = i
           /\ \A s \in Stoppers :
                 /\ stopper[s].job \in Jobs \cup {NoJob}
                 /\ stopper[s].pc \in {"idle", "save", "cancel"}
                 /\ stopper[s].pc = "idle" <=> stopper[s] = Idle
                 /\ stopper[s].job = NoJob <=> stopper[s] = Idle
                 /\ \A i \in Jobs : stopper[s] = At("save", i) <=> stopper[s].pc = "save" /\ stopper[s].job = i
           /\ worker.job \in Jobs \cup {NoJob}
           /\ worker.pc \in {"idle", "load", "mark", "work", "release"}
           /\ worker.pc = "idle" <=> worker = Idle
           /\ worker.job = NoJob <=> worker = Idle
           /\ \A k \in DOMAIN queue : queue[k] \in Jobs
<1>1. NoJob \notin Jobs
  BY DEF NoJob, Jobs
<1>2. ASSUME NEW e \in Enqueuers
      PROVE  /\ sender[e].job \in Jobs \cup {NoJob}
             /\ sender[e].pc \in {"idle", "send", "reject"}
             /\ sender[e].pc = "idle" <=> sender[e] = Idle
             /\ sender[e].job = NoJob <=> sender[e] = Idle
             /\ \A i \in Jobs : sender[e] = At("send", i) <=> sender[e].pc = "send" /\ sender[e].job = i
  <2>1. sender[e] \in [pc : {"send", "reject"}, job : Jobs] \cup {Idle}
    BY DEF TypeOK
  <2> QED  BY <1>1, <2>1 DEF Idle, At
<1>3. ASSUME NEW s \in Stoppers
      PROVE  /\ stopper[s].job \in Jobs \cup {NoJob}
             /\ stopper[s].pc \in {"idle", "save", "cancel"}
             /\ stopper[s].pc = "idle" <=> stopper[s] = Idle
             /\ stopper[s].job = NoJob <=> stopper[s] = Idle
             /\ \A i \in Jobs : stopper[s] = At("save", i) <=> stopper[s].pc = "save" /\ stopper[s].job = i
  <2>1. stopper[s] \in [pc : {"save", "cancel"}, job : Jobs] \cup {Idle}
    BY DEF TypeOK
  <2> QED  BY <1>1, <2>1 DEF Idle, At
<1>4. worker \in [pc : {"load", "mark", "work", "release"}, job : Jobs] \cup {Idle}
  BY DEF TypeOK
<1>5. \A k \in DOMAIN queue : queue[k] \in Jobs
  BY DEF TypeOK
<1>6. /\ worker.job \in Jobs \cup {NoJob}
      /\ worker.pc \in {"idle", "load", "mark", "work", "release"}
      /\ worker.pc = "idle" <=> worker = Idle
      /\ worker.job = NoJob <=> worker = Idle
  BY <1>1, <1>4 DEF Idle
<1> QED  BY <1>1, <1>2, <1>3, <1>5, <1>6

\* Every map is a function on its set, the queue is 1 .. Len(queue) long.
LEMMA Shapes ==
    ASSUME TypeOK
    PROVE  /\ DOMAIN sender = Enqueuers /\ sender = [e \in Enqueuers |-> sender[e]]
           /\ DOMAIN stopper = Stoppers /\ stopper = [s \in Stoppers |-> stopper[s]]
           /\ DOMAIN status = Jobs /\ status = [i \in Jobs |-> status[i]]
           /\ DOMAIN addr = Jobs /\ addr = [i \in Jobs |-> addr[i]]
           /\ DOMAIN active = Addresses /\ active = [a \in Addresses |-> active[a]]
           /\ Len(queue) \in Nat /\ DOMAIN queue = 1 .. Len(queue) /\ queue \in Seq(Jobs)
           /\ created \in Nat
BY DEF TypeOK

LEMMA InitHolds == ASSUME Init PROVE IInv
<1>1. TypeOK
  <2>1. addr \in [Jobs -> Addresses]
    BY ConstantsAssumption DEF Init
  <2>2. created \in 0 .. MaxJobs
    BY ConstantsAssumption DEF Init
  <2>3. status \in [Jobs -> {"none"} \cup Live \cup Ended]
    BY DEF Init
  <2>4. /\ queue \in Seq(Jobs) /\ worker = Idle
        /\ active \in [Addresses -> Jobs \cup {NoJob}]
        /\ sender \in [Enqueuers -> [pc : {"send", "reject"}, job : Jobs] \cup {Idle}]
        /\ stopper \in [Stoppers -> [pc : {"save", "cancel"}, job : Jobs] \cup {Idle}]
    BY DEF Init
  <2> QED  BY <2>1, <2>2, <2>3, <2>4 DEF TypeOK, Init
<1>2. /\ worker.job = NoJob /\ worker.pc = "idle" /\ queue = <<>>
      /\ \A e \in Enqueuers : sender[e] = Idle /\ sender[e].job = NoJob /\ sender[e].pc = "idle"
      /\ \A s \in Stoppers : stopper[s].job = NoJob
  BY DEF Init, Idle
<1>3. OneHolder /\ ResultsUnheld
  BY <1>2 DEF OneHolder, ResultsUnheld
<1>4. Fresh
  BY <1>2 DEF Fresh, Init, NoJob
<1>5. KeysMatch
  <2>1. \A i \in Jobs : ~InHand(i)
    BY <1>2 DEF InHand, Sending, Queued, At, NoJob, Jobs
  <2> QED  BY <2>1 DEF KeysMatch, Init, Jobs, NoJob
<1> QED  BY <1>1, <1>3, <1>4, <1>5 DEF IInv

LEMMA StepType ==
    ASSUME TypeOK, [Next]_vars
    PROVE  TypeOK'
<1> USE DEF TypeOK, docVars, keyVars
<1>1. ASSUME NEW e \in Enqueuers, NEW a \in Addresses, Enqueue(e, a)
      PROVE  TypeOK'
  <2>1. created' \in Jobs /\ created' \in 0 .. MaxJobs
    BY <1>1, ConstantsAssumption DEF Enqueue, Jobs
  <2>2. At("send", created') \in [pc : {"send", "reject"}, job : Jobs]
    BY <2>1 DEF At
  <2> QED  BY <1>1, <2>1, <2>2 DEF Enqueue, Live
<1>2. ASSUME NEW e \in Enqueuers, Send(e)
      PROVE  TypeOK'
  <2>1. sender[e].job \in Jobs
    BY <1>2, Hands DEF Send, Idle
  <2>2. queue' \in Seq(Jobs)
    BY <1>2, <2>1 DEF Send
  <2> QED  BY <1>2, <2>2 DEF Send
<1>3. ASSUME NEW e \in Enqueuers, QueueFull(e)
      PROVE  TypeOK'
  <2>1. sender[e] \in [pc : {"send", "reject"}, job : Jobs]
    BY <1>3 DEF QueueFull, Idle
  <2>2. [sender[e] EXCEPT !.pc = "reject"] \in [pc : {"send", "reject"}, job : Jobs]
    BY <2>1
  <2> QED  BY <1>3, <2>2 DEF QueueFull
<1>4. ASSUME NEW e \in Enqueuers, Reject(e)
      PROVE  TypeOK'
  BY <1>4 DEF Reject, Ended
<1>5. ASSUME NEW s \in Stoppers, NEW i \in Jobs, StopRead(s, i)
      PROVE  TypeOK'
  BY <1>5 DEF StopRead, At
<1>6. ASSUME NEW s \in Stoppers, StopSave(s)
      PROVE  TypeOK'
  <2>1. stopper[s] \in [pc : {"save", "cancel"}, job : Jobs]
    BY <1>6 DEF StopSave, Idle
  <2>2. [stopper[s] EXCEPT !.pc = "cancel"] \in [pc : {"save", "cancel"}, job : Jobs]
    BY <2>1
  <2>3. CASE reachable
    <3>1. stopper' = [stopper EXCEPT ![s].pc = "cancel"] /\ status' = [status EXCEPT ![stopper[s].job] = "stopped"]
      BY <1>6, <2>3 DEF StopSave
    <3>2. stopper' \in [Stoppers -> [pc : {"save", "cancel"}, job : Jobs] \cup {Idle}]
      BY <2>2, <3>1
    <3>3. status' \in [Jobs -> {"none"} \cup Live \cup Ended]
      BY <3>1 DEF Ended
    <3> QED  BY <1>6, <3>2, <3>3 DEF StopSave
  <2>4. CASE ~reachable
    BY <1>6, <2>4 DEF StopSave
  <2> QED  BY <2>3, <2>4
<1>7. ASSUME NEW s \in Stoppers, StopCancel(s)
      PROVE  TypeOK'
  BY <1>7 DEF StopCancel
<1>8. CASE Recover
  BY <1>8 DEF Recover, Ended
<1>9. CASE Receive
  <2>1. Head(queue) \in Jobs /\ Tail(queue) \in Seq(Jobs)
    BY <1>9, HeadTailProperties DEF Receive
  <2>2. At("load", Head(queue)) \in [pc : {"load", "mark", "work", "release"}, job : Jobs]
    BY <2>1 DEF At
  <2> QED  BY <1>9, <2>1, <2>2 DEF Receive
<1>10. ASSUME NEW st \in Live \cup Ended, Write(st)
       PROVE  status' \in [Jobs -> {"none"} \cup Live \cup Ended]
  BY <1>10 DEF Write
<1>11. ASSUME worker.pc # "idle", NEW p \in {"load", "mark", "work", "release"}
       PROVE  [worker EXCEPT !.pc = p] \in [pc : {"load", "mark", "work", "release"}, job : Jobs]
  <2>1. worker \in [pc : {"load", "mark", "work", "release"}, job : Jobs]
    BY <1>11 DEF Idle
  <2> QED  BY <2>1
<1>12. CASE Load
  BY <1>11, <1>12 DEF Load
<1>13. CASE MarkRunning
  BY <1>10, <1>11, <1>13 DEF MarkRunning, Live
<1>14. CASE Report
  BY <1>10, <1>14 DEF Report, Live
<1>15. CASE Finish
  BY <1>10, <1>11, <1>15 DEF Finish
<1>16. CASE Abandon
  BY <1>11, <1>16 DEF Abandon
<1>17. CASE Release
  BY <1>17 DEF Release
<1>18. CASE Crash
  <2>1. queue' = <<>> /\ worker' = Idle /\ cancelled' = FALSE /\ phase' = "starting"
    BY <1>18 DEF Crash
  <2>0. active' \in [Addresses -> Jobs \cup {NoJob}]
    BY <1>18 DEF Crash
  <2>2. /\ sender' \in [Enqueuers -> [pc : {"send", "reject"}, job : Jobs] \cup {Idle}]
        /\ stopper' \in [Stoppers -> [pc : {"save", "cancel"}, job : Jobs] \cup {Idle}]
    BY <1>18 DEF Crash
  <2>3. UNCHANGED <<reachable, status, addr, created>>
    BY <1>18 DEF Crash
  <2>4. queue' \in Seq(Jobs)
    BY <2>1
  <2> QED  BY <2>0, <2>1, <2>2, <2>3, <2>4
<1>19. CASE Outage
  BY <1>19 DEF Outage, docVars, keyVars
<1>20. CASE UNCHANGED vars
  BY <1>20 DEF vars, docVars, keyVars
<1> QED
  BY <1>1, <1>2, <1>3, <1>4, <1>5, <1>6, <1>7, <1>8, <1>9, <1>12, <1>13, <1>14, <1>15, <1>16,
     <1>17, <1>18, <1>19, <1>20 DEF Next, EnqueueStep, StopStep, WorkerStep

\* Nothing but Enqueue creates a job, and everybody else handles what there is.
LEMMA StepFresh ==
    ASSUME TypeOK, Fresh, [Next]_vars
    PROVE  Fresh'
<1> USE DEF Fresh, docVars, keyVars
<1>0. /\ created \in Nat /\ Jobs \subseteq Nat /\ worker.job \in Nat
      /\ \A k \in DOMAIN queue : queue[k] \in Nat
      /\ \A s \in Stoppers : stopper[s].job \in Nat
  <2>1. Jobs \subseteq Nat /\ NoJob \in Nat
    BY DEF Jobs, NoJob
  <2> QED  BY <2>1, Hands, Shapes
<1>1. ASSUME NEW e \in Enqueuers, NEW a \in Addresses, Enqueue(e, a)
      PROVE  Fresh'
  <2>1. created' = created + 1
    BY <1>1 DEF Enqueue
  <2>2. \A i \in Jobs : i > created' => status'[i] = "none"
    BY <1>0, <1>1, <2>1, Shapes DEF Enqueue
  <2>3. \A f \in Enqueuers : sender'[f].job <= created'
    BY <1>0, <1>1, <2>1, Shapes, Hands DEF Enqueue, At, NoJob
  <2>4. \A f \in Stoppers : stopper[f].job <= created'
    BY <1>0, <2>1
  <2>5. \A k \in DOMAIN queue : queue[k] <= created'
    BY <1>0, <2>1
  <2>6. worker.job <= created'
    BY <1>0, <2>1
  <2> QED  BY <1>1, <2>2, <2>3, <2>4, <2>5, <2>6 DEF Enqueue
<1>2. ASSUME NEW e \in Enqueuers, Send(e)
      PROVE  Fresh'
  <2>1. \A k \in DOMAIN queue' : queue'[k] <= created
    BY <1>0, <1>2, Shapes, Hands DEF Send, Idle, NoJob
  <2>2. \A f \in Enqueuers : sender'[f].job <= created
    BY <1>0, <1>2, Shapes, Hands DEF Send, Idle, NoJob
  <2> QED  BY <1>2, <2>1, <2>2 DEF Send
<1>3. ASSUME NEW e \in Enqueuers, QueueFull(e)
      PROVE  Fresh'
  <2>1. \A f \in Enqueuers : sender'[f].job = sender[f].job
    BY <1>3, Shapes DEF QueueFull
  <2> QED  BY <1>3, <2>1 DEF QueueFull
<1>4. ASSUME NEW e \in Enqueuers, Reject(e)
      PROVE  Fresh'
  <2>1. \A f \in Enqueuers : sender'[f].job <= created
    BY <1>0, <1>4, Shapes, Hands DEF Reject, Idle, NoJob
  <2>2. \A i \in Jobs : i > created => status'[i] = "none"
    BY <1>0, <1>4, Shapes, Hands DEF Reject, Idle, NoJob
  <2> QED  BY <1>4, <2>1, <2>2 DEF Reject
<1>5. ASSUME NEW s \in Stoppers, NEW i \in Jobs, StopRead(s, i)
      PROVE  Fresh'
  <2>1. i <= created
    BY <1>0, <1>5, Shapes DEF StopRead, Live, Jobs
  <2>2. \A r \in Stoppers : stopper'[r].job <= created
    BY <1>5, <2>1, Shapes DEF StopRead, At
  <2> QED  BY <1>5, <2>2 DEF StopRead
<1>6. ASSUME NEW s \in Stoppers, StopSave(s)
      PROVE  Fresh'
  <2>1. \A r \in Stoppers : stopper'[r].job <= created
    <3>1. CASE stopper' = [stopper EXCEPT ![s].pc = "cancel"]
      BY <3>1, Shapes
    <3>2. CASE stopper' = [stopper EXCEPT ![s] = Idle]
      BY <1>0, <3>2, Shapes DEF Idle, NoJob
    <3> QED  BY <1>6, <3>1, <3>2 DEF StopSave
  <2>2. \A i \in Jobs : i > created => status'[i] = "none"
    BY <1>0, <1>6, Shapes, Hands DEF StopSave, Idle, NoJob
  <2> QED  BY <1>6, <2>1, <2>2 DEF StopSave
<1>7. ASSUME NEW s \in Stoppers, StopCancel(s)
      PROVE  Fresh'
  <2>1. \A r \in Stoppers : stopper'[r].job <= created
    BY <1>0, <1>7, Shapes DEF StopCancel, Idle, NoJob
  <2> QED  BY <1>7, <2>1 DEF StopCancel
<1>8. CASE Recover
  BY <1>8 DEF Recover, Live
<1>9. CASE Receive
  <2>1. Len(queue) \in Nat /\ Len(queue) > 0 /\ DOMAIN queue = 1 .. Len(queue)
    BY <1>9, Shapes DEF Receive
  <2>2. Head(queue) = queue[1] /\ 1 \in DOMAIN queue
    BY <1>9, <2>1, Shapes DEF Receive
  <2>3. \A k \in DOMAIN queue' : queue'[k] = queue[k + 1] /\ k + 1 \in DOMAIN queue
    BY <1>9, <2>1, Shapes DEF Receive
  <2>4. worker'.job <= created
    BY <1>9, <2>2 DEF Receive, At
  <2> QED  BY <1>9, <2>3, <2>4 DEF Receive
<1>10. ASSUME NEW st, Write(st), worker # Idle
       PROVE  \A i \in Jobs : i > created => status'[i] = "none"
  BY <1>0, <1>10, Shapes, Hands DEF Write, NoJob
<1>11. ASSUME worker.pc # "idle", NEW p, worker' = [worker EXCEPT !.pc = p]
       PROVE  worker'.job = worker.job /\ worker # Idle
  <2>1. worker \in [pc : {"load", "mark", "work", "release"}, job : Jobs]
    BY <1>11 DEF TypeOK, Idle
  <2>2. [worker EXCEPT !.pc = p].job = worker.job
    BY <2>1
  <2>3. worker # Idle
    BY <1>11 DEF Idle
  <2> QED  BY <1>11, <2>2, <2>3
<1>12. CASE Load
  BY <1>11, <1>12 DEF Load
<1>13. CASE MarkRunning
  BY <1>10, <1>11, <1>13 DEF MarkRunning
<1>14. CASE Report
  BY <1>10, <1>14 DEF Report, Idle
<1>15. CASE Finish
  BY <1>10, <1>11, <1>15 DEF Finish
<1>16. CASE Abandon
  BY <1>11, <1>16 DEF Abandon
<1>17. CASE Release
  BY <1>0, <1>17 DEF Release, Idle, NoJob, TypeOK
<1>18. CASE Crash
  <2>1. /\ \A f \in Enqueuers : sender'[f].job = 0
        /\ \A r \in Stoppers : stopper'[r].job = 0
        /\ worker'.job = 0 /\ queue' = <<>>
    BY <1>18 DEF Crash, Idle, NoJob
  <2> QED  BY <1>0, <1>18, <2>1 DEF Crash
<1>19. CASE Outage
  BY <1>19 DEF Outage
<1>20. CASE UNCHANGED vars
  BY <1>20 DEF vars
<1> QED
  BY <1>1, <1>2, <1>3, <1>4, <1>5, <1>6, <1>7, <1>8, <1>9, <1>12, <1>13, <1>14, <1>15, <1>16,
     <1>17, <1>18, <1>19, <1>20 DEF Next, EnqueueStep, StopStep, WorkerStep

\* A step that passes no job on, and gives a result to none but the worker's,
\* which the worker is then letting go.
Working == {"load", "mark", "work"}
Kept ==
    /\ sender' = sender /\ queue' = queue /\ active' = active /\ addr' = addr
    /\ worker'.job = worker.job
    /\ worker'.pc \in Working => worker.pc \in Working
    /\ \A i \in Jobs : status'[i] \in Result =>
          status[i] \in Result \/ (i = worker.job /\ worker'.pc = "release")

\* The seven actions that hand a job on, and all the others.
LEMMA StepKinds ==
    ASSUME TypeOK, [Next]_vars
    PROVE  \/ \E e \in Enqueuers, a \in Addresses : Enqueue(e, a)
           \/ \E e \in Enqueuers : Send(e) \/ QueueFull(e) \/ Reject(e)
           \/ Receive \/ Release \/ Crash
           \/ Kept
<1> USE DEF Kept, keyVars, docVars
<1>1. ASSUME NEW s \in Stoppers, NEW i \in Jobs, StopRead(s, i)
      PROVE  Kept
  BY <1>1 DEF StopRead
<1>2. ASSUME NEW s \in Stoppers, StopSave(s)
      PROVE  Kept
  BY <1>2, Shapes DEF StopSave, Result
<1>3. ASSUME NEW s \in Stoppers, StopCancel(s)
      PROVE  Kept
  BY <1>3 DEF StopCancel
<1>4. CASE Recover
  BY <1>4 DEF Recover, Result
<1>5. ASSUME NEW p, worker.pc \in Working, worker' = [worker EXCEPT !.pc = p]
      PROVE  worker'.job = worker.job /\ worker'.pc = p
  <2>1. worker \in [pc : {"load", "mark", "work", "release"}, job : Jobs]
    BY <1>5 DEF TypeOK, Idle, Working
  <2>2. [worker EXCEPT !.pc = p].job = worker.job /\ [worker EXCEPT !.pc = p].pc = p
    BY <2>1
  <2> QED  BY <1>5, <2>2
<1>6. ASSUME NEW st, Write(st), NEW i \in Jobs, status'[i] \in Result
      PROVE  status[i] \in Result \/ (i = worker.job /\ st \in Result)
  BY <1>6, Shapes DEF Write
<1>7. CASE Load
  BY <1>5, <1>7 DEF Load, Working
<1>8. CASE MarkRunning
  <2>1. \A i \in Jobs : status'[i] \in Result => status[i] \in Result
    BY <1>6, <1>8 DEF MarkRunning, Result
  <2> QED  BY <1>5, <1>8, <2>1 DEF MarkRunning, Working
<1>9. CASE Report
  <2>1. \A i \in Jobs : status'[i] \in Result => status[i] \in Result
    BY <1>6, <1>9 DEF Report, Result
  <2> QED  BY <1>9, <2>1 DEF Report
<1>10. CASE Finish
  <2>1. worker'.job = worker.job /\ worker'.pc = "release"
    BY <1>5, <1>10 DEF Finish, Working
  <2>2. \A i \in Jobs : status'[i] \in Result => status[i] \in Result \/ i = worker.job
    BY <1>6, <1>10 DEF Finish
  <2> QED  BY <1>10, <2>1, <2>2 DEF Finish, Working
<1>11. CASE Abandon
  BY <1>5, <1>11 DEF Abandon, Working
<1>12. CASE Outage
  BY <1>12 DEF Outage
<1>13. CASE UNCHANGED vars
  BY <1>13 DEF vars
<1> QED
  BY <1>1, <1>2, <1>3, <1>4, <1>7, <1>8, <1>9, <1>10, <1>11, <1>12, <1>13
     DEF Next, EnqueueStep, StopStep, WorkerStep

\* No two hands ever hold the same job.
LEMMA StepOneHolder ==
    ASSUME TypeOK, Fresh, OneHolder, [Next]_vars
    PROVE  OneHolder'
<1> USE DEF OneHolder, docVars, keyVars
<1>0. NoJob \notin Jobs /\ \A i \in Jobs : ~(created + 1 <= created)
  BY Shapes DEF Jobs, NoJob
<1>1. ASSUME NEW e \in Enqueuers, NEW a \in Addresses, Enqueue(e, a)
      PROVE  OneHolder'
  <2>1. /\ sender'[e].job = created + 1
        /\ \A f \in Enqueuers \ {e} : sender'[f] = sender[f]
    BY <1>1, Shapes DEF Enqueue, At
  <2>2. /\ \A f \in Enqueuers : sender[f].job # created + 1
        /\ \A k \in DOMAIN queue : queue[k] # created + 1
        /\ worker.job # created + 1
    BY Shapes DEF Fresh
  <2> QED  BY <1>1, <2>1, <2>2, Hands DEF Enqueue
<1>2. ASSUME NEW e \in Enqueuers, Send(e)
      PROVE  OneHolder'
  <2>1. /\ sender'[e] = Idle /\ sender[e] # Idle /\ sender[e].job \in Jobs
        /\ \A f \in Enqueuers \ {e} : sender'[f] = sender[f]
    BY <1>2, Shapes, Hands DEF Send, Idle
  <2>2. /\ DOMAIN queue' = 1 .. Len(queue) + 1
        /\ \A k \in DOMAIN queue : queue'[k] = queue[k]
        /\ queue'[Len(queue) + 1] = sender[e].job
    BY <1>2, <2>1, Shapes, AppendProperties DEF Send
  <2>3. \A k \in DOMAIN queue' : k \in DOMAIN queue \/ k = Len(queue) + 1
    BY <2>2, Shapes
  <2>4. Idle.job = NoJob
    BY DEF Idle
  <2>5. \A k, m \in DOMAIN queue' : queue'[k] = queue'[m] => k = m
    BY <2>1, <2>2, <2>3
  <2>6. \A f \in Enqueuers, k \in DOMAIN queue' : sender'[f].job # queue'[k]
    BY <1>0, <2>1, <2>2, <2>3, <2>4, Hands
  <2>7. \A f, g \in Enqueuers : sender'[f].job = sender'[g].job /\ sender'[f] # Idle => f = g
    BY <2>1, <2>4, Hands
  <2>8. worker' = worker
    BY <1>2 DEF Send
  <2> QED  BY <2>1, <2>2, <2>3, <2>5, <2>6, <2>7, <2>8
<1>3. ASSUME NEW e \in Enqueuers, QueueFull(e)
      PROVE  OneHolder'
  <2>1. /\ \A f \in Enqueuers : sender'[f].job = sender[f].job
        /\ \A f \in Enqueuers : sender'[f] # Idle => sender[f] # Idle
    BY <1>3, Shapes DEF QueueFull, Idle
  <2> QED  BY <1>3, <2>1 DEF QueueFull
<1>4. ASSUME NEW e \in Enqueuers, Reject(e)
      PROVE  OneHolder'
  <2>1. sender'[e] = Idle /\ \A f \in Enqueuers \ {e} : sender'[f] = sender[f]
    BY <1>4, Shapes DEF Reject
  <2>2. Idle.job = NoJob
    BY DEF Idle
  <2> QED  BY <1>0, <1>4, <2>1, <2>2, Hands DEF Reject
<1>5. CASE Receive
  <2>1. Len(queue) > 0 /\ worker'.job = queue[1] /\ 1 \in DOMAIN queue /\ sender' = sender
    BY <1>5, Shapes DEF Receive, At
  <2>2. \A k \in DOMAIN queue' : queue'[k] = queue[k + 1] /\ k + 1 \in DOMAIN queue /\ k \in Nat /\ k + 1 # 1
    BY <1>5, <2>1, Shapes DEF Receive
  <2>3. \A k, m \in DOMAIN queue' : queue'[k] = queue'[m] => k = m
    BY <2>2
  <2> QED  BY <2>1, <2>2, <2>3
<1>6. CASE Release
  <2>1. worker'.job = NoJob /\ sender' = sender /\ queue' = queue
    BY <1>6 DEF Release, Idle
  <2> QED  BY <1>0, <2>1, Hands
<1>7. CASE Crash
  <2>1. queue' = <<>> /\ \A f \in Enqueuers : sender'[f] = Idle
    BY <1>7 DEF Crash
  <2> QED  BY <2>1
<1>8. CASE Kept
  BY <1>8 DEF Kept
<1> QED  BY <1>1, <1>2, <1>3, <1>4, <1>5, <1>6, <1>7, <1>8, StepKinds

\* A job gets its result in the worker's hands only, and then leaves them.
LEMMA StepUnheld ==
    ASSUME TypeOK, Fresh, OneHolder, ResultsUnheld, [Next]_vars
    PROVE  ResultsUnheld'
<1> USE DEF ResultsUnheld, docVars, keyVars
<1>1. ASSUME NEW e \in Enqueuers, NEW a \in Addresses, Enqueue(e, a)
      PROVE  ResultsUnheld'
  <2>1. /\ sender'[e].job = created + 1 /\ created + 1 \in Jobs
        /\ \A f \in Enqueuers \ {e} : sender'[f] = sender[f]
    BY <1>1, Shapes, ConstantsAssumption DEF Enqueue, At, Jobs
  <2>2. status'[created + 1] \notin Result /\ \A i \in Jobs \ {created + 1} : status'[i] = status[i]
    BY <1>1, <2>1, Shapes DEF Enqueue, Result
  <2>3. \A i \in Jobs : status[i] \notin Result => status'[i] \notin Result
    BY <2>2
  <2> QED  BY <1>1, <2>1, <2>2, <2>3, Hands DEF Enqueue
<1>2. ASSUME NEW e \in Enqueuers, Send(e)
      PROVE  ResultsUnheld'
  <2>1. /\ sender'[e] = Idle /\ sender[e] # Idle /\ sender[e].job \in Jobs
        /\ \A f \in Enqueuers \ {e} : sender'[f] = sender[f]
    BY <1>2, Shapes, Hands DEF Send, Idle
  <2>2. /\ DOMAIN queue' = 1 .. Len(queue) + 1
        /\ \A k \in DOMAIN queue : queue'[k] = queue[k]
        /\ queue'[Len(queue) + 1] = sender[e].job
    BY <1>2, <2>1, Shapes, AppendProperties DEF Send
  <2>3. \A k \in DOMAIN queue' : k \in DOMAIN queue \/ k = Len(queue) + 1
    BY <2>2, Shapes
  <2>4. UNCHANGED <<status, worker>>
    BY <1>2 DEF Send
  <2> QED  BY <2>1, <2>2, <2>3, <2>4
<1>3. ASSUME NEW e \in Enqueuers, QueueFull(e)
      PROVE  ResultsUnheld'
  <2>1. \A f \in Enqueuers : sender'[f].job = sender[f].job /\ (sender'[f] # Idle => sender[f] # Idle)
    BY <1>3, Shapes DEF QueueFull, Idle
  <2> QED  BY <1>3, <2>1 DEF QueueFull
<1>4. ASSUME NEW e \in Enqueuers, Reject(e)
      PROVE  ResultsUnheld'
  <2>1. sender'[e] = Idle /\ \A f \in Enqueuers \ {e} : sender'[f] = sender[f]
    BY <1>4, Shapes DEF Reject
  <2>2. \A i \in Jobs : status[i] \notin Result => status'[i] \notin Result
    BY <1>4, Shapes DEF Reject, Result
  <2>3. UNCHANGED <<queue, worker>>
    BY <1>4 DEF Reject
  <2>4. worker.pc \in Working => worker.job \in Jobs
    BY Hands DEF Working, Idle
  <2> QED  BY <2>1, <2>2, <2>3, <2>4, Hands DEF Working
<1>5. CASE Receive
  <2>1. Len(queue) > 0 /\ worker'.job = queue[1] /\ 1 \in DOMAIN queue
    BY <1>5, Shapes DEF Receive, At
  <2>2. \A k \in DOMAIN queue' : queue'[k] = queue[k + 1] /\ k + 1 \in DOMAIN queue
    BY <1>5, <2>1, Shapes DEF Receive
  <2>3. UNCHANGED <<status, sender>>
    BY <1>5 DEF Receive
  <2> QED  BY <2>1, <2>2, <2>3
<1>6. CASE Release
  <2>1. worker'.pc = "idle" /\ UNCHANGED <<status, sender, queue>>
    BY <1>6 DEF Release, Idle
  <2> QED  BY <2>1
<1>7. CASE Crash
  <2>1. queue' = <<>> /\ worker'.pc = "idle" /\ \A f \in Enqueuers : sender'[f] = Idle
    BY <1>7 DEF Crash, Idle
  <2> QED  BY <2>1
<1>8. CASE Kept
  <2>1. /\ sender' = sender /\ queue' = queue /\ worker'.job = worker.job
        /\ worker'.pc \in Working => worker.pc \in Working
        /\ \A i \in Jobs : status'[i] \in Result =>
              status[i] \in Result \/ (i = worker.job /\ worker'.pc = "release")
    BY <1>8 DEF Kept
  <2>2. \A e \in Enqueuers : sender'[e] # Idle => status'[sender'[e].job] \notin Result
    BY <2>1, Hands DEF OneHolder
  <2>3. \A k \in DOMAIN queue' : status'[queue'[k]] \notin Result
    BY <2>1, Hands DEF OneHolder
  <2>4. ASSUME worker'.pc \in Working PROVE status'[worker'.job] \notin Result
    <3>1. worker.pc \in Working /\ worker'.pc # "release"
      BY <2>1, <2>4 DEF Working
    <3>2. worker.job \in Jobs
      BY <3>1, Hands DEF Working, Idle
    <3>3. status[worker.job] \notin Result
      BY <3>1 DEF Working
    <3> QED  BY <2>1, <3>1, <3>2, <3>3
  <2> QED  BY <2>2, <2>3, <2>4 DEF Working
<1> QED  BY <1>1, <1>2, <1>3, <1>4, <1>5, <1>6, <1>7, <1>8, StepKinds

\* A key changes hands with its job and goes when the job leaves the last pair.
LEMMA StepKeys ==
    ASSUME TypeOK, Fresh, OneHolder, KeysMatch, [Next]_vars
    PROVE  KeysMatch'
<1> USE DEF KeysMatch, docVars, keyVars
<1>0. /\ NoJob \notin Jobs
      /\ \A i \in Jobs : addr[i] \in Addresses
      /\ \A a \in Addresses : active[a] \in Jobs \cup {NoJob}
  BY Hands DEF TypeOK
<1>1. ASSUME NEW e \in Enqueuers, NEW a \in Addresses, Enqueue(e, a)
      PROVE  KeysMatch'
  <2> DEFINE j == created + 1
  <2>1. /\ j \in Jobs /\ sender'[e] = At("send", j) /\ sender[e] = Idle
        /\ \A f \in Enqueuers \ {e} : sender'[f] = sender[f]
        /\ queue' = queue /\ worker' = worker
    BY <1>1, Shapes, ConstantsAssumption DEF Enqueue, Jobs
  <2>2. /\ addr'[j] = a /\ \A i \in Jobs \ {j} : addr'[i] = addr[i]
        /\ active[a] = NoJob /\ active'[a] = j /\ \A b \in Addresses \ {a} : active'[b] = active[b]
    BY <1>1, <2>1, Shapes DEF Enqueue
  <2>3. /\ \A f \in Enqueuers : sender[f].job # j
        /\ \A k \in DOMAIN queue : queue[k] # j
        /\ worker.job # j
    BY Shapes DEF Fresh
  <2> HIDE DEF j
  <2>4. ~InHand(j)
    BY <2>1, <2>3, Hands DEF InHand, Sending, Queued
  <2>5. \A i \in Jobs : InHand(i)' <=> InHand(i) \/ i = j
    <3>1. \A i \in Jobs : Sending(i)' <=> Sending(i) \/ i = j
      BY <2>1 DEF Sending, At, Idle
    <3> QED  BY <2>1, <3>1 DEF InHand, Queued
  <2>6. ASSUME NEW b \in Addresses, NEW i \in Jobs
        PROVE  active'[b] = i <=> addr'[i] = b /\ InHand(i)'
    <3>1. CASE i = j
      BY <1>0, <2>1, <2>2, <2>4, <2>5, <3>1
    <3>2. CASE i # j
      BY <1>0, <2>2, <2>5, <3>2
    <3> QED  BY <3>1, <3>2
  <2> QED  BY <2>6
<1>2. ASSUME active' = active, addr' = addr, \A i \in Jobs : InHand(i)' <=> InHand(i)
      PROVE  KeysMatch'
  BY <1>2
<1>3. ASSUME NEW e \in Enqueuers, Send(e)
      PROVE  KeysMatch'
  <2>1. /\ sender[e] = At("send", sender[e].job) /\ sender[e].job \in Jobs /\ sender'[e] = Idle
        /\ \A f \in Enqueuers \ {e} : sender'[f] = sender[f]
        /\ active' = active /\ addr' = addr /\ worker' = worker
    BY <1>3, Shapes, Hands DEF Send, Idle
  <2>2. /\ DOMAIN queue' = 1 .. Len(queue) + 1
        /\ \A k \in DOMAIN queue : queue'[k] = queue[k]
        /\ queue'[Len(queue) + 1] = sender[e].job
    BY <1>3, <2>1, Shapes, AppendProperties DEF Send
  <2>3. /\ \A k \in DOMAIN queue' : k \in DOMAIN queue \/ k = Len(queue) + 1
        /\ DOMAIN queue \subseteq DOMAIN queue' /\ Len(queue) + 1 \in DOMAIN queue'
    BY <2>2, Shapes
  <2>4. \A i \in Jobs : Queued(i)' <=> Queued(i) \/ i = sender[e].job
    BY <2>2, <2>3 DEF Queued
  <2>5. \A i \in Jobs : Sending(i) <=> Sending(i)' \/ i = sender[e].job
    BY <1>0, <2>1 DEF Sending, At, Idle
  <2>6. \A i \in Jobs : InHand(i)' <=> InHand(i)
    BY <2>1, <2>4, <2>5 DEF InHand
  <2> QED  BY <1>2, <2>1, <2>6
<1>4. ASSUME NEW j \in Jobs, active' = [active EXCEPT ![addr[j]] = NoJob], addr' = addr,
             InHand(j), \A i \in Jobs : InHand(i)' <=> InHand(i) /\ i # j
      PROVE  KeysMatch'
  <2>1. /\ active[addr[j]] = j /\ active'[addr[j]] = NoJob
        /\ \A b \in Addresses \ {addr[j]} : active'[b] = active[b]
    BY <1>0, <1>4, Shapes
  <2>2. ASSUME NEW b \in Addresses, NEW i \in Jobs
        PROVE  active'[b] = i <=> addr'[i] = b /\ InHand(i)'
    <3>1. CASE b = addr[j]
      BY <1>0, <1>4, <2>1, <3>1
    <3>2. CASE b # addr[j]
      BY <1>4, <2>1, <3>2
    <3> QED  BY <3>1, <3>2
  <2> QED  BY <2>2
<1>5. ASSUME NEW e \in Enqueuers, QueueFull(e)
      PROVE  KeysMatch'
  <2>1. PICK j \in Jobs : sender[e].job = j
    BY <1>5, Hands DEF QueueFull, Idle
  <2>2. /\ sender[e] = At("send", j) /\ sender[e] # Idle
        /\ sender'[e].pc = "reject" /\ \A f \in Enqueuers \ {e} : sender'[f] = sender[f]
        /\ queue' = queue /\ addr' = addr /\ worker' = worker
        /\ active' = [active EXCEPT ![addr[j]] = NoJob]
    BY <1>5, <2>1, Shapes, Hands DEF QueueFull, Idle
  <2>3. \A i \in Jobs : Sending(i)' <=> Sending(i) /\ i # j
    <3>1. \A f \in Enqueuers \ {e} : sender[f] # At("send", j)
      BY <2>1, <2>2 DEF OneHolder, At
    <3> QED  BY <2>2, <3>1 DEF Sending, At
  <2>4. ~Queued(j) /\ worker.job # j
    BY <2>1, <2>2 DEF OneHolder, Queued
  <2>5. Sending(j)
    BY <2>2 DEF Sending
  <2>6. InHand(j) /\ \A i \in Jobs : InHand(i)' <=> InHand(i) /\ i # j
    BY <2>2, <2>3, <2>4, <2>5 DEF InHand, Queued
  <2> QED  BY <1>4, <2>2, <2>6
<1>6. ASSUME NEW e \in Enqueuers, Reject(e)
      PROVE  KeysMatch'
  <2>1. \A f \in Enqueuers, i \in Jobs : sender'[f] = At("send", i) <=> sender[f] = At("send", i)
    BY <1>6, Shapes DEF Reject, At, Idle
  <2>2. UNCHANGED <<queue, worker, active, addr>>
    BY <1>6 DEF Reject
  <2>3. \A i \in Jobs : InHand(i)' <=> InHand(i)
    BY <2>1, <2>2 DEF InHand, Sending, Queued
  <2> QED  BY <1>2, <2>2, <2>3
<1>7. CASE Receive
  <2>1. /\ Len(queue) > 0 /\ worker.job = NoJob /\ worker'.job = queue[1] /\ 1 \in DOMAIN queue
        /\ UNCHANGED <<sender, active, addr>>
    BY <1>7, Shapes DEF Receive, At, Idle
  <2>2. /\ \A k \in DOMAIN queue' : queue'[k] = queue[k + 1] /\ k + 1 \in DOMAIN queue
        /\ \A k \in DOMAIN queue : k # 1 => k - 1 \in DOMAIN queue' /\ queue'[k - 1] = queue[k]
    BY <1>7, <2>1, Shapes DEF Receive
  <2>3. \A i \in Jobs : Queued(i) <=> Queued(i)' \/ queue[1] = i
    BY <2>1, <2>2 DEF Queued
  <2>4. \A i \in Jobs : InHand(i)' <=> InHand(i)
    BY <1>0, <2>1, <2>3 DEF InHand, Sending
  <2> QED  BY <1>2, <2>1, <2>4
<1>8. CASE Release
  <2>1. PICK j \in Jobs : worker.job = j
    BY <1>8, Hands DEF Release, Idle
  <2>2. /\ worker'.job = NoJob /\ active' = [active EXCEPT ![addr[j]] = NoJob]
        /\ UNCHANGED <<sender, queue, addr>>
    BY <1>8, <2>1 DEF Release, Idle
  <2>3. ~Sending(j)
    BY <1>0, <2>1, Hands DEF Sending, OneHolder, At, Idle
  <2>4. ~Queued(j)
    BY <2>1 DEF Queued, OneHolder
  <2>5. InHand(j) /\ \A i \in Jobs : InHand(i)' <=> InHand(i) /\ i # j
    BY <1>0, <2>1, <2>2, <2>3, <2>4 DEF InHand, Sending, Queued
  <2> QED  BY <1>4, <2>2, <2>5
<1>9. CASE Crash
  <2>1. /\ queue' = <<>> /\ worker'.job = NoJob /\ \A f \in Enqueuers : sender'[f] = Idle
        /\ \A b \in Addresses : active'[b] = NoJob
    BY <1>9 DEF Crash, Idle
  <2>2. \A i \in Jobs : ~InHand(i)'
    BY <1>0, <2>1 DEF InHand, Sending, Queued, At, Idle
  <2> QED  BY <1>0, <2>1, <2>2
<1>10. CASE Kept
  <2>1. UNCHANGED <<active, addr>> /\ \A i \in Jobs : InHand(i)' <=> InHand(i)
    BY <1>10 DEF Kept, InHand, Sending, Queued
  <2> QED  BY <1>2, <2>1
<1> QED  BY <1>1, <1>3, <1>5, <1>6, <1>7, <1>8, <1>9, <1>10, StepKinds

LEMMA IInvHolds == Spec => []IInv
<1>1. ASSUME IInv, [Next]_vars PROVE IInv'
  BY <1>1, StepType, StepFresh, StepOneHolder, StepUnheld, StepKeys DEF IInv
<1> QED  BY <1>1, InitHolds, PTL DEF Spec

\* Type correctness of the job manager.
THEOREM TypeCorrect == Spec => []TypeOK
<1>1. IInv => TypeOK
  BY DEF IInv
<1> QED  BY <1>1, IInvHolds, PTL

\* Manager.active holds an address exactly while Enqueue, the queue or the worker
\* holds a job of it: jobs of one address never overlap, and none is locked out by
\* a job that is gone, however calls, stops, outages and crashes interleave.
THEOREM KeysAlwaysMatch == Spec => []KeysMatch
<1>1. IInv => KeysMatch
  BY DEF IInv
<1> QED  BY <1>1, IInvHolds, PTL

\* A recorded result is replaced by nothing but the stale copy of a Stop.
THEOREM ResultsAlwaysStand == Spec => ResultsStand
<1> DEFINE Stands ==
      \A i \in Jobs : status[i] \in Result =>
          \/ status'[i] = status[i]
          \/ status'[i] = "stopped" /\ \E s \in Stoppers : stopper[s] = At("save", i)
<1>1. ASSUME IInv, [Next]_vars PROVE Stands
  <2> SUFFICES ASSUME NEW i \in Jobs, status[i] \in Result, status'[i] # status[i]
               PROVE  status'[i] = "stopped" /\ \E s \in Stoppers : stopper[s] = At("save", i)
    OBVIOUS
  <2> USE <1>1 DEF IInv, docVars, keyVars
  <2>1. ASSUME NEW e \in Enqueuers, NEW a \in Addresses, Enqueue(e, a) PROVE FALSE
    <3>1. i = created + 1
      BY <2>1, Shapes DEF Enqueue
    <3> QED  BY <3>1, Shapes DEF Fresh, Result
  <2>2. ASSUME NEW e \in Enqueuers, Reject(e) PROVE FALSE
    <3>1. i = sender[e].job /\ sender[e] # Idle
      BY <2>2, Shapes DEF Reject, Idle
    <3> QED  BY <3>1 DEF ResultsUnheld
  <2>3. ASSUME NEW s \in Stoppers, StopSave(s)
        PROVE  status'[i] = "stopped" /\ stopper[s] = At("save", i)
    <3>1. i = stopper[s].job /\ stopper[s].pc = "save" /\ status'[i] = "stopped"
      BY <2>3, Shapes DEF StopSave
    <3> QED  BY <3>1, Hands
  <2>4. CASE Recover
    BY <2>4, Shapes DEF Recover, Live, Result
  <2>5. ASSUME NEW st, Write(st), worker.pc \in Working PROVE FALSE
    <3>1. i = worker.job
      BY <2>5, Shapes DEF Write
    <3> QED  BY <2>5, <3>1 DEF ResultsUnheld, Working
  <2>6. CASE MarkRunning \/ Report \/ Finish
    BY <2>5, <2>6 DEF MarkRunning, Report, Finish, Working
  <2>7. CASE UNCHANGED status
    BY <2>7
  <2>8. \/ UNCHANGED status \/ MarkRunning \/ Report \/ Finish \/ Recover
        \/ \E s \in Stoppers : StopSave(s)
        \/ \E e \in Enqueuers : Reject(e) \/ \E a \in Addresses : Enqueue(e, a)
    BY DEF Next, EnqueueStep, StopStep, WorkerStep, Send, QueueFull, StopRead, StopCancel,
           Receive, Load, Abandon, Release, Crash, Outage, vars
  <2> QED  BY <2>1, <2>2, <2>3, <2>4, <2>6, <2>7, <2>8
<1>2. ASSUME IInv, [Next]_vars PROVE [Stands]_vars
  BY <1>1, <1>2
<1> QED  BY <1>2, IInvHolds, PTL DEF Spec, ResultsStand
-----------------------------------------------------------------------------
(* SyncJobs implements SyncService: its initial states are initial states  *)
(* of the service, and each of its steps is a step of the service or       *)
(* leaves the documents, the keys and the open jobs alone.                 *)

RInv == IInv /\ Known

LEMMA StepKnown ==
    ASSUME IInv, Known, [Next]_vars
    PROVE  Known'
<1> USE DEF IInv, Known, docVars, keyVars
<1>1. ASSUME NEW e \in Enqueuers, NEW a \in Addresses, Enqueue(e, a)
      PROVE  Known'
  BY <1>1, Shapes DEF Enqueue, Jobs
<1>2. ASSUME NEW e \in Enqueuers, Reject(e) PROVE Known'
  BY <1>2, Shapes DEF Reject
<1>3. ASSUME NEW s \in Stoppers, StopSave(s) PROVE Known'
  BY <1>3, Shapes DEF StopSave
<1>4. CASE Recover
  BY <1>4, Shapes DEF Recover
<1>5. ASSUME NEW st, Write(st), st # "none", UNCHANGED created PROVE Known'
  BY <1>5, Shapes DEF Write
<1>6. CASE MarkRunning \/ Report \/ Finish
  BY <1>5, <1>6 DEF MarkRunning, Report, Finish, Ended, Result
<1>7. CASE UNCHANGED <<status, created>>
  BY <1>7
<1>8. \/ UNCHANGED <<status, created>> \/ MarkRunning \/ Report \/ Finish \/ Recover
      \/ \E s \in Stoppers : StopSave(s)
      \/ \E e \in Enqueuers : Reject(e) \/ \E a \in Addresses : Enqueue(e, a)
  BY DEF Next, EnqueueStep, StopStep, WorkerStep, Send, QueueFull, StopRead, StopCancel,
         Receive, Load, Abandon, Release, Crash, Outage, vars
<1> QED  BY <1>1, <1>2, <1>3, <1>4, <1>6, <1>7, <1>8

LEMMA RInvHolds == Spec => []RInv
<1>1. ASSUME Init PROVE Known
  BY <1>1 DEF Init, Known, Jobs
<1>2. ASSUME IInv, Known, [Next]_vars PROVE Known'
  BY <1>2, StepKnown
<1>3. IInv /\ Known <=> RInv
  BY DEF RInv
<1> QED  BY <1>1, <1>2, <1>3, IInvHolds, PTL DEF Spec
-----------------------------------------------------------------------------
Same == UNCHANGED <<status, addr, created, active>>

\* The job of a hand is open, and leaving that hand closes it.
LEMMA SenderOpen ==
    ASSUME IInv, NEW e \in Enqueuers, NEW i \in Jobs, sender[e].job = i
    PROVE  i \in Open
BY DEF Open

LEMMA SenderCloses ==
    ASSUME IInv, NEW e \in Enqueuers, NEW i \in Jobs, sender[e].job = i,
           sender' = [sender EXCEPT ![e] = Idle], UNCHANGED <<queue, worker>>
    PROVE  Open' = Open \ {i}
<1> USE DEF IInv
<1>1. /\ \A f \in Enqueuers : f # e => sender[f].job # i
      /\ ~Queued(i) /\ worker.job # i
  BY Hands DEF OneHolder, Queued
<1>2. \A f \in Enqueuers : sender'[f] = IF f = e THEN Idle ELSE sender[f]
  BY Shapes
<1>3. NoJob \notin Jobs
  BY Hands
<1> QED  BY <1>1, <1>2, <1>3 DEF Open, Queued, Idle

LEMMA WorkerCloses ==
    ASSUME IInv, NEW i \in Jobs, worker.job = i, worker.pc # "release",
           worker' = [worker EXCEPT !.pc = "release"], UNCHANGED <<queue, sender>>
    PROVE  i \in Open /\ Open' = Open \ {i}
<1> USE DEF IInv
<1>1. (\A f \in Enqueuers : sender[f].job # i) /\ ~Queued(i)
  BY Hands DEF OneHolder, Queued
<1>2. worker'.pc = "release" /\ worker'.job = i
  BY Hands DEF TypeOK, Idle
<1> QED  BY <1>1, <1>2 DEF Open, Queued

LEMMA WorkerKeeps ==
    ASSUME IInv, worker'.job = worker.job,
           worker'.pc # "release", worker.pc # "release", UNCHANGED <<queue, sender>>
    PROVE  Open' = Open
BY DEF Open, Queued

LEMMA StepSend ==
    ASSUME IInv, NEW e \in Enqueuers, Send(e)
    PROVE  Same /\ Open' = Open
<1> USE DEF IInv, docVars
<1>1. PICK i \in Jobs : sender[e].job = i /\ sender[e] # Idle
  BY Hands DEF Send, Idle
<1>2. /\ queue' = Append(queue, i) /\ UNCHANGED <<worker, status, addr, created, active>>
      /\ sender' = [sender EXCEPT ![e] = Idle]
  BY <1>1 DEF Send
<1>3. \A f \in Enqueuers : sender'[f] = IF f = e THEN Idle ELSE sender[f]
  BY <1>2, Shapes
<1>4. \A j \in Jobs : Queued(j)' <=> Queued(j) \/ j = i
  <2>1. Len(queue) \in Nat /\ DOMAIN queue = 1 .. Len(queue)
    BY Shapes
  <2>2. /\ \A k \in 1 .. Len(queue) : queue'[k] = queue[k]
        /\ queue'[Len(queue) + 1] = i
        /\ DOMAIN queue' = 1 .. Len(queue) + 1
    BY <1>2, Shapes
  <2>3. ASSUME NEW j \in Jobs, Queued(j)' PROVE Queued(j) \/ j = i
    <3>1. PICK k \in 1 .. Len(queue) + 1 : queue'[k] = j
      BY <2>2, <2>3 DEF Queued
    <3>2. k = Len(queue) + 1 \/ k \in 1 .. Len(queue)
      BY <2>1
    <3> QED  BY <2>1, <2>2, <3>1, <3>2 DEF Queued
  <2>4. ASSUME NEW j \in Jobs, Queued(j) PROVE Queued(j)'
    <3>1. PICK k \in 1 .. Len(queue) : queue[k] = j
      BY <2>1, <2>4 DEF Queued
    <3>2. k \in 1 .. Len(queue) + 1 /\ queue'[k] = j
      BY <2>1, <2>2, <3>1
    <3> QED  BY <2>2, <3>2 DEF Queued
  <2>5. Len(queue) + 1 \in 1 .. Len(queue) + 1
    BY <2>1
  <2>6. Queued(i)'
    BY <2>2, <2>5 DEF Queued
  <2> QED  BY <2>3, <2>4, <2>6
<1>5. NoJob \notin Jobs
  BY Hands
<1> QED  BY <1>1, <1>2, <1>3, <1>4, <1>5 DEF Open, Idle, Same

LEMMA StepReceive ==
    ASSUME IInv, Receive
    PROVE  Same /\ Open' = Open
<1> USE DEF IInv, docVars
<1>1. /\ queue' = Tail(queue) /\ queue # <<>> /\ worker = Idle
      /\ worker'.job = Head(queue) /\ worker'.pc = "load"
      /\ UNCHANGED <<sender, status, addr, created, active>>
  BY DEF Receive, At
<1>2. \A j \in Jobs : Queued(j) <=> Queued(j)' \/ j = Head(queue)
  <2>1. Len(queue) \in Nat \ {0} /\ DOMAIN queue = 1 .. Len(queue)
    BY <1>1, Shapes
  <2>2. Len(queue') = Len(queue) - 1 /\ \A k \in 1 .. Len(queue) - 1 : queue'[k] = queue[k + 1]
    BY <1>1, <2>1, Shapes
  <2>3. DOMAIN queue' = 1 .. Len(queue) - 1
    BY <1>1, <2>1, <2>2, Shapes
  <2>4. Head(queue) = queue[1]
    BY <1>1, Shapes
  <2>5. ASSUME NEW j \in Jobs, Queued(j) PROVE Queued(j)' \/ j = Head(queue)
    <3>1. PICK k \in 1 .. Len(queue) : queue[k] = j
      BY <2>1, <2>5 DEF Queued
    <3>2. CASE k = 1
      BY <2>4, <3>1, <3>2
    <3>3. CASE k # 1
      <4>1. k - 1 \in 1 .. Len(queue) - 1 /\ queue'[k - 1] = j
        BY <2>1, <2>2, <3>1, <3>3
      <4> QED  BY <2>3, <4>1 DEF Queued
    <3> QED  BY <3>2, <3>3
  <2>6. ASSUME NEW j \in Jobs, Queued(j)' \/ j = Head(queue) PROVE Queued(j)
    <3>1. CASE j = Head(queue)
      BY <2>1, <2>4, <3>1 DEF Queued
    <3>2. CASE Queued(j)'
      <4>1. PICK k \in 1 .. Len(queue) - 1 : queue'[k] = j
        BY <2>3, <3>2 DEF Queued
      <4>2. k + 1 \in 1 .. Len(queue) /\ queue[k + 1] = j
        BY <2>1, <2>2, <4>1
      <4> QED  BY <2>1, <4>2 DEF Queued
    <3> QED  BY <2>6, <3>1, <3>2
  <2> QED  BY <2>5, <2>6
<1>3. NoJob \notin Jobs
  BY Hands
<1> QED  BY <1>1, <1>2, <1>3 DEF Open, Idle, Same
-----------------------------------------------------------------------------
\* Steps of the Enqueue and Stop calls.
LEMMA CallsImplement ==
    ASSUME RInv,
           \/ \E e \in Enqueuers : (\E a \in Addresses : Enqueue(e, a)) \/ QueueFull(e) \/ Reject(e)
           \/ \E s \in Stoppers : StopSave(s)
    PROVE  Service!Next \/ (Same /\ Open' = Open)
<1> USE DEF RInv, IInv, docVars, keyVars, Same, Service!Jobs, Jobs
<1>1. ASSUME NEW e \in Enqueuers, NEW a \in Addresses, Enqueue(e, a)
      PROVE  Service!Enqueue(a)
  <2>1. sender[e] = Idle /\ sender' = [sender EXCEPT ![e] = At("send", created')]
        /\ UNCHANGED <<queue, worker>>
    BY <1>1 DEF Enqueue
  <2>2. \A f \in Enqueuers : sender'[f] = IF f = e THEN At("send", created') ELSE sender[f]
    BY <2>1, Shapes
  <2>3. created' \in Jobs
    <3>1. created \in 0 .. MaxJobs /\ created < MaxJobs /\ created' = created + 1
      BY <1>1 DEF Enqueue, TypeOK
    <3> QED  BY <3>1, ConstantsAssumption DEF Jobs
  <2>4. NoJob \notin Jobs
    BY Hands
  <2>5. Open' = Open \cup {created'}
    BY <2>1, <2>2, <2>3, <2>4 DEF Open, Queued, At, Idle
  <2> QED  BY <1>1, <2>5 DEF Enqueue, Service!Enqueue, NoJob, Service!NoJob
<1>2. ASSUME NEW e \in Enqueuers, QueueFull(e)
      PROVE  \E a \in Addresses : Service!Release(a)
  <2>1. PICK i \in Jobs : sender[e] = At("send", i) /\ sender[e].job = i
    BY <1>2, Hands DEF QueueFull, Idle
  <2>2. addr[i] \in Addresses /\ active[addr[i]] = i /\ i # NoJob
    BY <2>1, Hands DEF KeysMatch, InHand, Sending, TypeOK
  <2>3. \A f \in Enqueuers : sender'[f].job = sender[f].job
    BY <1>2, <2>1, Shapes DEF QueueFull, At
  <2>4. Open' = Open
    BY <1>2, <2>3 DEF QueueFull, Open, Queued
  <2> QED  BY <1>2, <2>1, <2>2, <2>4 DEF QueueFull, Service!Release, NoJob, Service!NoJob
<1>3. ASSUME NEW e \in Enqueuers, Reject(e)
      PROVE  \E i \in Jobs : Service!Finish(i, "failed") \/ Service!Abandon(i)
  <2>1. PICK i \in Jobs : sender[e].job = i
    BY <1>3, Hands DEF Reject, Idle
  <2>2. i \in Open /\ Open' = Open \ {i}
    BY <1>3, <2>1, SenderOpen, SenderCloses DEF Reject
  <2> QED  BY <1>3, <2>1, <2>2 DEF Reject, Service!Finish, Service!Abandon
<1>4. ASSUME NEW s \in Stoppers, StopSave(s)
      PROVE  (Same /\ Open' = Open) \/ \E i \in Jobs : Service!Stop(i)
  <2>1. PICK i \in Jobs : stopper[s].job = i
    BY <1>4, Hands DEF StopSave, Idle
  <2>2. status[i] # "none"
    BY <2>1 DEF Fresh, Known
  <2>3. Open' = Open
    BY <1>4 DEF StopSave, Open, Queued
  <2> QED  BY <1>4, <2>1, <2>2, <2>3 DEF StopSave, Service!Stop
<1> QED  BY <1>1, <1>2, <1>3, <1>4 DEF Service!Next

\* Steps of the worker, and of the process.
LEMMA WorkerImplements ==
    ASSUME RInv, Load \/ MarkRunning \/ Report \/ Finish \/ Abandon \/ Release \/ Recover \/ Crash
    PROVE  Service!Next \/ (Same /\ Open' = Open)
<1> USE DEF RInv, IInv, docVars, keyVars, Same
<1>1. ASSUME worker.pc \in Working, NEW i \in Jobs, worker.job = i,
             worker' = [worker EXCEPT !.pc = "release"], UNCHANGED <<queue, sender, addr, created, active>>,
             UNCHANGED status \/ \E st \in Result \cup {"failed"} : Write(st)
      PROVE  Service!Next
  <2>1. i \in Open /\ Open' = Open \ {i}
    BY <1>1, WorkerCloses DEF Working
  <2>2. CASE UNCHANGED status
    BY <1>1, <2>1, <2>2 DEF Service!Next, Service!Abandon, Service!Jobs, Jobs
  <2>3. ASSUME NEW st \in Result \cup {"failed"}, status' = [status EXCEPT ![i] = st]
        PROVE  Service!Next
    <3>1. Service!Finish(i, st)
      BY <1>1, <2>1, <2>3 DEF Service!Finish
    <3> QED  BY <3>1, <1>1 DEF Service!Next, Service!Jobs, Jobs, Result, Service!Result
  <2> QED  BY <1>1, <2>2, <2>3 DEF Write
<1>2. ASSUME worker.pc \in Working
      PROVE  \E i \in Jobs : worker.job = i
  BY <1>2, Hands DEF Working, Idle
<1>3. ASSUME Load PROVE Service!Next \/ (Same /\ Open' = Open)
  <2>1. CASE worker' = [worker EXCEPT !.pc = "release"]
    BY <1>1, <1>2, <1>3, <2>1 DEF Load, Working
  <2>2. CASE worker' = [worker EXCEPT !.pc = "mark"]
    <3>1. worker'.job = worker.job /\ worker'.pc = "mark"
      BY <1>3, <2>2, Hands DEF Load, TypeOK, Idle
    <3> QED  BY <1>3, <3>1, WorkerKeeps DEF Load
  <2> QED  BY <1>3, <2>1, <2>2 DEF Load
<1>4. ASSUME NEW i \in Jobs, worker.job = i, worker.pc \in Working, Open' = Open,
             UNCHANGED <<addr, created, active>>, Write("running")
      PROVE  Service!Next \/ (Same /\ Open' = Open)
  <2>1. i \in Open
    BY <1>4 DEF Open, Working
  <2> QED  BY <1>4, <2>1 DEF Write, Service!Next, Service!Run, Service!Jobs, Jobs
<1>5. ASSUME MarkRunning PROVE Service!Next \/ (Same /\ Open' = Open)
  <2>1. CASE reachable
    <3>1. worker'.job = worker.job /\ worker'.pc = "work"
      BY <1>5, <2>1, Hands DEF MarkRunning, TypeOK, Idle
    <3>2. Open' = Open
      BY <1>5, <3>1, WorkerKeeps DEF MarkRunning
    <3> QED  BY <1>2, <1>4, <1>5, <3>2 DEF MarkRunning, Working
  <2>2. CASE ~reachable
    BY <1>1, <1>2, <1>5, <2>2 DEF MarkRunning, Write, Working
  <2> QED  BY <2>1, <2>2
<1>6. ASSUME Report PROVE Service!Next \/ (Same /\ Open' = Open)
  <2>1. Open' = Open
    BY <1>6 DEF Report, Open, Queued
  <2> QED  BY <1>2, <1>4, <1>6, <2>1 DEF Report, Working
<1>7. ASSUME Finish PROVE Service!Next
  BY <1>1, <1>2, <1>7 DEF Finish, Working, Ended
<1>8. ASSUME Abandon PROVE Service!Next
  BY <1>1, <1>2, <1>8 DEF Abandon, Working
<1>9. ASSUME Release PROVE Service!Next
  <2>1. PICK i \in Jobs : worker.job = i
    BY <1>9, Hands DEF Release, Idle
  <2>2. addr[i] \in Addresses /\ active[addr[i]] = i /\ i # NoJob
    BY <2>1, Hands DEF KeysMatch, InHand, TypeOK
  <2>3. Open' = Open
    BY <1>9, Hands DEF Release, Open, Queued, Idle
  <2>4. Service!Release(addr[i])
    BY <1>9, <2>1, <2>2, <2>3 DEF Release, Service!Release, NoJob, Service!NoJob
  <2> QED  BY <2>2, <2>4 DEF Service!Next
<1>10. ASSUME Recover PROVE Service!Next \/ (Same /\ Open' = Open)
  <2>1. Open' = Open
    BY <1>10 DEF Recover, Open, Queued
  <2>2. (Same /\ Open' = Open) \/ Service!Sweep
    BY <1>10, <2>1 DEF Recover, Service!Sweep, Live, Service!Live, Service!Jobs, Jobs
  <2> QED  BY <2>2 DEF Service!Next
<1>11. ASSUME Crash PROVE Service!Next
  <2>1. queue' = <<>> /\ worker'.job = NoJob /\ \A e \in Enqueuers : sender'[e].job = NoJob
    BY <1>11 DEF Crash, Idle
  <2>2. Open' = {}
    BY <2>1, Hands DEF Open, Queued
  <2> QED  BY <1>11, <2>2 DEF Crash, Service!Next, Service!Restart, NoJob, Service!NoJob
<1> QED  BY <1>3, <1>5, <1>6, <1>7, <1>8, <1>9, <1>10, <1>11

LEMMA StepImplements ==
    ASSUME RInv, [Next]_vars
    PROVE  Service!Next \/ (Same /\ Open' = Open)
<1>1. CASE \/ \E e \in Enqueuers : (\E a \in Addresses : Enqueue(e, a)) \/ QueueFull(e) \/ Reject(e)
           \/ \E s \in Stoppers : StopSave(s)
  BY <1>1, CallsImplement
<1>2. CASE Load \/ MarkRunning \/ Report \/ Finish \/ Abandon \/ Release \/ Recover \/ Crash
  BY <1>2, WorkerImplements
<1>3. CASE Receive \/ \E e \in Enqueuers : Send(e)
  BY <1>3, StepReceive, StepSend DEF RInv
<1>4. CASE UNCHANGED <<status, addr, created, active, sender, queue, worker>>
  BY <1>4 DEF Same, Open, Queued
<1>5. \/ \E s \in Stoppers : StopSave(s)
      \/ \E e \in Enqueuers : (\E a \in Addresses : Enqueue(e, a)) \/ EnqueueStep(e)
      \/ Receive \/ Load \/ MarkRunning \/ Report \/ Finish \/ Abandon \/ Release \/ Recover \/ Crash
      \/ UNCHANGED <<status, addr, created, active, sender, queue, worker>>
  BY DEF Next, StopStep, WorkerStep, StopRead, StopCancel, Outage, vars, docVars, keyVars
<1> QED  BY <1>1, <1>2, <1>3, <1>4, <1>5 DEF EnqueueStep

\* Every behaviour of the job manager is one of the service the trace manager is
\* built on, for any number of callers, stops, addresses and jobs.
THEOREM Implements == Spec => ImplementsService
<1>1. ASSUME Init PROVE Service!Init
  <2>1. queue = <<>> /\ worker.job = NoJob /\ \A e \in Enqueuers : sender[e].job = NoJob
    BY <1>1 DEF Init, Idle
  <2>2. Open = {}
    BY <2>1 DEF Open, Queued, Jobs, NoJob
  <2> QED  BY <1>1, <2>2 DEF Init, Service!Init, Jobs, Service!Jobs, NoJob, Service!NoJob
<1>2. ASSUME RInv, [Next]_vars PROVE [Service!Next]_(Service!vars)
  BY <1>2, StepImplements DEF Service!vars, Same
<1> QED  BY <1>1, <1>2, RInvHolds, PTL DEF Spec, ImplementsService, Service!Spec
=============================================================================
