--------------------------- MODULE RecentSyncProofs ---------------------------
(***************************************************************************)
(* The limited synchroniser, for any number of actions, limit, jobs and    *)
(* length of the chain: its count of records never passes the limit or     *)
(* the records there are, a limit reached ends its claims, and until a     *)
(* retry is misled its claims and checkpoints lie over stored records.     *)
(***************************************************************************)
EXTENDS RecentSync, CoverageProofs, FiniteSetTheorems

Reports == [act : Nat, lo : Int, hi : Int]
Docs    == [status : JobStatus, end : Nat, ckpt : [Actions -> Int], prog : Reports]

Places == {"idle", "queued", "lookup", "gap", "list", "persist", "count", "complete"}

\* The parts of TypeOK.
WorldType == busy \in Chains /\ head \in MinBlock .. MaxBlock
DbType ==
    /\ cover \in [Actions -> Ranges] /\ status \in AddressStatus
    /\ counted \in BOOLEAN /\ counts \in [Actions -> Nat]
    /\ stored \in [Actions -> SUBSET (0 .. MaxBlock)]
DocType ==
    /\ docs \in [Starts -> Docs] /\ jobs \in 0 .. MaxJobs
    /\ cur \in Starts \cup {0} /\ (pc # "idle" => cur \in Starts)
WorkType ==
    /\ pc \in Places /\ mem \in [Actions -> Int] /\ prog \in Reports
    /\ handed \in BOOLEAN /\ safeHead \in Nat /\ trunc \in BOOLEAN /\ cancelled \in BOOLEAN
ListType ==
    /\ act \in Actions /\ pos \in Int /\ lo \in Int /\ hi \in Int /\ low \in Int /\ top \in Int
    /\ room \in 0 .. Limit /\ inserted \in Nat
    /\ ending \in {"whole", "page", "cut"}
HistoryType == reach \in [Starts -> Nothing .. Unbounded] /\ misled \in BOOLEAN

LEMMA TypeParts == TypeOK <=> WorldType /\ DbType /\ DocType /\ WorkType /\ ListType /\ HistoryType
BY DEF TypeOK, HistoryType, WorldType, DbType, DocType, WorkType, ListType, Ranges, Reports, Docs, Places

LEMMA TypePartsNext ==
    WorldType' /\ DbType' /\ DocType' /\ WorkType' /\ ListType' /\ HistoryType' => TypeOK'
BY DEF TypeOK, HistoryType, WorldType, DbType, DocType, WorkType, ListType, Ranges, Reports, Docs, Places

LEMMA TypePartsPrimed == TypeOK' => WorkType'
BY TypeParts, PTL

LEMMA Constants ==
    /\ 1 \in Actions /\ Actions \subseteq Nat /\ NumActions \in Nat
    /\ Starts \subseteq Nat /\ MinBlock \in Nat /\ MaxBlock \in Nat /\ MinBlock <= MaxBlock
    /\ Limit \in Nat /\ 0 < Limit /\ MaxJobs \in Nat
    /\ \A r \in Requests : r[1] \in Starts /\ r[2] \in Nat
    /\ Nothing = -1 /\ Unbounded = MaxBlock + 1
    /\ NoCheckpoints \in [Actions -> Int] /\ NoProgress \in Reports /\ NoCoverage \in Ranges
BY ConstantsAssumption DEF Actions, Starts, Nothing, Unbounded, NoCheckpoints, NoCheckpoint, NoProgress, Reports, NoCoverage, Ranges
-----------------------------------------------------------------------------
(* Counting records *)

LEMMA RecordsType ==
    ASSUME busy \in Chains, NEW x \in Actions, NEW B
    PROVE  Records(x, B) \in Nat /\ IsFiniteSet(B \cap busy[x])
<1>1. busy[x] \subseteq 0 .. MaxBlock
  BY ConstantsAssumption DEF Actions
<1>2. IsFiniteSet(0 .. MaxBlock)
  BY Constants, FS_Interval
<1>3. IsFiniteSet(B \cap busy[x])
  <2>1. B \cap busy[x] \in SUBSET (0 .. MaxBlock)
    BY <1>1
  <2> QED  BY <1>2, <2>1, FS_Subset
<1> QED  BY <1>3, FS_CardinalityType DEF Records

LEMMA RecordsGrow ==
    ASSUME busy \in Chains, NEW x \in Actions, NEW B, NEW C, B \subseteq C
    PROVE  Records(x, B) <= Records(x, C)
<1>1. B \cap busy[x] \in SUBSET (C \cap busy[x]) /\ IsFiniteSet(C \cap busy[x])
  BY RecordsType
<1> QED  BY <1>1, FS_Subset DEF Records

LEMMA RecordsAdd ==
    ASSUME busy \in Chains, NEW x \in Actions, NEW B, NEW C, B \cap C = {}
    PROVE  Records(x, B \cup C) = Records(x, B) + Records(x, C)
<1> DEFINE P == B \cap busy[x]
           Q == C \cap busy[x]
<1>1. IsFiniteSet(P) /\ IsFiniteSet(Q)
  BY RecordsType
<1>2. Cardinality(P \cup Q) = Cardinality(P) + Cardinality(Q) - Cardinality(P \cap Q)
  BY <1>1, FS_Union
<1>3. Cardinality(P \cap Q) = 0
  <2>1. P \cap Q = {}
    OBVIOUS
  <2> QED  BY <2>1, FS_EmptySet
<1>4. (B \cup C) \cap busy[x] = P \cup Q
  OBVIOUS
<1>5. /\ Records(x, B) = Cardinality(P) /\ Records(x, C) = Cardinality(Q)
      /\ Records(x, B \cup C) = Cardinality(P \cup Q)
  BY <1>4 DEF Records
<1>6. Cardinality(P) \in Nat /\ Cardinality(Q) \in Nat
  BY <1>1, FS_CardinalityType
<1> HIDE DEF P, Q
<1> QED  BY <1>2, <1>3, <1>5, <1>6

\* What is left of an interval, and what was taken from its upper end.
LEMMA RecordsSplit ==
    ASSUME busy \in Chains, NEW x \in Actions, NEW l \in Int, NEW b \in Int, NEW t \in Int, l <= b, b <= t
    PROVE  Records(x, l .. t) = Records(x, l .. b - 1) + Records(x, b .. t)
<1>1. l .. t = (l .. b - 1) \cup (b .. t) /\ (l .. b - 1) \cap (b .. t) = {}
  OBVIOUS
<1> QED  BY <1>1, RecordsAdd

\* A batch adds the records that were not stored before.
LEMMA RecordsInserted ==
    ASSUME busy \in Chains, NEW x \in Actions, NEW S, NEW B
    PROVE  /\ Records(x, S \cup B) = Records(x, S) + Records(x, B \ S)
           /\ Records(x, B \ S) <= Records(x, B)
<1>1. S \cup B = S \cup (B \ S) /\ S \cap (B \ S) = {} /\ B \ S \subseteq B
  OBVIOUS
<1> QED  BY <1>1, RecordsAdd, RecordsGrow
-----------------------------------------------------------------------------
(* What the shared parts of the actions do *)

\* A write of the documents that leaves the end blocks alone.
SameEnds == docs' \in [Starts -> Docs] /\ \A s \in Starts : docs'[s].end = docs[s].end

LEMMA SaveEffect ==
    ASSUME DocType, pc # "idle", NEW st \in JobStatus, NEW m \in [Actions -> Int], NEW p \in Reports,
           Save(st, m, p)
    PROVE  /\ SameEnds
           /\ \A s \in Starts : docs'[s].ckpt = docs[s].ckpt \/ (s = cur /\ docs'[s].ckpt = m)
<1>1. docs \in [Starts -> Docs] /\ cur \in Starts
  BY DEF DocType
<1>2. CASE UNCHANGED docs
  BY <1>1, <1>2 DEF SameEnds
<1>3. CASE docs' = [docs EXCEPT ![cur] = [@ EXCEPT !.status = st, !.ckpt = m, !.prog = p]]
  <2> DEFINE d == [docs[cur] EXCEPT !.status = st, !.ckpt = m, !.prog = p]
  <2>1. d \in Docs /\ d.end = docs[cur].end /\ d.ckpt = m
    BY <1>1 DEF Docs
  <2>2. docs' = [docs EXCEPT ![cur] = d]
    BY <1>3
  <2> HIDE DEF d
  <2> QED  BY <1>1, <2>1, <2>2 DEF SameEnds
<1> QED  BY <1>2, <1>3 DEF Save

LEMMA SameDocs ==
    ASSUME DocType, UNCHANGED docs
    PROVE  SameEnds
BY DEF SameEnds, DocType

LEMMA LegacyType ==
    ASSUME DocType, NEW s \in Starts
    PROVE  Legacy(s) \in [Actions -> Int]
<1>1. docs[s] \in Docs
  BY DEF DocType
<1>2. docs[s].prog.hi \in Int /\ docs[s].prog.lo - 1 \in Int /\ NoCheckpoint \in Int
  BY <1>1, Constants DEF Docs, Reports, NoCheckpoint
<1> QED  BY <1>2 DEF Legacy

LEMMA CheckpointsType ==
    ASSUME DocType, NEW s \in Starts
    PROVE  FindSyncCheckpoints(s) \in [Actions -> Int]
BY Constants, LegacyType DEF FindSyncCheckpoints, DocType, Docs

LEMMA LeaveEffect ==
    ASSUME Leave
    PROVE  /\ WorkType' /\ ListType'
           /\ pc' = "idle" /\ cur' = 0 /\ ~trunc' /\ inserted' = 0
<1>1. WorkType'
  BY Constants DEF Leave, WorkType, Places
<1>2. ListType'
  BY Constants DEF Leave, LeaveListing, ListType
<1> QED  BY <1>1, <1>2 DEF Leave, LeaveListing

\* Outside the loop nothing is listed.
LEMMA Quiet ==
    ASSUME pc' \in {"idle", "queued", "lookup"}, ~trunc', inserted' = 0
    PROVE  LimitHeld' /\ PlaceOK' /\ RoomHeld'
BY DEF LimitHeld, PlaceOK, RoomHeld, Fetching, Looping

LEMMA WasQuiet ==
    ASSUME CountInv, pc \in {"idle", "queued", "lookup"}
    PROVE  ~trunc /\ inserted = 0
BY TypeParts DEF CountInv, LimitHeld, RoomHeld, WorkType, Looping, Fetching

LEMMA CoverKept ==
    ASSUME CountInv, UNCHANGED cover
    PROVE  CoverPlaced'
BY DEF CountInv, CoverPlaced

LEMMA CountsKept ==
    ASSUME CountInv, UNCHANGED <<busy, counts, stored>>
    PROVE  CountsHonest'
BY DEF CountInv, CountsHonest, Records

\* The window of the job in process.
LEMMA WindowShape ==
    ASSUME CountInv, pc \in Looping \cup {"complete"}
    PROVE  /\ cur \in Starts /\ cur \in Nat
           /\ WindowEnd(safeHead) \in Nat /\ cur <= WindowEnd(safeHead) /\ WindowEnd(safeHead) <= MaxBlock
           /\ Want = <<cur, WindowEnd(safeHead)>> /\ Want \in Ranges
<1>1. /\ safeHead \in MinBlock .. head /\ cur <= WindowEnd(safeHead) /\ head \in MinBlock .. MaxBlock
      /\ cur \in Starts /\ docs[cur] \in Docs
  BY TypeParts DEF CountInv, PlaceOK, WorldType, DocType, Looping, Fetching
<1>2. cur \in Nat /\ docs[cur].end \in Nat
  BY <1>1, Constants DEF Docs
<1>3. WindowEnd(safeHead) \in Nat /\ WindowEnd(safeHead) <= MaxBlock
  BY <1>1, <1>2, Constants DEF WindowEnd, Lesser, doc
<1> QED  BY <1>1, <1>2, <1>3 DEF Want, Window, Ranges

\* A gap left lies inside the chain.
LEMMA GapShape ==
    ASSUME CountInv, pc = "gap", NEW g \in GapsLeft
    PROVE  g[1] \in Nat /\ g[2] \in Int /\ g[2] <= MaxBlock
<1> DEFINE e == WindowEnd(safeHead)
<1>1. cur \in Nat /\ e \in Nat /\ e <= MaxBlock /\ Want = <<cur, e>>
  BY WindowShape DEF Looping
<1>2. /\ cover[act] \in Ranges
      /\ Valid(cover[act]) => 0 <= cover[act][1] /\ cover[act][2] <= MaxBlock
  BY TypeParts DEF CountInv, DbType, ListType, CoverPlaced
<1>3. g \in Gaps(Want, cover[act])
  BY DEF GapsLeft
<1> HIDE DEF e
<1> QED  BY <1>1, <1>2, <1>3, Constants DEF Gaps, Ranges, Greater, Valid
-----------------------------------------------------------------------------
(* The counting part of the invariant, preserved action by action *)

LEMMA Same ==
    ASSUME CountInv
    PROVE  /\ WorldType /\ DbType /\ DocType /\ WorkType /\ ListType /\ HistoryType
           /\ UNCHANGED <<busy, head>> => WorldType'
           /\ UNCHANGED dbVars => DbType'
           /\ UNCHANGED <<docVars, cur, pc>> => DocType'
           /\ pc # "idle" => cur \in Starts /\ docs[cur] \in Docs
           /\ pc # "idle" /\ SameEnds /\ UNCHANGED <<jobs, cur>> => DocType'
           /\ UNCHANGED <<pc, workVars, trunc>> => WorkType'
           /\ UNCHANGED listVars => ListType'
           /\ UNCHANGED history => HistoryType'
<1>1. WorldType /\ DbType /\ DocType /\ WorkType /\ ListType /\ HistoryType
  BY TypeParts DEF CountInv
<1> QED
  BY <1>1 DEF WorldType, DbType, DocType, WorkType, ListType, HistoryType, SameEnds, dbVars, docVars,
     workVars, listVars, history

LEMMA CountParts ==
    /\ WorldType' /\ DbType' /\ DocType' /\ WorkType' /\ ListType' /\ HistoryType'
    /\ CountsHonest' /\ CoverPlaced' /\ LimitHeld' /\ PlaceOK' /\ RoomHeld'
    => CountInv'
BY TypePartsNext DEF CountInv

\* The job is over, however it ended.
LEMMA LeaveCount ==
    ASSUME CountInv, Leave, UNCHANGED <<busy, head, jobs, history>>, SameEnds,
           DbType', CountsHonest', CoverPlaced'
    PROVE  CountInv'
<1>1. WorkType' /\ ListType' /\ LimitHeld' /\ PlaceOK' /\ RoomHeld' /\ pc' = "idle" /\ cur' = 0
  BY LeaveEffect, Quiet
<1>2. DocType'
  BY <1>1, Same DEF DocType, SameEnds
<1> QED  BY <1>1, <1>2, Same, CountParts

LEMMA EndEffect ==
    ASSUME CountInv, pc # "idle", Fail \/ Finish(TRUE) \/ Finish(FALSE) \/ Finish(trunc)
    PROVE  /\ Leave /\ UNCHANGED jobs /\ SameEnds
           /\ \A s \in Starts : docs'[s].ckpt = docs[s].ckpt \/ (s = cur /\ docs'[s].ckpt = mem)
<1>1. \E st \in JobStatus : Save(st, mem, prog)
  BY DEF Fail, Finish, JobStatus
<1>2. DocType /\ mem \in [Actions -> Int] /\ prog \in Reports
  BY Same DEF WorkType
<1> QED  BY <1>1, <1>2, SaveEffect DEF Fail, Finish

LEMMA EnqueueCount ==
    ASSUME CountInv, NEW s \in Starts, NEW e \in Nat, Enqueue(s, e)
    PROVE  CountInv'
<1>1. PICK st \in {"queued", "failed"} :
         /\ docs' = [docs EXCEPT ![s] =
                       [status |-> st, end |-> e, ckpt |-> FindSyncCheckpoints(s), prog |-> NoProgress]]
         /\ (pc' = "queued" /\ cur' = s) \/ UNCHANGED <<pc, cur>>
  BY DEF Enqueue
<1>2. /\ pc = "idle" /\ pc' \in {"idle", "queued"} /\ jobs' = jobs + 1 /\ jobs < MaxJobs
      /\ cur' \in Starts \cup {0} /\ (pc' # "idle" => cur' \in Starts)
      /\ UNCHANGED <<busy, head, dbVars, mem, prog, handed, safeHead, cancelled, trunc, listVars>>
  BY <1>1, Same DEF Enqueue, DocType
<1>3. docs' \in [Starts -> Docs]
  <2> DEFINE d == [status |-> st, end |-> e, ckpt |-> FindSyncCheckpoints(s), prog |-> NoProgress]
  <2>1. d \in Docs
    BY Same, CheckpointsType, Constants DEF Docs, JobStatus
  <2>2. docs' = [docs EXCEPT ![s] = d]
    BY <1>1
  <2> HIDE DEF d
  <2> QED  BY <2>1, <2>2, Same DEF DocType
<1>4. DocType'
  BY <1>2, <1>3, Same, Constants DEF DocType
<1>5. WorkType'
  BY <1>2, Same DEF WorkType, Places
<1>6. CoverPlaced' /\ CountsHonest'
  BY <1>2, CountsKept, CoverKept DEF dbVars
<1>7. LimitHeld' /\ PlaceOK' /\ RoomHeld'
  BY <1>2, WasQuiet, Quiet DEF listVars
<1>8. HistoryType'
  <2>1. reach \in [Starts -> Nothing .. Unbounded] /\ misled \in BOOLEAN
    BY Same DEF HistoryType
  <2>2. Unbounded \in Nothing .. Unbounded /\ Nothing \in Nothing .. Unbounded
    BY Constants
  <2> QED  BY <2>1, <2>2 DEF Enqueue, HandOn, HistoryType
<1> QED  BY <1>2, <1>4, <1>5, <1>6, <1>7, <1>8, Same, CountParts

\* More stored records never make a count dishonest.
LEMMA HonestGrows ==
    ASSUME CountInv, UNCHANGED <<busy, counts>>, \A y \in Actions : stored[y] \subseteq stored'[y]
    PROVE  CountsHonest'
<1> SUFFICES ASSUME NEW y \in Actions
             PROVE  counts'[y] <= Limit /\ counts'[y] <= Records(y, stored[y])'
  BY DEF CountsHonest
<1>1. counts[y] \in Nat /\ counts[y] <= Limit /\ counts[y] <= Records(y, stored[y])
  BY Same DEF DbType, CountInv, CountsHonest
<1>2. /\ Records(y, stored[y]) <= Records(y, stored'[y]) /\ Records(y, stored[y]) \in Nat
      /\ Records(y, stored'[y]) \in Nat
  BY Same, RecordsGrow, RecordsType DEF WorldType
<1>3. Records(y, stored[y])' = Records(y, stored'[y])
  BY DEF Records
<1> QED  BY <1>1, <1>2, <1>3

LEMMA CounterpartyCount ==
    ASSUME CountInv, NEW x \in Actions, NEW b \in Shared, CounterpartySync(x, b)
    PROVE  CountInv'
<1>1. /\ pc \in {"idle", "queued"} /\ UNCHANGED <<pc, inserted, trunc, cur>>
      /\ UNCHANGED <<busy, head, docVars, workVars, listVars, cover, status, counted, counts, history>>
      /\ stored' = [stored EXCEPT ![x] = @ \cup {b}]
  BY DEF CounterpartySync, listVars, workVars
<1>2. b \in 0 .. MaxBlock
  BY ConstantsAssumption
<1>3. DbType'
  BY <1>1, <1>2, Same DEF DbType
<1>4. CountsHonest'
  BY <1>1, Same, HonestGrows DEF DbType
<1>5. LimitHeld' /\ PlaceOK' /\ RoomHeld'
  BY <1>1, WasQuiet, Quiet
<1> QED  BY <1>1, <1>3, <1>4, <1>5, CoverKept, Same, CountParts

\* The window stays where it is.
LEMMA WindowKept ==
    ASSUME CountInv, SameEnds, pc # "idle", UNCHANGED <<cur, safeHead>>
    PROVE  WindowEnd(safeHead)' = WindowEnd(safeHead)
BY Same DEF WindowEnd, doc, SameEnds

\* The listing stays where it is, and so does what was written.
LEMMA StillPlaced ==
    ASSUME CountInv, SameEnds,
           UNCHANGED <<busy, head, counts, stored, pc, cur, trunc, safeHead, listVars>>
    PROVE  LimitHeld' /\ PlaceOK' /\ RoomHeld'
<1> USE DEF listVars, CountInv
<1>1. LimitHeld'
  BY DEF LimitHeld, AtLimit
<1>2. PlaceOK'
  <2>1. CASE pc = "idle"
    BY <2>1 DEF PlaceOK, Looping, Fetching
  <2>2. CASE pc # "idle"
    BY <2>2, WindowKept DEF PlaceOK
  <2> QED  BY <2>1, <2>2
<1>3. RoomHeld'
  BY DEF RoomHeld, Records
<1> QED  BY <1>1, <1>2, <1>3

LEMMA StopEffect ==
    ASSUME CountInv, NEW s \in Starts, Stop(s)
    PROVE  SameEnds /\ \A r \in Starts : docs'[r].ckpt = docs[r].ckpt
<1> DEFINE d == [docs[s] EXCEPT !.status = "stopped"]
<1>1. d \in Docs /\ d.end = docs[s].end /\ d.ckpt = docs[s].ckpt
  BY Same DEF DocType, Docs, JobStatus
<1>2. docs' = [docs EXCEPT ![s] = d] /\ docs \in [Starts -> Docs]
  BY Same DEF Stop, DocType
<1> HIDE DEF d
<1> QED  BY <1>1, <1>2 DEF SameEnds

LEMMA StopCount ==
    ASSUME CountInv, NEW s \in Starts, Stop(s)
    PROVE  CountInv'
<1>1. /\ UNCHANGED <<busy, head, cover, counted, counts, stored, jobs, pc, cur, mem, prog, handed, safeHead, trunc,
                     listVars, history>>
      /\ status' \in {status, "other"} /\ cancelled' \in BOOLEAN
  BY Same DEF Stop, WorkType
<1>2. SameEnds
  BY StopEffect
<1>3. DbType' /\ WorkType' /\ DocType'
  BY <1>1, <1>2, Same DEF DbType, WorkType, AddressStatus, DocType, SameEnds
<1> QED  BY <1>1, <1>2, <1>3, Same, CountsKept, CoverKept, StillPlaced, CountParts

LEMMA CrashEffect ==
    ASSUME CountInv, Crash
    PROVE  SameEnds /\ \A r \in Starts : docs'[r].ckpt = docs[r].ckpt
<1> DEFINE d(r) == IF docs[r].status \in {"queued", "running"} THEN [docs[r] EXCEPT !.status = "failed"] ELSE docs[r]
<1>1. \A r \in Starts : d(r) \in Docs /\ d(r).end = docs[r].end /\ d(r).ckpt = docs[r].ckpt
  BY Same DEF DocType, Docs, JobStatus
<1>2. docs' = [r \in Starts |-> d(r)]
  BY DEF Crash
<1> HIDE DEF d
<1> QED  BY <1>1, <1>2 DEF SameEnds

LEMMA CrashCount ==
    ASSUME CountInv, Crash
    PROVE  CountInv'
<1>1. DbType' /\ CountsHonest' /\ CoverPlaced' /\ UNCHANGED <<busy, head, jobs, history>>
  BY Same, CountsKept, CoverKept DEF Crash, dbVars
<1> QED  BY <1>1, CrashEffect, LeaveCount DEF Crash

\* A job that is taken from the queue.
Taken ==
    /\ docs' = [docs EXCEPT ![cur].status = "running"]
    /\ mem' = doc.ckpt /\ prog' = doc.prog
    /\ handed' = (doc.ckpt # NoCheckpoints)
    /\ pc' = "lookup"
    /\ UNCHANGED <<cur, safeHead, cancelled, trunc, listVars>>

LEMMA TakenEffect ==
    ASSUME CountInv, pc = "queued", Taken
    PROVE  SameEnds /\ \A r \in Starts : docs'[r].ckpt = docs[r].ckpt
<1> DEFINE d == [docs[cur] EXCEPT !.status = "running"]
<1>1. d \in Docs /\ d.end = docs[cur].end /\ d.ckpt = docs[cur].ckpt
  BY Same DEF Docs, JobStatus
<1>2. docs' = [docs EXCEPT ![cur] = d] /\ docs \in [Starts -> Docs]
  BY Same DEF Taken, DocType
<1> HIDE DEF d
<1> QED  BY <1>1, <1>2 DEF SameEnds

LEMMA DequeueCount ==
    ASSUME CountInv, Dequeue
    PROVE  CountInv'
<1>1. UNCHANGED <<busy, head, dbVars, jobs, history>> /\ pc = "queued"
  BY DEF Dequeue
<1>2. DbType' /\ CountsHonest' /\ CoverPlaced'
  BY <1>1, Same, CountsKept, CoverKept DEF dbVars
<1>3. CASE Leave /\ UNCHANGED docs
  BY <1>1, <1>2, <1>3, Same, SameDocs, LeaveCount
<1>4. CASE Taken
  <2>1. SameEnds
    BY <1>1, <1>4, TakenEffect
  <2>2. doc.ckpt \in [Actions -> Int] /\ doc.prog \in Reports
    BY <1>1, Same DEF doc, Docs
  <2>3. WorkType' /\ DocType'
    BY <1>1, <1>4, <2>1, <2>2, Same DEF WorkType, Places, Taken
  <2>4. LimitHeld' /\ PlaceOK' /\ RoomHeld'
    BY <1>1, <1>4, WasQuiet, Quiet DEF listVars, Taken
  <2>5. ListType'
    BY <1>4, Same DEF Taken
  <2> QED  BY <1>1, <1>2, <2>3, <2>4, <2>5, Same, CountParts
<1> QED  BY <1>3, <1>4 DEF Dequeue, Taken

LEMMA AbandonCount ==
    ASSUME CountInv, Abandon
    PROVE  CountInv'
<1>1. UNCHANGED <<busy, head, dbVars, docs, jobs, history>> /\ Leave
  BY DEF Abandon, docVars
<1>2. DbType' /\ CountsHonest' /\ CoverPlaced'
  BY <1>1, Same, CountsKept, CoverKept DEF dbVars
<1> QED  BY <1>1, <1>2, Same, SameDocs, LeaveCount

LEMMA CountOnceCount ==
    ASSUME CountInv, CountOnce
    PROVE  CountInv'
<1>1. /\ pc = "lookup" /\ UNCHANGED <<busy, head, cover, status, stored, docVars, pc, cur, workVars, trunc, listVars, history>>
      /\ counted' = TRUE /\ counts' = [x \in Actions |-> Lesser(Limit, Records(x, stored[x]))]
  BY DEF CountOnce, workVars
<1>2. ASSUME NEW x \in Actions
      PROVE  /\ counts'[x] \in Nat /\ counts'[x] <= Limit
             /\ counts'[x] <= Records(x, stored[x]) /\ Records(x, stored[x])' = Records(x, stored[x])
  <2>1. Records(x, stored[x]) \in Nat
    BY Same, RecordsType DEF WorldType
  <2>2. Records(x, stored[x])' = Records(x, stored[x])
    BY <1>1 DEF Records
  <2> QED  BY <1>1, <2>1, <2>2, Constants DEF Lesser
<1>3. DbType'
  BY <1>1, <1>2, Same DEF DbType
<1>4. CountsHonest'
  BY <1>2 DEF CountsHonest
<1>5. LimitHeld' /\ PlaceOK' /\ RoomHeld'
  BY <1>1, WasQuiet, Quiet DEF listVars
<1> QED  BY <1>1, <1>3, <1>4, <1>5, Same, CoverKept, CountParts

LEMMA LookupEndsCount ==
    ASSUME CountInv, LookupHighFrequency \/ LookupCached \/ LookupFails
    PROVE  CountInv'
<1>1. /\ UNCHANGED <<busy, head, cover, counted, counts, stored, history>> /\ status' \in {status, "partial"}
      /\ Fail \/ Finish(TRUE) \/ Finish(FALSE)
      /\ pc # "idle"
  BY DEF LookupHighFrequency, LookupCached, LookupFails, dbVars
<1>2. DbType' /\ CountsHonest' /\ CoverPlaced'
  BY <1>1, Same, CountsKept, CoverKept DEF DbType, AddressStatus
<1> QED  BY <1>1, <1>2, EndEffect, LeaveCount

LEMMA LookupMissCount ==
    ASSUME CountInv, LookupMiss
    PROVE  CountInv'
<1>1. /\ UNCHANGED <<busy, cover, counted, counts, stored, docs, jobs, cur, mem, prog, handed, cancelled, trunc, listVars>>
      /\ pc = "lookup" /\ pc' = "gap" /\ ~AtLimit /\ status' = "other"
      /\ head' \in head .. MaxBlock /\ safeHead' = head' /\ cur <= WindowEnd(head')
  BY DEF LookupMiss, docVars
<1>2. head' \in MinBlock .. MaxBlock /\ head' \in Nat
  BY <1>1, Same, Constants DEF WorldType
<1>3. WorldType' /\ DbType' /\ WorkType' /\ DocType' /\ ListType'
  <2>1. DocType'
    BY <1>1, Same, SameDocs
  <2> QED  BY <1>1, <1>2, <2>1, Same DEF WorldType, DbType, WorkType, Places, AddressStatus
<1>4. CountsHonest' /\ CoverPlaced' /\ ~trunc /\ inserted = 0
  BY <1>1, CountsKept, CoverKept, WasQuiet
<1>5. LimitHeld'
  BY <1>1, <1>4 DEF LimitHeld, AtLimit, Fetching, Looping
<1>6. PlaceOK'
  <2>1. WindowEnd(safeHead)' = WindowEnd(head')
    BY <1>1 DEF WindowEnd, doc
  <2> QED  BY <1>1, <1>2, <2>1, Constants DEF PlaceOK, Fetching, Looping
<1>7. RoomHeld'
  BY <1>1, <1>4 DEF RoomHeld, listVars
<1>8. HistoryType'
  <2>1. reach \in [Starts -> Nothing .. Unbounded] /\ misled \in BOOLEAN /\ cur \in Starts
    BY <1>1, Same DEF HistoryType
  <2>2. WindowEnd(head') \in Nat /\ WindowEnd(head') <= MaxBlock
    <3>1. docs[cur].end \in Nat
      BY <1>1, Same DEF Docs
    <3> QED  BY <1>2, <3>1, Constants DEF WindowEnd, Lesser, doc
  <2>3. Lesser(reach[cur], WindowEnd(head')) \in Nothing .. Unbounded /\ Nothing \in Nothing .. Unbounded
    BY <2>1, <2>2, Constants DEF Lesser
  <2> QED  BY <2>1, <2>3 DEF LookupMiss, Observe, HistoryType
<1> QED  BY <1>3, <1>4, <1>5, <1>6, <1>7, <1>8, CountParts

LEMMA NextGapCount ==
    ASSUME CountInv, NextGap
    PROVE  CountInv'
<1>1. PICK g \in GapsLeft :
         /\ pos' = g[2] + 1
         /\ \/ GapEnd(g) >= g[1] /\ List(g[1], GapEnd(g), Limit - counts[act])
            \/ GapEnd(g) < g[1] /\ UNCHANGED <<pc, lo, hi, room>>
  BY DEF NextGap
<1>2. /\ UNCHANGED <<busy, head, dbVars, docVars, workVars, trunc, act, ending, low, top, inserted, history>>
      /\ UNCHANGED <<counts, stored, safeHead, docs, jobs, cur>>
      /\ pc = "gap" /\ counts[act] < Limit
  BY DEF NextGap, docVars, dbVars, workVars
<1>3. /\ g[1] \in Nat /\ g[2] \in Int /\ g[2] <= MaxBlock /\ act \in Actions
      /\ mem[act] \in Int /\ counts[act] \in Nat
  BY <1>2, GapShape, Same DEF WorkType, ListType, DbType
<1>4. SameEnds /\ DocType'
  BY <1>2, Same, SameDocs
<1>5. ASSUME List(g[1], GapEnd(g), Limit - counts[act]), GapEnd(g) >= g[1]
      PROVE  WorkType' /\ ListType' /\ LimitHeld' /\ PlaceOK' /\ RoomHeld'
  <2>1. lo' = g[1] /\ hi' = GapEnd(g) /\ room' = Limit - counts[act] /\ pc' = "list"
    BY <1>5 DEF List
  <2>2. hi' \in Int /\ hi' <= MaxBlock /\ lo' <= hi' /\ lo' \in Int /\ 0 <= lo'
    BY <1>3, <1>5, <2>1, Constants DEF GapEnd, Lesser
  <2>3. ListType'
    BY <1>1, <1>2, <1>3, <2>1, <2>2, Same, Constants DEF ListType
  <2>4. WorkType'
    BY <1>2, <2>1, Same DEF WorkType, workVars, Places
  <2>5. LimitHeld'
    <3>1. ~trunc => \A x \in Actions : counts[x] < Limit
      BY <1>2, Same, Constants DEF CountInv, LimitHeld, AtLimit, DbType
    <3> QED  BY <1>2, <2>1, <3>1 DEF LimitHeld, Looping, Fetching
  <2>6. PlaceOK'
    <3>1. safeHead \in MinBlock .. head /\ cur <= WindowEnd(safeHead)
      BY <1>2 DEF CountInv, PlaceOK, Looping
    <3>2. WindowEnd(safeHead)' = WindowEnd(safeHead)
      BY <1>2, <1>4, WindowKept
    <3> QED  BY <1>2, <2>1, <2>2, <3>1, <3>2 DEF PlaceOK
  <2>7. RoomHeld'
    BY <1>2, <1>3, <2>1, Constants DEF CountInv, RoomHeld
  <2> QED  BY <2>3, <2>4, <2>5, <2>6, <2>7
<1>6. ASSUME UNCHANGED <<pc, lo, hi, room>>
      PROVE  WorkType' /\ ListType' /\ LimitHeld' /\ PlaceOK' /\ RoomHeld'
  <2>1. WorkType' /\ ListType'
    BY <1>1, <1>2, <1>3, <1>6, Same DEF WorkType, workVars, ListType
  <2>2. LimitHeld'
    BY <1>2, <1>6 DEF CountInv, LimitHeld, AtLimit, Fetching
  <2>3. PlaceOK'
    <3>1. WindowEnd(safeHead)' = WindowEnd(safeHead)
      BY <1>2, <1>4, WindowKept
    <3> QED  BY <1>2, <1>6, <3>1 DEF CountInv, PlaceOK, Fetching
  <2>4. RoomHeld'
    BY <1>2, <1>6 DEF CountInv, RoomHeld
  <2> QED  BY <2>1, <2>2, <2>3, <2>4
<1> QED  BY <1>1, <1>2, <1>4, <1>5, <1>6, Same, CountsKept, CoverKept, CountParts DEF dbVars

LEMMA NextActionCount ==
    ASSUME CountInv, NextAction
    PROVE  CountInv'
<1>1. /\ UNCHANGED <<busy, head, dbVars, docVars, workVars, trunc, lo, hi, room, ending, low, top, inserted, history>>
      /\ UNCHANGED <<counts, stored, safeHead, docs, jobs, cur, cover>>
      /\ pc = "gap" /\ pc' \in {"gap", "complete"}
      /\ (act < NumActions /\ act' = act + 1 /\ pos' = 0) \/ UNCHANGED <<act, pos>>
  BY DEF NextAction, docVars, dbVars, workVars
<1>2. SameEnds /\ DocType'
  BY <1>1, Same, SameDocs
<1>3. act' \in Actions /\ pos' \in Int
  BY <1>1, Same, Constants DEF ListType, Actions
<1>4. WorkType' /\ ListType'
  BY <1>1, <1>3, Same DEF WorkType, workVars, ListType, Places
<1>5. LimitHeld'
  BY <1>1 DEF CountInv, LimitHeld, AtLimit, Fetching, Looping
<1>6. PlaceOK'
  <2>1. WindowEnd(safeHead)' = WindowEnd(safeHead)
    BY <1>1, <1>2, WindowKept
  <2> QED  BY <1>1, <2>1 DEF CountInv, PlaceOK, Fetching, Looping
<1>7. RoomHeld'
  BY <1>1 DEF CountInv, RoomHeld
<1> QED  BY <1>1, <1>2, <1>4, <1>5, <1>6, <1>7, Same, CountsKept, CoverKept, CountParts

LEMMA FetchCount ==
    ASSUME CountInv, Fetch
    PROVE  CountInv'
<1>1. /\ pc = "list" /\ pc' = "persist" /\ prog' = [act |-> act, lo |-> lo, hi |-> hi] /\ top' = hi
      /\ Save("running", mem, prog')
      /\ UNCHANGED <<busy, head, dbVars, jobs, cur, mem, handed, safeHead, cancelled, trunc, act, pos, lo, hi, room,
                     inserted, history>>
      /\ UNCHANGED <<counts, stored, cover>>
  BY DEF Fetch, Listed, dbVars
<1>2. /\ act \in Actions /\ lo \in Int /\ hi \in Int /\ room \in Nat /\ lo <= hi /\ 0 <= lo
      /\ counts[act] \in Nat /\ counts[act] + room <= Limit /\ inserted = 0 /\ mem \in [Actions -> Int]
  <2>1. act \in Actions /\ lo \in Int /\ hi \in Int /\ room \in Nat
    BY Same, Constants DEF ListType
  <2>2. lo <= hi /\ 0 <= lo
    BY <1>1 DEF CountInv, PlaceOK, Fetching
  <2>3. counts[act] + room <= Limit /\ inserted = 0
    BY <1>1 DEF CountInv, RoomHeld
  <2>4. counts[act] \in Nat /\ mem \in [Actions -> Int]
    BY <2>1, Same DEF DbType, WorkType
  <2> QED  BY <2>1, <2>2, <2>3, <2>4
<1>3. prog' \in Reports
  BY <1>1, <1>2, Constants DEF Reports
<1>4. SameEnds /\ DocType'
  BY <1>1, <1>2, <1>3, Same, SaveEffect DEF JobStatus
<1>5. /\ low' \in Int /\ lo <= low' /\ low' <= hi + 1 /\ Records(act, low' .. hi) <= room
      /\ ending' \in {"whole", "page", "cut"}
      /\ ending' = "whole" => low' = lo
      /\ ending' = "page" => lo + 1 < low'
  <2>1. CASE Records(act, lo .. hi) < room /\ Listed("whole", lo)
    <3>1. Records(act, lo .. hi) \in Nat
      BY <1>2, Same, RecordsType DEF WorldType
    <3> QED  BY <1>2, <2>1, <3>1 DEF Listed
  <2>2. CASE \E b \in busy[act] \cap (lo .. hi) : Records(act, b .. hi) = room /\ Listed("cut", b)
    BY <1>2, <2>2 DEF Listed
  <2>3. CASE \E b \in lo + 1 .. hi - 1 : Records(act, b .. hi) < room /\ Listed("page", b + 1)
    <3>1. PICK b \in lo + 1 .. hi - 1 : Records(act, b .. hi) < room /\ Listed("page", b + 1)
      BY <2>3
    <3>2. b \in Int /\ b + 1 .. hi \subseteq b .. hi
      BY <1>2
    <3>3. /\ Records(act, b + 1 .. hi) <= Records(act, b .. hi)
          /\ Records(act, b + 1 .. hi) \in Nat /\ Records(act, b .. hi) \in Nat
      BY <1>2, <3>2, Same, RecordsGrow, RecordsType DEF WorldType
    <3> QED  BY <1>2, <3>1, <3>2, <3>3 DEF Listed
  <2>4. CASE \E b \in {lo, hi} : Records(act, b .. hi) < room /\ \E l \in {b, b + 1} : Listed("cut", l)
    <3>1. PICK b \in {lo, hi} : Records(act, b .. hi) < room /\ \E l \in {b, b + 1} : Listed("cut", l)
      BY <2>4
    <3>2. PICK l \in {b, b + 1} : Listed("cut", l)
      BY <3>1
    <3>3. b \in Int /\ l \in Int /\ l .. hi \subseteq b .. hi
      BY <1>2, <3>2
    <3>4. /\ Records(act, l .. hi) <= Records(act, b .. hi)
          /\ Records(act, l .. hi) \in Nat /\ Records(act, b .. hi) \in Nat
      BY <1>2, <3>3, Same, RecordsGrow, RecordsType DEF WorldType
    <3> QED  BY <1>2, <3>1, <3>2, <3>3, <3>4 DEF Listed
  <2> QED  BY <2>1, <2>2, <2>3, <2>4 DEF Fetch
<1>6. WorkType' /\ ListType'
  BY <1>1, <1>2, <1>3, <1>5, Same DEF WorkType, ListType, Places
<1>7. LimitHeld'
  BY <1>1 DEF CountInv, LimitHeld, Fetching, Looping
<1>8. PlaceOK'
  <2>1. safeHead' \in MinBlock .. head' /\ cur' <= WindowEnd(safeHead)' /\ 0 <= lo' /\ hi' <= MaxBlock
    BY <1>1, <1>4, WindowKept DEF CountInv, PlaceOK, Fetching, Looping
  <2>0. low' \in Int /\ low' <= hi + 1 /\ hi \in Int
    BY <1>2, <1>5
  <2>2. low' - 1 <= hi
    <3>1. \A l \in Int : l <= hi + 1 => l - 1 <= hi
      BY <2>0
    <3> QED  BY <2>0, <3>1
  <2>3. hi' = hi /\ top' = hi /\ lo' = lo /\ pc' = "persist"
    BY <1>1
  <2>4. /\ lo <= low' /\ hi <= hi /\ (ending' = "whole" => low' = lo)
        /\ (ending' = "page" => lo + 1 < low')
    BY <1>2, <1>5
  <2> QED  BY <2>0, <2>1, <2>2, <2>3, <2>4 DEF PlaceOK
<1>9. RoomHeld'
  <2>1. Records(act, low' .. hi) \in Nat
    BY <1>2, Same, RecordsType DEF WorldType
  <2>2. /\ Records(act, low .. hi)' = Records(act, low' .. hi)
        /\ Records(act, low .. top)' = Records(act, low' .. hi)
    BY <1>1 DEF Records
  <2>3. counts[act] + 0 + Records(act, low' .. hi) + room <= Limit + Records(act, low' .. hi)
    BY <1>2, <2>1, Constants
  <2>4. pc' = "persist" /\ counts' = counts /\ act' = act /\ room' = room /\ inserted' = 0
    BY <1>1, <1>2
  <2> QED  BY <1>5, <2>2, <2>3, <2>4 DEF RoomHeld
<1> QED  BY <1>1, <1>4, <1>6, <1>7, <1>8, <1>9, Same, CountsKept, CoverKept, CountParts

\* What the invariant says of a listing that came in.
LEMMA Persisting ==
    ASSUME CountInv, pc \in {"persist", "count"}
    PROVE  /\ act \in Actions /\ lo \in Int /\ hi \in Int /\ low \in Int /\ top \in Int
           /\ room \in Nat /\ room <= Limit /\ inserted \in Nat
           /\ 0 <= lo /\ hi <= MaxBlock /\ lo <= low /\ low <= hi + 1 /\ low - 1 <= top /\ top <= hi
           /\ ending = "whole" => low = lo
           /\ ending = "page" => lo + 1 < low
           /\ counts[act] \in Nat /\ counts[act] <= Limit /\ counts[act] <= Records(act, stored[act])
           /\ Records(act, low .. hi) \in Nat /\ Records(act, low .. top) \in Nat
           /\ Records(act, stored[act]) \in Nat
           /\ Records(act, low .. hi) <= room
           /\ counts[act] + inserted + Records(act, low .. top) + room <= Limit + Records(act, low .. hi)
           /\ ~trunc => \A x \in Actions \ {act} : counts[x] < Limit
<1>1. /\ act \in Actions /\ lo \in Int /\ hi \in Int /\ low \in Int /\ top \in Int
      /\ room \in Nat /\ room <= Limit /\ inserted \in Nat
  BY Same, Constants DEF ListType
<1>2. /\ 0 <= lo /\ hi <= MaxBlock /\ lo <= low /\ low <= hi + 1 /\ low - 1 <= top /\ top <= hi
      /\ ending = "whole" => low = lo
      /\ ending = "page" => lo + 1 < low
  BY DEF CountInv, PlaceOK, Fetching
<1>3. ~trunc => \A x \in Actions \ {act} : counts[x] < Limit
  BY DEF CountInv, LimitHeld, Fetching
<1>4. counts[act] \in Nat /\ counts[act] <= Limit /\ counts[act] <= Records(act, stored[act])
  BY <1>1, Same DEF CountInv, CountsHonest, DbType
<1>5. /\ Records(act, low .. hi) \in Nat /\ Records(act, low .. top) \in Nat
      /\ Records(act, stored[act]) \in Nat
  BY <1>1, Same, RecordsType DEF WorldType
<1>6. /\ Records(act, low .. hi) <= room
      /\ counts[act] + inserted + Records(act, low .. top) + room <= Limit + Records(act, low .. hi)
  BY DEF CountInv, RoomHeld
<1> QED  BY <1>1, <1>2, <1>3, <1>4, <1>5, <1>6

LEMMA UpsertCount ==
    ASSUME CountInv, Upsert
    PROVE  CountInv'
<1>1. PICK b \in low .. top :
          /\ stored' = [stored EXCEPT ![act] = @ \cup (b .. top)]
          /\ inserted' = Records(act, (b .. top) \ stored[act])
          /\ top' = b - 1
  BY DEF Upsert
<1>2. /\ pc = "persist" /\ low <= top /\ pc' = "count" /\ inserted = 0
      /\ UNCHANGED <<busy, head, cover, status, counted, counts, docVars, workVars, trunc, act, pos, lo, hi, room,
                     ending, low, history>>
      /\ UNCHANGED <<docs, jobs, cur, safeHead>>
  BY DEF Upsert, CountInv, RoomHeld, docVars, workVars
<1>3. /\ act \in Actions /\ low \in Int /\ top \in Int /\ b \in Int /\ low <= b /\ b <= top
      /\ 0 <= lo /\ lo <= low /\ top <= hi /\ hi <= MaxBlock /\ lo \in Int /\ hi \in Int
  BY <1>1, <1>2, Persisting
<1>0. SameEnds /\ DocType'
  BY <1>2, Same, SameDocs
<1>4. b .. top \subseteq 0 .. MaxBlock
  BY <1>3, Constants
<1>5. DbType'
  BY <1>1, <1>2, <1>3, <1>4, Same DEF DbType
<1>6. inserted' \in Nat
  BY <1>1, <1>3, Same, RecordsType DEF WorldType
<1>7. WorkType' /\ ListType'
  BY <1>1, <1>2, <1>3, <1>6, Same DEF WorkType, workVars, ListType, Places
<1>8. \A y \in Actions : stored[y] \subseteq stored'[y]
  BY <1>1, <1>3, Same DEF DbType
<1>9. CountsHonest'
  BY <1>2, <1>8, HonestGrows
<1>10. LimitHeld'
  BY <1>2, Persisting DEF LimitHeld, Fetching, Looping
<1>11. PlaceOK'
  <2>1. safeHead' \in MinBlock .. head' /\ cur' <= WindowEnd(safeHead)'
    BY <1>0, <1>2, WindowKept DEF CountInv, PlaceOK, Looping, Fetching
  <2>2. /\ low - 1 <= b - 1 /\ b - 1 <= hi /\ low <= hi + 1
        /\ (ending = "whole" => low = lo) /\ (ending = "page" => lo + 1 < low)
    BY <1>2, <1>3, Persisting
  <2> QED  BY <1>1, <1>2, <1>3, <2>1, <2>2 DEF PlaceOK
<1>12. RoomHeld'
  <2>1. /\ Records(act, low .. top) = Records(act, low .. b - 1) + Records(act, b .. top)
        /\ Records(act, low .. b - 1) \in Nat /\ Records(act, b .. top) \in Nat
        /\ Records(act, low .. hi) \in Nat /\ Records(act, low .. top) \in Nat
    <3>1. busy \in Chains /\ Records(act, low .. top) = Records(act, low .. b - 1) + Records(act, b .. top)
      BY <1>3, Same, RecordsSplit DEF WorldType
    <3> QED  BY <1>3, <3>1, RecordsType
  <2>2. /\ Records(act, stored[act] \cup (b .. top))
               = Records(act, stored[act]) + Records(act, (b .. top) \ stored[act])
        /\ Records(act, (b .. top) \ stored[act]) <= Records(act, b .. top)
    BY <1>3, Same, RecordsInserted DEF WorldType
  <2>3. stored'[act] = stored[act] \cup (b .. top)
    BY <1>1, <1>3, Same DEF DbType
  <2>4. /\ counts[act] \in Nat /\ room \in Nat /\ counts[act] <= Records(act, stored[act])
        /\ Records(act, stored[act]) \in Nat /\ Records(act, low .. hi) <= room
        /\ counts[act] + 0 + Records(act, low .. top) + room <= Limit + Records(act, low .. hi)
    BY <1>2, Persisting
  <2>5. /\ counts[act] + inserted' <= Records(act, stored'[act])
        /\ counts[act] + inserted' + Records(act, low .. b - 1) + room <= Limit + Records(act, low .. hi)
    <3> DEFINE Stored == Records(act, stored[act])
               Fresh  == Records(act, (b .. top) \ stored[act])
               Batch  == Records(act, b .. top)
               Left   == Records(act, low .. b - 1)
               All    == Records(act, low .. hi)
               After  == Records(act, stored'[act])
               c      == counts[act]
    <3>1. /\ Stored \in Nat /\ Fresh \in Nat /\ Batch \in Nat /\ Left \in Nat /\ All \in Nat /\ c \in Nat
          /\ room \in Nat /\ Limit \in Nat /\ inserted' = Fresh /\ After = Stored + Fresh
      BY <1>1, <1>6, <2>1, <2>2, <2>3, <2>4, Constants
    <3>2. Fresh <= Batch /\ c <= Stored /\ c + 0 + (Left + Batch) + room <= Limit + All
      BY <2>1, <2>2, <2>4
    <3>3. c + inserted' <= After /\ c + inserted' + Left + room <= Limit + All
      <4> HIDE DEF Stored, Fresh, Batch, Left, All, After, c
      <4> QED  BY <3>1, <3>2
    <3> QED  BY <3>3
  <2>6. /\ Records(act, low .. hi)' = Records(act, low .. hi)
        /\ Records(act, low .. top)' = Records(act, low .. b - 1)
        /\ Records(act, stored[act])' = Records(act, stored'[act])
    BY <1>1, <1>2 DEF Records
  <2> QED  BY <1>2, <2>4, <2>5, <2>6 DEF RoomHeld
<1> QED  BY <1>0, <1>2, <1>5, <1>7, <1>9, <1>10, <1>11, <1>12, Same, CoverKept, CountParts

LEMMA CountCount ==
    ASSUME CountInv, Count
    PROVE  CountInv'
<1>1. /\ pc = "count" /\ pc' = "persist" /\ inserted' = 0
      /\ counts' = [counts EXCEPT ![act] = @ + inserted]
      /\ UNCHANGED <<busy, head, cover, status, counted, stored, docVars, workVars, trunc, act, pos, lo, hi, room,
                     ending, low, top, history>>
      /\ UNCHANGED <<docs, jobs, cur, safeHead>>
  BY DEF Count, docVars, workVars
<1>2. /\ act \in Actions /\ counts[act] \in Nat /\ inserted \in Nat /\ room \in Nat
      /\ counts'[act] = counts[act] + inserted /\ counts'[act] \in Nat
      /\ \A x \in Actions \ {act} : counts'[x] = counts[x]
  BY <1>1, Persisting, Same DEF DbType
<1>3. /\ Records(act, low .. hi) <= room /\ Records(act, low .. hi) \in Nat
      /\ Records(act, low .. top) \in Nat
      /\ counts'[act] + 0 + Records(act, low .. top) + room <= Limit + Records(act, low .. hi)
  BY <1>1, <1>2, Persisting, Constants, SMTT(40)
<1>4. counts'[act] <= Limit /\ counts'[act] <= Records(act, stored[act])
  <2>1. counts[act] + inserted <= Records(act, stored[act])
    BY <1>1 DEF CountInv, RoomHeld
  <2> QED  BY <1>2, <1>3, <2>1, Constants, SMTT(40)
<1>5. DbType' /\ WorkType' /\ ListType'
  BY <1>1, <1>2, Same DEF DbType, WorkType, workVars, ListType, Places
<1>6. CountsHonest'
  <2> SUFFICES ASSUME NEW y \in Actions
               PROVE  counts'[y] <= Limit /\ counts'[y] <= Records(y, stored[y])'
    BY DEF CountsHonest
  <2>1. Records(y, stored[y])' = Records(y, stored[y])
    BY <1>1 DEF Records
  <2> QED  BY <1>2, <1>4, <2>1 DEF CountInv, CountsHonest
<1>7. LimitHeld'
  BY <1>1, <1>2, Persisting DEF LimitHeld, Fetching, Looping
<1>0. SameEnds /\ DocType'
  BY <1>1, Same, SameDocs
<1>8. PlaceOK'
  BY <1>0, <1>1, WindowKept DEF CountInv, PlaceOK, Looping, Fetching
<1>9. RoomHeld'
  <2>1. /\ Records(act, low .. hi)' = Records(act, low .. hi)
        /\ Records(act, low .. top)' = Records(act, low .. top)
    BY <1>1 DEF Records
  <2> QED  BY <1>1, <1>3, <2>1 DEF RoomHeld
<1> QED  BY <1>0, <1>1, <1>5, <1>6, <1>7, <1>8, <1>9, Same, CoverKept, CountParts

LEMMA FetchFailsCount ==
    ASSUME CountInv, FetchFails
    PROVE  CountInv'
<1>1. UNCHANGED <<busy, head, cover, status, counted, counts, history>> /\ Fail /\ pc # "idle"
  BY DEF FetchFails
<1>2. stored' \in [Actions -> SUBSET (0 .. MaxBlock)] /\ \A y \in Actions : stored[y] \subseteq stored'[y]
  <2>1. CASE UNCHANGED stored
    BY <2>1, Same DEF DbType
  <2>2. CASE pc = "persist" /\ \E B \in SUBSET (low .. top) : stored' = [stored EXCEPT ![act] = @ \cup B]
    <3>1. PICK B \in SUBSET (low .. top) : stored' = [stored EXCEPT ![act] = @ \cup B]
      BY <2>2
    <3>2. low .. top \subseteq 0 .. MaxBlock /\ act \in Actions
      <4>1. /\ lo \in Int /\ low \in Int /\ top \in Int /\ hi \in Int /\ 0 <= lo /\ lo <= low
            /\ top <= hi /\ hi <= MaxBlock /\ act \in Actions
        BY <2>2, Persisting
      <4> QED  BY <4>1, Constants
    <3>3. B \subseteq 0 .. MaxBlock
      BY <3>1, <3>2
    <3> QED  BY <3>1, <3>2, <3>3, Same DEF DbType
  <2> QED  BY <2>1, <2>2 DEF FetchFails
<1>3. DbType' /\ CountsHonest'
  BY <1>1, <1>2, Same, HonestGrows DEF DbType
<1> QED  BY <1>1, <1>3, EndEffect, CoverKept, LeaveCount

LEMMA NextPageCount ==
    ASSUME CountInv, NextPage
    PROVE  CountInv'
<1>1. /\ pc = "persist" /\ top < low /\ ending = "page" /\ mem' = [mem EXCEPT ![act] = low - 1]
      /\ Save("running", mem', prog)
      /\ lo' = lo /\ hi' = low - 1 /\ room' = room - Records(act, low .. hi) /\ pc' = "list"
      /\ UNCHANGED <<busy, head, dbVars, jobs, cur, prog, handed, safeHead, cancelled, trunc, act, pos, ending, low, top,
                     inserted, history>>
      /\ UNCHANGED <<cover, counts, stored>> /\ inserted = 0
  BY DEF NextPage, Persisted, List, dbVars, CountInv, RoomHeld
<1>2. /\ act \in Actions /\ low \in Int /\ lo \in Int /\ hi \in Int /\ 0 <= lo /\ lo + 1 < low /\ low <= hi + 1
      /\ hi <= MaxBlock /\ room \in Nat /\ room <= Limit /\ counts[act] \in Nat
      /\ Records(act, low .. hi) \in Nat /\ Records(act, low .. hi) <= room
      /\ Records(act, low .. top) \in Nat
      /\ counts[act] + 0 + Records(act, low .. top) + room <= Limit + Records(act, low .. hi)
  BY <1>1, Persisting
<1>3. mem' \in [Actions -> Int] /\ prog \in Reports
  BY <1>1, <1>2, Same DEF WorkType
<1>4. SameEnds /\ DocType'
  BY <1>1, <1>3, Same, SaveEffect DEF JobStatus
<1>5. /\ low - 1 \in Int /\ lo <= low - 1 /\ low - 1 <= MaxBlock
      /\ room - Records(act, low .. hi) \in 0 .. Limit
      /\ counts[act] + (room - Records(act, low .. hi)) <= Limit
  <2> DEFINE All  == Records(act, low .. hi)
             Left == Records(act, low .. top)
             c    == counts[act]
  <2>1. /\ c \in Nat /\ All \in Nat /\ Left \in Nat /\ room \in Nat /\ Limit \in Nat /\ room <= Limit
        /\ All <= room /\ c + 0 + Left + room <= Limit + All
    BY <1>2, Constants
  <2>2. room - All \in 0 .. Limit /\ c + (room - All) <= Limit
    <3> HIDE DEF All, Left, c
    <3> QED  BY <2>1
  <2>3. low - 1 \in Int /\ lo <= low - 1 /\ low - 1 <= MaxBlock
    <3>1. /\ low \in Int /\ lo \in Int /\ hi \in Int /\ lo + 1 < low /\ low <= hi + 1 /\ hi <= MaxBlock
      BY <1>2
    <3> QED  BY <3>1, Constants
  <2> QED  BY <2>2, <2>3
<1>6. WorkType' /\ ListType'
  BY <1>1, <1>2, <1>3, <1>5, Same DEF WorkType, ListType, Places
<1>7. LimitHeld'
  BY <1>1, Persisting DEF LimitHeld, Fetching, Looping
<1>8. PlaceOK'
  <2>1. safeHead' \in MinBlock .. head' /\ cur' <= WindowEnd(safeHead)'
    BY <1>1, <1>4, WindowKept DEF CountInv, PlaceOK, Looping, Fetching
  <2> QED  BY <1>1, <1>2, <1>5, <2>1 DEF PlaceOK
<1>9. RoomHeld'
  BY <1>1, <1>5 DEF RoomHeld
<1> QED  BY <1>1, <1>4, <1>6, <1>7, <1>8, <1>9, Same, CountsKept, CoverKept, CountParts

\* Back among the gaps with the listing done.
LEMMA ListingCount ==
    ASSUME CountInv, pc = "persist", NEW d \in BOOLEAN, Listing(d), SameEnds, counts[act] >= Limit => d,
           UNCHANGED <<busy, head, counts, stored, cover, cur, safeHead, act, pos>>
    PROVE  /\ ListType' /\ LimitHeld' /\ PlaceOK' /\ RoomHeld'
           /\ pc' = "gap" /\ trunc' \in BOOLEAN
<1>1. /\ trunc' = (trunc \/ d) /\ pc' = "gap" /\ inserted' = 0
      /\ lo' = 0 /\ hi' = 0 /\ room' = 0 /\ ending' = "whole" /\ low' = 0 /\ top' = 0
  BY DEF Listing, LeaveListing
<1>2. /\ act \in Actions /\ counts[act] \in Nat
      /\ ~trunc => \A x \in Actions \ {act} : counts[x] < Limit
  BY Persisting
<1>3. ListType' /\ trunc' \in BOOLEAN
  BY <1>1, Same, Constants DEF ListType, WorkType
<1>4. LimitHeld'
  <2>1. ASSUME ~trunc' PROVE ~AtLimit
    <3>1. ~trunc /\ ~(counts[act] >= Limit)
      BY <1>1, <2>1
    <3>2. \A x \in Actions : x = act \/ counts[x] < Limit
      BY <1>2, <3>1
    <3>3. \A x \in Actions : counts[x] \in Nat
      BY Same DEF DbType
    <3> QED  BY <3>1, <3>2, <3>3, Constants DEF AtLimit
  <2> QED  BY <1>1, <2>1 DEF LimitHeld, AtLimit, Looping, Fetching
<1>5. PlaceOK'
  <2>1. safeHead \in MinBlock .. head /\ cur <= WindowEnd(safeHead)
    BY DEF CountInv, PlaceOK, Looping, Fetching
  <2>2. WindowEnd(safeHead)' = WindowEnd(safeHead)
    BY WindowKept
  <2> QED  BY <1>1, <2>1, <2>2 DEF PlaceOK, Fetching
<1>6. RoomHeld'
  BY <1>1 DEF RoomHeld
<1> QED  BY <1>1, <1>3, <1>4, <1>5, <1>6

LEMMA WholeCount ==
    ASSUME CountInv, Whole
    PROVE  CountInv'
<1>1. /\ pc = "persist" /\ mem' = [mem EXCEPT ![act] = lo - 1] /\ Save("running", mem', prog)
      /\ Listing(counts[act] >= Limit)
      /\ UNCHANGED <<busy, head, dbVars, jobs, cur, prog, handed, safeHead, cancelled, act, pos, history>>
      /\ UNCHANGED <<cover, counts, stored>>
  BY DEF Whole, Persisted, dbVars
<1>2. mem' \in [Actions -> Int] /\ prog \in Reports
  <2>1. act \in Actions /\ lo - 1 \in Int
    BY <1>1, Persisting
  <2> QED  BY <1>1, <2>1, Same DEF WorkType
<1>3. SameEnds /\ DocType'
  <2>1. SameEnds
    BY <1>1, <1>2, Same, SaveEffect DEF JobStatus
  <2> QED  BY <1>1, <2>1, Same DEF DocType, SameEnds, Listing
<1>4. (counts[act] >= Limit) \in BOOLEAN
  OBVIOUS
<1>5. /\ ListType' /\ LimitHeld' /\ PlaceOK' /\ RoomHeld'
      /\ pc' = "gap" /\ trunc' \in BOOLEAN
  BY <1>1, <1>3, <1>4, ListingCount
<1>6. WorkType'
  BY <1>1, <1>2, <1>5, Same DEF WorkType, Places
<1> QED  BY <1>1, <1>3, <1>5, <1>6, Same, CountsKept, CoverKept, CountParts

LEMMA CutCount ==
    ASSUME CountInv, Cut
    PROVE  CountInv'
<1>1. /\ pc = "persist" /\ Listing(TRUE)
      /\ UNCHANGED <<busy, head, dbVars, docVars, workVars, act, pos, history>>
      /\ UNCHANGED <<cover, counts, stored, docs, jobs, cur, safeHead>>
  BY DEF Cut, Persisted, dbVars, docVars, workVars
<1>2. SameEnds
  BY <1>1, Same, SameDocs
<1>3. /\ ListType' /\ LimitHeld' /\ PlaceOK' /\ RoomHeld'
      /\ pc' = "gap" /\ trunc' \in BOOLEAN
  BY <1>1, <1>2, ListingCount
<1>4. WorkType' /\ DocType'
  BY <1>1, <1>2, <1>3, Same DEF WorkType, workVars, Places
<1> QED  BY <1>1, <1>3, <1>4, Same, CountsKept, CoverKept, CountParts

\* What CompleteAddressSync writes.
LEMMA ConcludeEffect ==
    ASSUME CountInv, pc = "complete", Conclude \/ UNCHANGED dbVars, UNCHANGED busy
    PROVE  DbType' /\ CountsHonest' /\ UNCHANGED stored /\ CoverPlaced'
<1>1. UNCHANGED <<counted, counts, stored>> /\ status' \in AddressStatus
  BY Same DEF Conclude, dbVars, AddressStatus, DbType
<1>2. CASE UNCHANGED cover
  BY <1>1, <1>2, Same, CountsKept, CoverKept DEF DbType
<1>3. CASE cover' = [x \in Actions |-> Merge(Want, cover[x])]
  <2> DEFINE e == WindowEnd(safeHead)
  <2>1. Want = <<cur, e>> /\ Want \in Ranges /\ cur \in Nat /\ e \in Nat /\ e <= MaxBlock
    BY WindowShape
  <2>2. ASSUME NEW x \in Actions
        PROVE  /\ Merge(Want, cover[x]) \in Ranges
               /\ 0 <= Merge(Want, cover[x])[1] /\ Merge(Want, cover[x])[2] <= MaxBlock
    <3>1. cover[x] \in Ranges /\ (Valid(cover[x]) => 0 <= cover[x][1] /\ cover[x][2] <= MaxBlock)
      BY Same DEF DbType, CountInv, CoverPlaced
    <3> HIDE DEF e
    <3> QED  BY <2>1, <3>1, MergeType, Constants DEF Merge, Lesser, Greater, Ranges
  <2>3. cover' \in [Actions -> Ranges] /\ CoverPlaced'
    BY <1>3, <2>2 DEF CoverPlaced
  <2> QED  BY <1>1, <2>3, Same, CountsKept DEF DbType
<1> QED  BY <1>2, <1>3 DEF Conclude, dbVars

LEMMA CompleteCount ==
    ASSUME CountInv, Complete \/ CompleteFails
    PROVE  CountInv'
<1>1. /\ pc = "complete" /\ UNCHANGED <<busy, head, history>> /\ (Conclude \/ UNCHANGED dbVars)
      /\ Fail \/ Finish(trunc)
  BY DEF Complete, CompleteFails
<1> QED  BY <1>1, EndEffect, ConcludeEffect, LeaveCount

LEMMA InitCount == Init => CountInv
<1> SUFFICES ASSUME Init PROVE CountInv
  OBVIOUS
<1>0. cover \in [Actions -> Ranges] /\ counts \in [Actions -> Nat] /\ stored \in [Actions -> SUBSET (0 .. MaxBlock)]
  BY Constants DEF Init
<1>1. WorldType /\ DbType
  <2>1. WorldType
    BY Constants DEF Init, WorldType
  <2>2. status \in AddressStatus /\ counted \in BOOLEAN
    BY DEF Init, AddressStatus
  <2> QED  BY <1>0, <2>1, <2>2 DEF DbType
<1>2. DocType /\ HistoryType
  <2>1. [status |-> "none", end |-> 0, ckpt |-> NoCheckpoints, prog |-> NoProgress] \in Docs
    BY Constants DEF Docs, JobStatus
  <2>2. docs \in [Starts -> Docs] /\ jobs = 0 /\ cur = 0 /\ pc = "idle"
    BY <2>1 DEF Init
  <2>3. HistoryType
    <3>1. Unbounded \in Nothing .. Unbounded
      BY Constants
    <3> QED  BY <3>1 DEF Init, HistoryType
  <2> QED  BY <2>2, <2>3, Constants DEF DocType
<1>3. WorkType /\ ListType
  <2>1. WorkType
    BY Constants DEF Init, WorkType, Places
  <2>2. ListType
    BY Constants DEF Init, ListType
  <2> QED  BY <2>1, <2>2
<1>4. CountsHonest
  BY <1>1, Constants, RecordsType DEF Init, CountsHonest, WorldType
<1>5. CoverPlaced
  BY DEF Init, CoverPlaced, Valid, NoCoverage
<1>6. LimitHeld /\ PlaceOK /\ RoomHeld
  BY DEF Init, LimitHeld, PlaceOK, RoomHeld, Fetching, Looping
<1> QED  BY <1>1, <1>2, <1>3, <1>4, <1>5, <1>6, TypeParts DEF CountInv

LEMMA StepCount == CountInv /\ [Next]_vars => CountInv'
<1> SUFFICES ASSUME CountInv, [Next]_vars PROVE CountInv'
  OBVIOUS
<1>1. CASE UNCHANGED vars
  <2>1. /\ UNCHANGED <<busy, head, dbVars, docVars, pc, cur, workVars, trunc, listVars, history>>
        /\ UNCHANGED <<docs, jobs, cover, counts, stored, safeHead>>
    BY <1>1 DEF vars, dbVars, docVars, workVars
  <2> QED  BY <2>1, Same, SameDocs, CountsKept, StillPlaced, CoverKept, CountParts
<1>2. CASE Next
  <2>1. CASE \E r \in Requests : Enqueue(r[1], r[2])
    BY <2>1, Constants, EnqueueCount
  <2> QED
    BY <1>2, <2>1, CounterpartyCount, StopCount, CrashCount, DequeueCount, AbandonCount,
       CountOnceCount, LookupEndsCount, LookupMissCount, NextGapCount, NextActionCount, FetchCount,
       UpsertCount, CountCount, FetchFailsCount, NextPageCount, WholeCount, CutCount, CompleteCount
       DEF Next
<1> QED  BY <1>1, <1>2

\* Every variable has its type, for any number of actions and any chain.
THEOREM TypeCorrect == Spec => []TypeOK
<1>1. CountInv => TypeOK
  BY DEF CountInv
<1> QED  BY InitCount, StepCount, <1>1, PTL DEF Spec

\* AddAddressActionRecords never takes the count of an action past the limit, nor past
\* the records there are.
THEOREM CountsAlwaysHonest == Spec => []CountsHonest
<1>1. CountInv => CountsHonest
  BY DEF CountInv
<1> QED  BY InitCount, StepCount, <1>1, PTL DEF Spec

\* An address that has reached the limit is never claimed any further: whoever finds
\* the limit reached inside the loop leaves it truncated.
THEOREM LimitAlwaysStopsClaims == Spec => LimitStopsClaims
<1>1. CountInv /\ [Next]_vars => [AtLimit => UNCHANGED cover]_vars
  <2> SUFFICES ASSUME CountInv, Next, AtLimit PROVE UNCHANGED cover
    BY DEF vars
  <2>1. CASE Complete \/ CompleteFails
    <3>1. trunc
      BY <2>1, Same DEF CountInv, LimitHeld, Complete, CompleteFails, WorkType
    <3> QED  BY <2>1, <3>1 DEF Complete, CompleteFails, Conclude, dbVars
  <2>2. CASE \/ \E r \in Requests : Enqueue(r[1], r[2])
             \/ \E x \in Actions, b \in Shared : CounterpartySync(x, b)
             \/ \E s \in Starts : Stop(s)
             \/ Crash \/ Dequeue \/ Abandon \/ CountOnce
    BY <2>2 DEF Enqueue, CounterpartySync, Stop, Crash, Dequeue, Abandon, CountOnce, dbVars
  <2>3. CASE \/ LookupHighFrequency \/ LookupCached \/ LookupMiss \/ LookupFails
             \/ NextGap \/ NextAction \/ Fetch \/ Upsert \/ Count \/ FetchFails \/ NextPage \/ Whole \/ Cut
    BY <2>3 DEF LookupHighFrequency, LookupCached, LookupMiss, LookupFails, NextGap, NextAction, Fetch,
                Upsert, Count, FetchFails, NextPage, Whole, Cut, dbVars
  <2> QED  BY <2>1, <2>2, <2>3 DEF Next
<1> QED  BY InitCount, StepCount, <1>1, PTL DEF Spec, LimitStopsClaims
-----------------------------------------------------------------------------
(* Until a job is misled *)

Sure == /\ Sound
        /\ \A s \in Starts, x \in Actions : docs[s].ckpt[x] + 1 .. reach[s] \subseteq stored[x]
        /\ WorkerHolds /\ WindowHolds /\ AboveHolds /\ LoopHolds

LEMMA SureParts ==
    /\ IInv <=> CountInv /\ (~misled => Sure)
    /\ IInv' <=> CountInv' /\ (~misled' => Sure')
BY DEF IInv, CoverageSound, CheckpointsSound, Sure

Grows == \A x \in Actions : stored[x] \subseteq stored'[x]

LEMMA SameGrows == UNCHANGED stored => Grows
BY DEF Grows

LEMMA ReachType ==
    ASSUME CountInv, NEW s \in Starts
    PROVE  reach[s] \in Int /\ -1 <= reach[s] /\ reach[s] <= MaxBlock + 1
BY Same, Constants DEF HistoryType

\* What the address document claims stays stored.
LEMMA SoundKept ==
    ASSUME Sound, Grows, UNCHANGED cover
    PROVE  Sound'
<1>1. ASSUME NEW x \in Actions PROVE Claimed(cover[x])' \subseteq stored'[x]
  BY DEF Sound, Grows
<1> QED  BY <1>1 DEF Sound

\* What the documents' checkpoints tell of stays stored, whichever were written.
Told == \A s \in Starts, x \in Actions : docs[s].ckpt[x] + 1 .. reach[s] \subseteq stored[x]

LEMMA ToldKept ==
    ASSUME Told, Grows, UNCHANGED reach,
           \A s \in Starts, x \in Actions :
              \/ docs'[s].ckpt = docs[s].ckpt
              \/ docs'[s].ckpt[x] + 1 .. reach[s] \subseteq stored'[x]
    PROVE  Told'
<1> SUFFICES ASSUME NEW s \in Starts, NEW x \in Actions
             PROVE  docs'[s].ckpt[x] + 1 .. reach'[s] \subseteq stored'[x]
  BY DEF Told
<1>1. docs[s].ckpt[x] + 1 .. reach[s] \subseteq stored'[x]
  BY DEF Told, Grows
<1> QED  BY <1>1

LEMMA SureTold ==
    /\ Sure <=> Sound /\ Told /\ WorkerHolds /\ WindowHolds /\ AboveHolds /\ LoopHolds
    /\ Sure' <=> Sound' /\ Told' /\ WorkerHolds' /\ WindowHolds' /\ AboveHolds' /\ LoopHolds'
BY DEF Sure, Told

\* Out of the loop nothing is promised of it.
LEMMA Outside ==
    ASSUME pc' \in {"idle", "queued", "lookup"}, act' = 1, pos' = 0
    PROVE  WindowHolds' /\ AboveHolds' /\ LoopHolds'
BY DEF WindowHolds, AboveHolds, LoopHolds, Looping, Fetching

LEMMA LeaveSure ==
    ASSUME Leave, Sound', Told'
    PROVE  Sure'
<1>1. pc' = "idle" /\ act' = 1 /\ pos' = 0
  BY DEF Leave
<1>2. WorkerHolds'
  BY <1>1 DEF WorkerHolds
<1> QED  BY <1>1, <1>2, Outside, SureTold

LEMMA EnqueueSure ==
    ASSUME CountInv, Sure, NEW s \in Starts, NEW e \in Nat, Enqueue(s, e)
    PROVE  Sure'
<1>1. PICK st \in {"queued", "failed"} :
         docs' = [docs EXCEPT ![s] =
                    [status |-> st, end |-> e, ckpt |-> FindSyncCheckpoints(s), prog |-> NoProgress]]
  BY DEF Enqueue
<1>2. /\ pc = "idle" /\ pc' \in {"idle", "queued"}
      /\ reach' = [reach EXCEPT ![s] = IF FindSyncCheckpoints(s) = NoCheckpoints THEN Unbounded
                                       ELSE IF docs[s].ckpt = NoCheckpoints THEN Nothing ELSE @]
      /\ UNCHANGED <<cover, stored, act, pos>>
  BY DEF Enqueue, HandOn, dbVars, listVars
<1>3. act = 1 /\ pos = 0
  BY <1>2, SureTold DEF LoopHolds, Looping, Fetching
<1>4. WindowHolds' /\ AboveHolds' /\ LoopHolds' /\ WorkerHolds'
  BY <1>2, <1>3, Outside DEF WorkerHolds
<1>5. docs \in [Starts -> Docs] /\ reach \in [Starts -> Nothing .. Unbounded]
  BY Same DEF DocType, HistoryType
<1>6. ASSUME NEW x \in Actions
      PROVE  FindSyncCheckpoints(s)[x] + 1 .. reach'[s] \subseteq stored[x]
  <2>1. CASE FindSyncCheckpoints(s) = NoCheckpoints
    <3>1. reach'[s] = MaxBlock + 1 /\ FindSyncCheckpoints(s)[x] = MaxBlock + 1
      BY <1>2, <1>5, <2>1, Constants DEF NoCheckpoints, NoCheckpoint
    <3> QED  BY <3>1, Constants
  <2>2. CASE FindSyncCheckpoints(s) # NoCheckpoints /\ docs[s].ckpt = NoCheckpoints
    <3>1. reach'[s] = -1 /\ FindSyncCheckpoints(s) = Legacy(s)
      BY <1>2, <1>5, <2>2, Constants DEF FindSyncCheckpoints
    <3>2. Legacy(s)[x] \in Int /\ 0 <= Legacy(s)[x]
      <4>1. docs[s].prog.act \in Nat /\ docs[s].prog.lo \in Int /\ docs[s].prog.hi \in Int /\ s \in Nat
        BY <1>5, Constants DEF Docs, Reports
      <4> QED  BY <4>1, Constants DEF Legacy, NoCheckpoint
    <3> QED  BY <3>1, <3>2
  <2>3. CASE FindSyncCheckpoints(s) # NoCheckpoints /\ docs[s].ckpt # NoCheckpoints
    <3>1. reach'[s] = reach[s] /\ FindSyncCheckpoints(s) = docs[s].ckpt
      BY <1>2, <1>5, <2>3 DEF FindSyncCheckpoints
    <3> QED  BY <3>1 DEF Sure
  <2> QED  BY <2>1, <2>2, <2>3
<1>7. Told'
  <2> SUFFICES ASSUME NEW r \in Starts, NEW x \in Actions
               PROVE  docs'[r].ckpt[x] + 1 .. reach'[r] \subseteq stored'[x]
    BY DEF Told
  <2>1. CASE r = s
    BY <1>1, <1>2, <1>5, <1>6, <2>1
  <2>2. CASE r # s
    <3>1. docs'[r] = docs[r] /\ reach'[r] = reach[r]
      BY <1>1, <1>2, <1>5, <2>2
    <3> QED  BY <1>2, <3>1 DEF Sure
  <2> QED  BY <2>1, <2>2
<1>8. Sound'
  BY <1>2, SoundKept, SameGrows, SureTold
<1> QED  BY <1>4, <1>7, <1>8, SureTold

LEMMA CounterpartySure ==
    ASSUME CountInv, Sure, NEW x \in Actions, NEW b \in Shared, CounterpartySync(x, b)
    PROVE  Sure'
<1>1. /\ pc \in {"idle", "queued"}
      /\ UNCHANGED <<cover, docs, pc, act, pos, reach>>
      /\ stored' = [stored EXCEPT ![x] = @ \cup {b}]
  BY DEF CounterpartySync, docVars, workVars, listVars, history
<1>2. Grows
  BY <1>1, Same DEF DbType, Grows
<1>3. act = 1 /\ pos = 0
  BY <1>1, SureTold DEF LoopHolds, Looping, Fetching
<1>4. Sound' /\ Told'
  BY <1>1, <1>2, SoundKept, ToldKept, SureTold
<1> QED  BY <1>1, <1>3, <1>4, Outside, SureTold DEF WorkerHolds

\* A step that leaves the place, the window and the worker's copy as they are.
LEMMA LoopKept ==
    ASSUME CountInv, Sure, SameEnds, UNCHANGED <<cover, stored, pc, cur, mem, handed, safeHead, trunc, listVars, reach>>
    PROVE  WorkerHolds' /\ WindowHolds' /\ AboveHolds' /\ LoopHolds'
<1>1. WorkerHolds'
  BY SureTold DEF WorkerHolds
<1>2. AboveHolds'
  BY SureTold DEF AboveHolds, listVars
<1>3. CASE pc \in {"idle", "queued", "lookup"}
  <2>1. act = 1 /\ pos = 0
    BY <1>3, SureTold DEF LoopHolds, Looping, Fetching
  <2> QED  BY <1>1, <1>3, <2>1, Outside DEF listVars
<1>4. CASE pc \in Looping \cup {"complete"}
  <2>1. WindowEnd(safeHead)' = WindowEnd(safeHead)
    BY <1>4, WindowKept DEF Looping, Fetching
  <2>2. Want' = Want /\ TwoGaps(safeHead)' = TwoGaps(safeHead)
    BY <2>1 DEF Want, Window, TwoGaps
  <2>3. GapsLeft' = GapsLeft
    BY <2>2 DEF GapsLeft, listVars
  <2>4. Pending' = Pending
    BY <2>3 DEF Pending
  <2>5. WindowHolds'
    BY <2>1, <2>2, SureTold DEF WindowHolds
  <2>6. LoopHolds'
    BY <2>1, <2>4, SureTold DEF LoopHolds, In, listVars
  <2> QED  BY <1>1, <1>2, <2>5, <2>6
<1> QED  BY <1>3, <1>4, Same DEF WorkType, Places, Looping, Fetching

LEMMA StopSure ==
    ASSUME CountInv, Sure, NEW s \in Starts, Stop(s)
    PROVE  Sure'
<1>1. UNCHANGED <<cover, stored, pc, cur, mem, handed, safeHead, trunc, listVars, reach>>
  BY DEF Stop, history
<1>2. SameEnds /\ \A r \in Starts : docs'[r].ckpt = docs[r].ckpt
  BY StopEffect
<1>3. Sound' /\ Told'
  BY <1>1, <1>2, SoundKept, ToldKept, SameGrows, SureTold
<1> QED  BY <1>1, <1>2, <1>3, LoopKept, SureTold

\* Crash, Abandon and a job that is dropped keep the checkpoints.
LEMMA DroppedSure ==
    ASSUME CountInv, Sure, Leave, UNCHANGED <<cover, stored, reach>>, \A r \in Starts : docs'[r].ckpt = docs[r].ckpt
    PROVE  Sure'
<1>1. Sound' /\ Told'
  BY SoundKept, ToldKept, SameGrows, SureTold
<1> QED  BY <1>1, LeaveSure

LEMMA LeavesSure ==
    ASSUME CountInv, Sure, Crash \/ Abandon
    PROVE  Sure'
<1>1. Leave /\ UNCHANGED <<cover, stored, reach>>
  BY DEF Crash, Abandon, dbVars, history
<1>2. \A r \in Starts : docs'[r].ckpt = docs[r].ckpt
  BY CrashEffect DEF Abandon, docVars
<1> QED  BY <1>1, <1>2, DroppedSure

LEMMA DequeueSure ==
    ASSUME CountInv, Sure, Dequeue
    PROVE  Sure'
<1>0. UNCHANGED <<cover, stored, reach>> /\ pc = "queued"
  BY DEF Dequeue, dbVars, history
<1>1. CASE Leave /\ UNCHANGED docs
  BY <1>0, <1>1, DroppedSure
<1>2. CASE Taken
  <2>1. \A r \in Starts : docs'[r].ckpt = docs[r].ckpt
    BY <1>0, <1>2, TakenEffect
  <2>2. Sound' /\ Told'
    BY <1>0, <2>1, SoundKept, ToldKept, SameGrows, SureTold
  <2>3. cur \in Starts /\ act = 1 /\ pos = 0 /\ pc' = "lookup" /\ mem' = docs[cur].ckpt /\ UNCHANGED <<cur, act, pos>>
    BY <1>0, <1>2, Same, SureTold DEF LoopHolds, Looping, Fetching, Taken, doc, listVars
  <2>4. WorkerHolds'
    BY <1>0, <2>3 DEF WorkerHolds, Sure
  <2> QED  BY <2>2, <2>3, <2>4, Outside, SureTold
<1> QED  BY <1>1, <1>2 DEF Dequeue, Taken

LEMMA CountOnceSure ==
    ASSUME CountInv, Sure, CountOnce
    PROVE  Sure'
<1>1. UNCHANGED <<cover, stored, pc, cur, mem, handed, safeHead, trunc, listVars, reach, docs>>
  BY DEF CountOnce, history, workVars, docVars
<1>2. SameEnds
  BY <1>1, Same, SameDocs
<1>3. Sound' /\ Told'
  BY <1>1, <1>2, SoundKept, ToldKept, SameGrows, SureTold
<1> QED  BY <1>1, <1>2, <1>3, LoopKept, SureTold

\* The job ends; what the worker knew may be saved.
LEMMA EndTold ==
    ASSUME CountInv, Sure, Grows, UNCHANGED reach, pc \notin {"idle", "queued"},
           Fail \/ Finish(TRUE) \/ Finish(FALSE) \/ Finish(trunc)
    PROVE  Leave /\ Told'
<1>1. Leave /\ \A s \in Starts : docs'[s].ckpt = docs[s].ckpt \/ (s = cur /\ docs'[s].ckpt = mem)
  BY EndEffect
<1>2. \A x \in Actions : mem[x] + 1 .. reach[cur] \subseteq stored'[x]
  BY SureTold DEF WorkerHolds, Grows
<1> QED  BY <1>1, <1>2, ToldKept, SureTold

LEMMA EndSure ==
    ASSUME CountInv, Sure, Grows, UNCHANGED <<cover, reach>>, pc \notin {"idle", "queued"},
           Fail \/ Finish(TRUE) \/ Finish(FALSE) \/ Finish(trunc)
    PROVE  Sure'
BY SoundKept, EndTold, LeaveSure, SureTold

LEMMA LookupEndsSure ==
    ASSUME CountInv, Sure, LookupHighFrequency \/ LookupCached \/ LookupFails
    PROVE  Sure'
<1>1. /\ UNCHANGED <<cover, stored, reach>> /\ (Fail \/ Finish(TRUE) \/ Finish(FALSE))
      /\ pc \notin {"idle", "queued"}
  BY DEF LookupHighFrequency, LookupCached, LookupFails, dbVars, history
<1> QED  BY <1>1, SameGrows, EndSure

LEMMA FetchFailsSure ==
    ASSUME CountInv, Sure, FetchFails
    PROVE  Sure'
<1>1. UNCHANGED <<cover, reach>> /\ Fail /\ pc \notin {"idle", "queued"}
  BY DEF FetchFails, history
<1>2. Grows
  <2>1. CASE UNCHANGED stored
    BY <2>1, SameGrows
  <2>2. CASE \E B \in SUBSET (low .. top) : stored' = [stored EXCEPT ![act] = @ \cup B]
    BY <2>2, Same DEF DbType, Grows
  <2> QED  BY <2>1, <2>2 DEF FetchFails
<1> QED  BY <1>1, <1>2, EndSure
-----------------------------------------------------------------------------
(* The loop over the actions *)

\* Of an action that nothing was listed of yet, what is not stored lies in its gaps.
LEMMA FreshAction ==
    ASSUME NEW want \in Ranges, NEW x \in Actions, cover[x] \in Ranges, Claimed(cover[x]) \subseteq stored[x]
    PROVE  want[1] .. want[2] \subseteq stored[x] \cup UNION {g[1] .. g[2] : g \in Gaps(want, cover[x])}
BY GapsCompleteWindow

\* No gap starts before its window.
LEMMA GapsInside ==
    ASSUME NEW want \in Ranges, NEW have \in Ranges, NEW g \in Gaps(want, have)
    PROVE  want[1] <= g[1] /\ g[1] \in Int /\ g[2] \in Int
BY GapsOrdered, GapsType DEF Ranges

\* Two gaps have the coverage between them.
LEMMA GapsApart ==
    ASSUME NEW want \in Ranges, NEW have \in Ranges,
           NEW f \in Gaps(want, have), NEW g \in Gaps(want, have), f # g, g[1] <= f[1]
    PROVE  g[2] < f[1]
<1>1. Valid(have) /\ have[1] \in Int /\ have[2] \in Int /\ want[1] \in Int /\ want[2] \in Int
  BY DEF Gaps, Ranges
<1> DEFINE l == <<want[1], have[1] - 1>>
           u == <<Greater(want[1], have[2] + 1), want[2]>>
<1>2. /\ f \in {l, u} /\ g \in {l, u}
      /\ l \in {f, g} => want[1] < have[1]
  BY <1>1 DEF Gaps
<1>3. u[1] \in Int /\ have[2] + 1 <= u[1] /\ l[2] = have[1] - 1 /\ l[1] = want[1] /\ have[1] <= have[2]
  BY <1>1 DEF Greater, Valid
<1>4. CASE g = l /\ f = u
  BY <1>1, <1>3, <1>4
<1>5. CASE g = u /\ f = l
  BY <1>1, <1>2, <1>3, <1>5
<1> QED  BY <1>2, <1>4, <1>5

\* The first visit to an action: every gap of it is left.
LEMMA FreshLeft ==
    ASSUME NEW want \in Ranges, want[1] \in Nat, Want' = want, cur' = want[1], WindowEnd(safeHead)' = want[2],
           act' \in Actions, pos' = 0, UNCHANGED <<cover, stored>>, DbType, Sound
    PROVE  In(act, Pending)'
<1>1. cover[act'] \in Ranges /\ Claimed(cover[act']) \subseteq stored[act']
  BY DEF DbType, Sound
<1>2. want[1] .. want[2] \subseteq stored[act'] \cup UNION {g[1] .. g[2] : g \in Gaps(want, cover[act'])}
  BY <1>1, FreshAction
<1>3. GapsLeft' = Gaps(want, cover[act'])
  BY <1>1, GapsInside DEF GapsLeft
<1> QED  BY <1>2, <1>3 DEF In, Pending

\* What does not depend on the place in the loop.
LEMMA WindowFrame ==
    ASSUME CountInv, SameEnds, pc # "idle", UNCHANGED <<cover, cur, safeHead>>
    PROVE  /\ WindowEnd(safeHead)' = WindowEnd(safeHead) /\ Want' = Want
           /\ TwoGaps(safeHead)' = TwoGaps(safeHead)
<1>1. WindowEnd(safeHead)' = WindowEnd(safeHead)
  BY WindowKept
<1> QED  BY <1>1 DEF Want, Window, TwoGaps

LEMMA WindowSure ==
    ASSUME CountInv, WindowHolds, SameEnds, pc \in Looping \cup {"complete"},
           UNCHANGED <<cover, cur, safeHead, handed, reach>>
    PROVE  WindowHolds'
<1>1. /\ WindowEnd(safeHead)' = WindowEnd(safeHead) /\ TwoGaps(safeHead)' = TwoGaps(safeHead)
  BY WindowFrame DEF Looping, Fetching
<1> QED  BY <1>1 DEF WindowHolds

\* Inside a listing the gaps still to visit stay what they are.
LEMMA ListingFrame ==
    ASSUME CountInv, SameEnds, pc # "idle", UNCHANGED <<cover, cur, safeHead, act, pos>>
    PROVE  Pending' = Pending /\ WindowEnd(safeHead)' = WindowEnd(safeHead)
<1>1. WindowEnd(safeHead)' = WindowEnd(safeHead) /\ Want' = Want
  BY WindowFrame
<1>2. GapsLeft' = GapsLeft
  BY <1>1 DEF GapsLeft
<1> QED  BY <1>1, <1>2 DEF Pending

LEMMA SaveTold ==
    ASSUME CountInv, Sure, Grows, UNCHANGED reach, pc \notin {"idle", "queued"},
           NEW m \in [Actions -> Int], NEW p \in Reports, Save("running", m, p),
           \A x \in Actions : m[x] + 1 .. reach[cur] \subseteq stored'[x]
    PROVE  Told' /\ SameEnds
<1>1. /\ SameEnds
      /\ \A s \in Starts : docs'[s].ckpt = docs[s].ckpt \/ (s = cur /\ docs'[s].ckpt = m)
  BY Same, SaveEffect DEF JobStatus
<1> QED  BY <1>1, ToldKept, SureTold

LEMMA LookupMissSure ==
    ASSUME CountInv, Sure, LookupMiss, CountInv', ~misled'
    PROVE  Sure'
<1>1. /\ UNCHANGED <<cover, stored, docs, cur, mem, handed, trunc, act, pos>>
      /\ pc = "lookup" /\ pc' = "gap" /\ safeHead' = head'
      /\ handed => ~TwoGaps(head') /\ ~(reach[cur] < WindowEnd(head'))
      /\ reach' = [reach EXCEPT ![cur] = IF TwoGaps(head') THEN Nothing ELSE Lesser(@, WindowEnd(head'))]
  BY DEF LookupMiss, Observe, docVars, listVars
<1> DEFINE e == WindowEnd(head')
<1>2. cur \in Starts /\ cur \in Nat /\ e \in Nat
  <2>1. cur \in Starts /\ docs[cur].end \in Nat /\ head' \in Nat
    <3>1. head' \in MinBlock .. MaxBlock
      BY <1>1, Same, Constants DEF LookupMiss, WorldType
    <3> QED  BY <1>1, <3>1, Same, Constants DEF Docs
  <2> QED  BY <2>1, Constants DEF WindowEnd, Lesser, doc
<1>3. WindowEnd(safeHead)' = e /\ Want' = <<cur, e>> /\ TwoGaps(safeHead)' = TwoGaps(head')
  <2>1. WindowEnd(safeHead)' = e
    BY <1>1 DEF WindowEnd, doc
  <2>2. Window(safeHead)' = Window(head')
    BY <1>1, <2>1 DEF Window
  <2> QED  BY <1>1, <2>1, <2>2 DEF Want, Window, TwoGaps
<1>4. /\ \A s \in Starts : reach[s] \in Int /\ -1 <= reach[s]
      /\ reach \in [Starts -> Nothing .. Unbounded]
  BY ReachType, Same DEF HistoryType
<1>5. /\ \A s \in Starts : reach'[s] \in Int /\ reach'[s] <= reach[s]
      /\ reach'[cur] <= e /\ (TwoGaps(head') => reach'[cur] = Nothing)
      /\ handed => reach'[cur] = e
  <2>1. reach'[cur] = (IF TwoGaps(head') THEN Nothing ELSE Lesser(reach[cur], e))
    BY <1>1, <1>2, <1>4
  <2>2. \A s \in Starts \ {cur} : reach'[s] = reach[s]
    BY <1>1, <1>4
  <2> HIDE DEF e
  <2> QED  BY <1>1, <1>2, <1>4, <2>1, <2>2, Constants DEF Lesser, e
<1>6. Told'
  <2> SUFFICES ASSUME NEW s \in Starts, NEW x \in Actions
               PROVE  docs'[s].ckpt[x] + 1 .. reach'[s] \subseteq stored'[x]
    BY DEF Told
  <2>1. docs[s].ckpt[x] \in Int /\ docs[s].ckpt[x] + 1 .. reach[s] \subseteq stored[x]
    BY Same DEF Sure, DocType, Docs
  <2> QED  BY <1>1, <1>4, <1>5, <2>1
<1>7. WorkerHolds'
  <2> SUFFICES ASSUME NEW x \in Actions PROVE mem'[x] + 1 .. reach'[cur'] \subseteq stored'[x]
    BY DEF WorkerHolds
  <2>1. mem[x] \in Int /\ mem[x] + 1 .. reach[cur] \subseteq stored[x]
    BY <1>1, SureTold, Same DEF WorkerHolds, WorkType
  <2> QED  BY <1>1, <1>2, <1>4, <1>5, <2>1
<1>8. WindowHolds'
  BY <1>1, <1>3, <1>5 DEF WindowHolds
<1>9. AboveHolds'
  BY <1>1 DEF AboveHolds
<1>10. act = 1 /\ pos = 0
  BY <1>1, SureTold DEF LoopHolds, Looping, Fetching
<1>11. In(act, Pending)'
  <2>1. <<cur, e>> \in Ranges /\ act' \in Actions
    BY <1>1, <1>2, <1>10, Constants DEF Ranges
  <2> HIDE DEF e
  <2>2. DbType /\ Sound
    BY Same, SureTold
  <2> QED  BY <1>1, <1>2, <1>3, <1>10, <2>1, <2>2, FreshLeft
<1>12. LoopHolds'
  <2>1. \A x \in Actions : ~(x < 1)
    BY DEF Actions
  <2> QED  BY <1>1, <1>10, <1>11, <2>1 DEF LoopHolds, Looping, Fetching
<1>13. Sound'
  BY <1>1, SoundKept, SameGrows, SureTold
<1> QED  BY <1>6, <1>7, <1>8, <1>9, <1>12, <1>13, SureTold

\* The lowest gap left brings in what it covers: a checkpoint cuts off stored blocks only.
LEMMA GapSplit ==
    ASSUME CountInv, Sure, pc = "gap", NEW g \in GapsLeft, \A f \in GapsLeft : g[1] <= f[1],
           NEW b \in cur .. WindowEnd(safeHead), b \in stored[act] \cup Pending
    PROVE  \/ b \in stored[act]
           \/ b \in g[1] .. GapEnd(g)
           \/ \E f \in Gaps(Want, cover[act]) : f[1] >= g[2] + 1 /\ b \in f[1] .. f[2]
<1>1. /\ Want \in Ranges /\ cover[act] \in Ranges /\ act \in Actions /\ mem[act] \in Int
      /\ WindowEnd(safeHead) \in Nat /\ cur \in Nat
  BY WindowShape, Same DEF Looping, ListType, DbType, WorkType
<1>2. g \in Gaps(Want, cover[act]) /\ g[1] \in Int /\ g[2] \in Int
  BY <1>1, GapsInside DEF GapsLeft
<1>3. CASE b \in stored[act]
  BY <1>3
<1>4. CASE b \notin stored[act]
  <2>1. PICK f \in GapsLeft : b \in f[1] .. f[2]
    BY <1>4 DEF Pending
  <2>2. f \in Gaps(Want, cover[act]) /\ f[1] \in Int /\ f[2] \in Int
    BY <1>1, GapsInside DEF GapsLeft
  <2>3. CASE f # g
    <3>1. g[2] < f[1]
      BY <1>1, <1>2, <2>2, <2>3, GapsApart
    <3> QED  BY <1>2, <2>1, <2>2, <3>1
  <2>4. CASE f = g
    <3>1. CASE b <= GapEnd(g)
      BY <1>1, <1>2, <2>1, <2>4, <3>1 DEF GapEnd, Lesser
    <3>2. CASE ~(b <= GapEnd(g))
      <4>1. handed /\ mem[act] < b
        BY <1>1, <1>2, <2>1, <2>4, <3>2 DEF GapEnd, Lesser
      <4>2. reach[cur] = WindowEnd(safeHead)
        BY <4>1, SureTold DEF WindowHolds, Looping
      <4>3. mem[act] + 1 .. reach[cur] \subseteq stored[act]
        BY <1>1, SureTold DEF WorkerHolds
      <4> QED  BY <1>1, <4>1, <4>2, <4>3
    <3> QED  BY <3>1, <3>2
  <2> QED  BY <2>3, <2>4
<1> QED  BY <1>3, <1>4

\* Above the range to be listed everything the checkpoints tell of is stored.
LEMMA GapAbove ==
    ASSUME CountInv, Sure, pc = "gap", NEW g \in GapsLeft, GapEnd(g) >= g[1]
    PROVE  GapEnd(g) + 1 .. reach[cur] \subseteq stored[act]
<1>1. /\ Want \in Ranges /\ cover[act] \in Ranges /\ act \in Actions /\ mem[act] \in Int
      /\ WindowEnd(safeHead) \in Nat /\ cur \in Nat /\ Want = <<cur, WindowEnd(safeHead)>>
      /\ cur \in Starts /\ Want = Window(safeHead)
  BY WindowShape, Same DEF Looping, ListType, DbType, WorkType, Want
<1>2. g \in Gaps(Want, cover[act]) /\ g[1] \in Int /\ g[2] \in Int /\ cur <= g[1]
  BY <1>1, GapsInside DEF GapsLeft
<1>3. GapEnd(g) \in Int /\ reach[cur] \in Int
  BY <1>1, <1>2, ReachType DEF GapEnd, Lesser
<1>4. CASE TwoGaps(safeHead)
  <2>1. reach[cur] = -1
    BY <1>4, SureTold, Constants DEF WindowHolds, Looping
  <2> QED  BY <1>1, <1>2, <1>3, <2>1
<1>5. CASE ~TwoGaps(safeHead)
  <2> SUFFICES ASSUME NEW b \in GapEnd(g) + 1 .. reach[cur] PROVE b \in stored[act]
    OBVIOUS
  <2>1. reach[cur] <= WindowEnd(safeHead)
    BY SureTold DEF WindowHolds, Looping
  <2>2. b \in Int /\ b \in cur .. WindowEnd(safeHead) /\ GapEnd(g) < b
    BY <1>1, <1>2, <1>3, <2>1
  <2>3. CASE b <= g[2]
    <3>1. handed /\ mem[act] < b
      BY <1>1, <1>2, <2>2, <2>3 DEF GapEnd, Lesser
    <3>2. mem[act] + 1 .. reach[cur] \subseteq stored[act]
      BY <1>1, SureTold DEF WorkerHolds
    <3> QED  BY <1>1, <1>3, <2>2, <3>1, <3>2
  <2>4. CASE ~(b <= g[2])
    <3>1. Claimed(cover[act]) \subseteq stored[act]
      BY <1>1, SureTold DEF Sound
    <3>2. b \in stored[act] \cup UNION {f[1] .. f[2] : f \in Gaps(Want, cover[act])}
      BY <1>1, <2>2, <3>1, FreshAction
    <3>3. \A f \in Gaps(Want, cover[act]) : f = g
      BY <1>1, <1>2, <1>5 DEF TwoGaps
    <3> QED  BY <1>2, <2>2, <2>4, <3>2, <3>3
  <2> QED  BY <2>3, <2>4
<1> QED  BY <1>4, <1>5

LEMMA NextGapSure ==
    ASSUME CountInv, Sure, NextGap
    PROVE  Sure'
<1>1. PICK g \in GapsLeft :
         /\ \A f \in GapsLeft : g[1] <= f[1]
         /\ pos' = g[2] + 1
         /\ \/ GapEnd(g) >= g[1] /\ List(g[1], GapEnd(g), Limit - counts[act])
            \/ GapEnd(g) < g[1] /\ UNCHANGED <<pc, lo, hi, room>>
  BY DEF NextGap
<1>2. /\ pc = "gap"
      /\ UNCHANGED <<cover, stored, docs, cur, mem, handed, safeHead, trunc, act, reach>>
  BY DEF NextGap, dbVars, docVars, workVars, history
<1>3. SameEnds
  BY <1>2, Same, SameDocs
<1>4. Sound' /\ Told' /\ WorkerHolds' /\ WindowHolds'
  <2>1. Sound' /\ Told'
    BY <1>2, <1>3, SoundKept, ToldKept, SameGrows, SureTold
  <2>2. WorkerHolds'
    BY <1>2, SureTold DEF WorkerHolds
  <2>3. WindowHolds'
    BY <1>2, <1>3, WindowSure, SureTold DEF Looping
  <2> QED  BY <2>1, <2>2, <2>3
<1>5. WindowEnd(safeHead)' = WindowEnd(safeHead) /\ Want' = Want
  BY <1>2, <1>3, WindowFrame
<1>6. GapsLeft' = {f \in Gaps(Want, cover[act]) : f[1] >= g[2] + 1}
  BY <1>1, <1>2, <1>5 DEF GapsLeft
<1>7. ~trunc => In(act, Pending) /\ \A x \in Actions : x < act => In(x, {})
  BY <1>2, SureTold DEF LoopHolds, Looping
<1>8. ~trunc => \A b \in cur .. WindowEnd(safeHead) :
                   b \in stored[act] \/ b \in g[1] .. GapEnd(g) \/ b \in Pending'
  <2> SUFFICES ASSUME ~trunc, NEW b \in cur .. WindowEnd(safeHead)
               PROVE  b \in stored[act] \/ b \in g[1] .. GapEnd(g) \/ b \in Pending'
    OBVIOUS
  <2>1. b \in stored[act] \cup Pending
    BY <1>7 DEF In
  <2>2. \/ b \in stored[act]
        \/ b \in g[1] .. GapEnd(g)
        \/ \E f \in Gaps(Want, cover[act]) : f[1] >= g[2] + 1 /\ b \in f[1] .. f[2]
    BY <1>1, <1>2, <2>1, GapSplit
  <2> QED  BY <1>6, <2>2 DEF Pending
<1>9. ~trunc => \A x \in Actions : x < act => In(x, {})'
  BY <1>2, <1>5, <1>7 DEF In
<1>10. CASE GapEnd(g) >= g[1] /\ List(g[1], GapEnd(g), Limit - counts[act])
  <2>1. lo' = g[1] /\ hi' = GapEnd(g) /\ pc' = "list"
    BY <1>10 DEF List
  <2>2. AboveHolds'
    BY <1>1, <1>2, <1>10, <2>1, GapAbove DEF AboveHolds
  <2>3. ~trunc => In(act, Pending \cup (lo .. hi))'
    BY <1>2, <1>5, <1>8, <2>1 DEF In
  <2>4. LoopHolds'
    BY <1>2, <1>9, <2>1, <2>3 DEF LoopHolds, Looping, Fetching
  <2> QED  BY <1>4, <2>2, <2>4, SureTold
<1>11. CASE GapEnd(g) < g[1] /\ UNCHANGED <<pc, lo, hi, room>>
  <2>1. AboveHolds'
    BY <1>2, <1>11 DEF AboveHolds
  <2>2. GapEnd(g) \in Int /\ g[1] \in Int
    <3>1. g[1] \in Int /\ g[2] \in Int /\ mem[act] \in Int
      BY <1>2, GapShape, Same DEF ListType, WorkType
    <3> QED  BY <3>1 DEF GapEnd, Lesser
  <2>3. ~trunc => In(act, Pending)'
    BY <1>2, <1>5, <1>8, <1>11, <2>2 DEF In
  <2>4. LoopHolds'
    BY <1>2, <1>9, <1>11, <2>3 DEF LoopHolds, Looping, Fetching
  <2> QED  BY <1>4, <2>1, <2>4, SureTold
<1> QED  BY <1>1, <1>10, <1>11

LEMMA NextActionSure ==
    ASSUME CountInv, Sure, NextAction, CountInv'
    PROVE  Sure'
<1>1. /\ pc = "gap" /\ (GapsLeft = {} \/ counts[act] >= Limit)
      /\ UNCHANGED <<cover, stored, docs, cur, mem, handed, safeHead, trunc, reach>>
  BY DEF NextAction, dbVars, docVars, workVars, history
<1>2. SameEnds
  BY <1>1, Same, SameDocs
<1>3. Sound' /\ Told' /\ WorkerHolds' /\ WindowHolds'
  <2>1. Sound' /\ Told'
    BY <1>1, <1>2, SoundKept, ToldKept, SameGrows, SureTold
  <2>2. WorkerHolds'
    BY <1>1, SureTold DEF WorkerHolds
  <2>3. WindowHolds'
    BY <1>1, <1>2, WindowSure, SureTold DEF Looping
  <2> QED  BY <2>1, <2>2, <2>3
<1>4. /\ WindowEnd(safeHead)' = WindowEnd(safeHead) /\ Want' = Want
      /\ Want = <<cur, WindowEnd(safeHead)>> /\ Want \in Ranges /\ cur \in Nat
  BY <1>1, <1>2, WindowFrame, WindowShape DEF Looping
<1>5. ~trunc => /\ In(act, {})
                /\ \A x \in Actions : x < act => In(x, {})
  <2> SUFFICES ASSUME ~trunc PROVE In(act, {}) /\ \A x \in Actions : x < act => In(x, {})
    OBVIOUS
  <2>1. In(act, Pending) /\ \A x \in Actions : x < act => In(x, {})
    BY <1>1, SureTold DEF LoopHolds, Looping
  <2>2. ~(counts[act] >= Limit)
    BY <1>1, Same DEF CountInv, LimitHeld, AtLimit, ListType
  <2>3. Pending = {}
    BY <1>1, <2>2 DEF Pending
  <2> QED  BY <2>1, <2>3
<1>6. act \in Actions /\ act \in Nat /\ NumActions \in Nat
  BY Same, Constants DEF ListType
<1>7. AboveHolds'
  BY <1>1 DEF NextAction, AboveHolds
<1>8. CASE act < NumActions /\ ~trunc /\ act' = act + 1 /\ pos' = 0 /\ UNCHANGED pc
  <2>1. act' \in Actions
    BY <1>6, <1>8 DEF Actions
  <2>2. In(act, Pending)'
    <3>1. DbType /\ Sound
      BY Same, SureTold
    <3> QED  BY <1>1, <1>4, <1>8, <2>1, <3>1, FreshLeft
  <2>3. ASSUME NEW x \in Actions, x < act' PROVE In(x, {})'
    <3>1. x \in Nat /\ (x < act \/ x = act)
      BY <1>6, <1>8, <2>3, Constants
    <3>2. In(x, {})
      BY <1>5, <1>8, <3>1
    <3> QED  BY <1>1, <1>4, <3>2 DEF In
  <2> QED  BY <1>1, <1>3, <1>7, <1>8, <2>2, <2>3, SureTold DEF LoopHolds, Looping, Fetching
<1>9. CASE ~(act < NumActions /\ ~trunc) /\ pc' = "complete" /\ UNCHANGED <<act, pos>>
  <2>1. ASSUME ~trunc, NEW x \in Actions PROVE In(x, {})'
    <3>1. x \in Nat /\ (x < act \/ x = act)
      BY <1>6, <1>9, <2>1, Constants DEF Actions
    <3>2. In(x, {})
      BY <1>5, <2>1, <3>1
    <3> QED  BY <1>1, <1>4, <3>2 DEF In
  <2> QED  BY <1>1, <1>3, <1>7, <1>9, <2>1, SureTold DEF LoopHolds, Looping, Fetching
<1> QED  BY <1>8, <1>9 DEF NextAction

\* A step inside a listing: the window and the actions before stay as they are.
LEMMA ListingSure ==
    ASSUME CountInv, Sure, SameEnds, Grows, pc \in Fetching, pc' \in Fetching \cup {"gap"},
           UNCHANGED <<cover, cur, handed, safeHead, act, pos, reach>>, trunc => trunc'
    PROVE  /\ Sound' /\ WindowHolds' /\ Pending' = Pending /\ WindowEnd(safeHead)' = WindowEnd(safeHead)
           /\ ~trunc' => ~trunc /\ \A x \in Actions : x < act' => In(x, {})'
<1>1. Pending' = Pending /\ WindowEnd(safeHead)' = WindowEnd(safeHead)
  BY ListingFrame DEF Fetching
<1>2. Sound' /\ WindowHolds'
  BY SoundKept, WindowSure, SureTold DEF Looping
<1>3. ~trunc => \A x \in Actions : x < act => In(x, {})
  BY SureTold DEF LoopHolds, Looping
<1>4. ~trunc => \A x \in Actions : x < act => In(x, {})'
  BY <1>1, <1>3 DEF In, Grows
<1> QED  BY <1>1, <1>2, <1>4

LEMMA FetchSure ==
    ASSUME CountInv, Sure, Fetch, CountInv'
    PROVE  Sure'
<1>1. /\ pc = "list" /\ pc' = "persist" /\ prog' = [act |-> act, lo |-> lo, hi |-> hi] /\ top' = hi
      /\ Save("running", mem, prog')
      /\ UNCHANGED <<cover, stored, cur, mem, handed, safeHead, trunc, act, pos, lo, hi, reach>>
  BY DEF Fetch, Listed, dbVars, history
<1>2. Grows /\ mem \in [Actions -> Int] /\ prog' \in Reports
  <2>1. WorkType /\ WorkType'
    BY Same, TypePartsPrimed DEF CountInv
  <2> QED  BY <1>1, <2>1, SameGrows DEF WorkType
<1>3. \A x \in Actions : mem[x] + 1 .. reach[cur] \subseteq stored'[x]
  BY <1>1, SureTold DEF WorkerHolds
<1>4. Told' /\ SameEnds
  BY <1>1, <1>2, <1>3, SaveTold
<1>5. /\ Sound' /\ WindowHolds' /\ Pending' = Pending /\ WindowEnd(safeHead)' = WindowEnd(safeHead)
      /\ ~trunc' => ~trunc /\ \A x \in Actions : x < act' => In(x, {})'
  BY <1>1, <1>2, <1>4, ListingSure DEF Fetching
<1>6. WorkerHolds' /\ AboveHolds'
  BY <1>1, SureTold DEF WorkerHolds, AboveHolds
<1>7. ~trunc => In(act, Pending \cup (lo .. top))'
  <2>1. ~trunc => In(act, Pending \cup (lo .. hi))
    BY <1>1, SureTold DEF LoopHolds
  <2> QED  BY <1>1, <1>5, <2>1 DEF In
<1>8. LoopHolds'
  BY <1>1, <1>5, <1>7 DEF LoopHolds, Looping, Fetching
<1> QED  BY <1>4, <1>5, <1>6, <1>8, SureTold

LEMMA UpsertSure ==
    ASSUME CountInv, Sure, Upsert
    PROVE  Sure'
<1>1. PICK b \in low .. top : stored' = [stored EXCEPT ![act] = @ \cup (b .. top)] /\ top' = b - 1
  BY DEF Upsert
<1>2. /\ pc = "persist" /\ pc' = "count" /\ low <= top
      /\ UNCHANGED <<cover, docs, cur, mem, handed, safeHead, trunc, act, pos, lo, hi, reach>>
  BY DEF Upsert, docVars, workVars, history
<1>3. act \in Actions /\ low \in Int /\ top \in Int /\ lo \in Int /\ b \in Int /\ b <= top
  BY <1>1, <1>2, Persisting
<1>4. stored'[act] = stored[act] \cup (b .. top) /\ Grows
  BY <1>1, <1>3, Same DEF DbType, Grows
<1>5. SameEnds /\ Told'
  BY <1>2, <1>4, Same, SameDocs, ToldKept, SureTold
<1>6. /\ Sound' /\ WindowHolds' /\ Pending' = Pending /\ WindowEnd(safeHead)' = WindowEnd(safeHead)
      /\ ~trunc' => ~trunc /\ \A x \in Actions : x < act' => In(x, {})'
  BY <1>2, <1>4, <1>5, ListingSure DEF Fetching
<1>7. WorkerHolds'
  BY <1>2, <1>4, SureTold DEF WorkerHolds, Grows
<1>8. AboveHolds'
  <2>1. top + 1 .. reach[cur] \subseteq stored[act]
    BY <1>2, SureTold DEF AboveHolds
  <2>2. reach[cur] \in Int
    BY <1>2, Same, ReachType
  <2>3. (b - 1) + 1 .. reach[cur] \subseteq stored'[act]
    BY <1>3, <1>4, <2>1, <2>2
  <2> QED  BY <1>1, <1>2, <2>3 DEF AboveHolds
<1>9. ~trunc => In(act, Pending \cup (lo .. top))'
  <2>1. ~trunc => In(act, Pending \cup (lo .. top))
    BY <1>2, SureTold DEF LoopHolds
  <2>2. lo .. top \subseteq (lo .. b - 1) \cup (b .. top)
    BY <1>3
  <2> QED  BY <1>1, <1>2, <1>4, <1>6, <2>1, <2>2 DEF In
<1>10. LoopHolds'
  BY <1>2, <1>6, <1>9 DEF LoopHolds, Looping, Fetching
<1> QED  BY <1>5, <1>6, <1>7, <1>8, <1>10, SureTold

LEMMA CountSure ==
    ASSUME CountInv, Sure, Count
    PROVE  Sure'
<1>1. /\ pc = "count" /\ pc' = "persist"
      /\ UNCHANGED <<cover, stored, docs, cur, mem, handed, safeHead, trunc, act, pos, lo, hi, top, reach>>
  BY DEF Count, docVars, workVars, history
<1>2. SameEnds /\ Told' /\ Grows
  BY <1>1, Same, SameDocs, SameGrows, ToldKept, SureTold
<1>3. /\ Sound' /\ WindowHolds' /\ Pending' = Pending /\ WindowEnd(safeHead)' = WindowEnd(safeHead)
      /\ ~trunc' => ~trunc /\ \A x \in Actions : x < act' => In(x, {})'
  BY <1>1, <1>2, ListingSure DEF Fetching
<1>4. WorkerHolds' /\ AboveHolds'
  BY <1>1, SureTold DEF WorkerHolds, AboveHolds
<1>5. ~trunc => In(act, Pending \cup (lo .. top))'
  <2>1. ~trunc => In(act, Pending \cup (lo .. top))
    BY <1>1, SureTold DEF LoopHolds
  <2> QED  BY <1>1, <1>3, <2>1 DEF In
<1>6. LoopHolds'
  BY <1>1, <1>3, <1>5 DEF LoopHolds, Looping, Fetching
<1> QED  BY <1>2, <1>3, <1>4, <1>6, SureTold

\* The checkpoint that a page or a whole range leaves tells of stored records.
LEMMA Checkpointed ==
    ASSUME CountInv, Sure, pc = "persist", NEW c \in Int, c + 1 > top, mem' = [mem EXCEPT ![act] = c],
           Save("running", mem', prog), UNCHANGED <<stored, reach, cur>>
    PROVE  /\ SameEnds /\ Told' /\ WorkerHolds'
           /\ mem' \in [Actions -> Int]
<1>1. act \in Actions /\ mem \in [Actions -> Int] /\ prog \in Reports /\ top \in Int
  BY Same DEF ListType, WorkType
<1>2. top + 1 .. reach[cur] \subseteq stored[act] /\ \A x \in Actions : mem[x] + 1 .. reach[cur] \subseteq stored[x]
  BY SureTold DEF AboveHolds, WorkerHolds
<1>3. reach[cur] \in Int
  BY Same, ReachType
<1>4. c + 1 .. reach[cur] \subseteq stored[act]
  BY <1>1, <1>2, <1>3
<1>5. mem' \in [Actions -> Int] /\ \A x \in Actions : mem'[x] + 1 .. reach[cur] \subseteq stored'[x]
  BY <1>1, <1>2, <1>4
<1>6. SameEnds /\ Told'
  BY <1>1, <1>5, SameGrows, SaveTold
<1> QED  BY <1>5, <1>6 DEF WorkerHolds

LEMMA NextPageSure ==
    ASSUME CountInv, Sure, NextPage
    PROVE  Sure'
<1>1. /\ pc = "persist" /\ top < low /\ mem' = [mem EXCEPT ![act] = low - 1] /\ Save("running", mem', prog)
      /\ lo' = lo /\ hi' = low - 1 /\ pc' = "list"
      /\ UNCHANGED <<cover, stored, cur, handed, safeHead, trunc, act, pos, reach>>
  BY DEF NextPage, Persisted, List, dbVars, history
<1>2. low \in Int /\ top \in Int /\ lo \in Int /\ low - 1 <= top
  BY <1>1, Persisting
<1>3. SameEnds /\ Told' /\ WorkerHolds' /\ Grows
  <2>1. low - 1 \in Int /\ (low - 1) + 1 > top
    BY <1>1, <1>2
  <2> QED  BY <1>1, <2>1, Checkpointed, SameGrows
<1>4. /\ Sound' /\ WindowHolds' /\ Pending' = Pending /\ WindowEnd(safeHead)' = WindowEnd(safeHead)
      /\ ~trunc' => ~trunc /\ \A x \in Actions : x < act' => In(x, {})'
  BY <1>1, <1>3, ListingSure DEF Fetching
<1>5. AboveHolds'
  <2>1. top + 1 .. reach[cur] \subseteq stored[act] /\ low - 1 = top
    BY <1>1, <1>2, SureTold DEF AboveHolds
  <2> QED  BY <1>1, <2>1 DEF AboveHolds
<1>6. ~trunc => In(act, Pending \cup (lo .. hi))'
  <2>1. ~trunc => In(act, Pending \cup (lo .. top))
    BY <1>1, SureTold DEF LoopHolds
  <2> QED  BY <1>1, <1>2, <1>4, <2>1 DEF In
<1>7. LoopHolds'
  BY <1>1, <1>4, <1>6 DEF LoopHolds, Looping, Fetching
<1> QED  BY <1>3, <1>4, <1>5, <1>7, SureTold

LEMMA WholeSure ==
    ASSUME CountInv, Sure, Whole
    PROVE  Sure'
<1>1. /\ pc = "persist" /\ top < low /\ ending = "whole"
      /\ mem' = [mem EXCEPT ![act] = lo - 1] /\ Save("running", mem', prog)
      /\ pc' = "gap" /\ (trunc => trunc')
      /\ UNCHANGED <<cover, stored, cur, handed, safeHead, act, pos, reach>>
  BY DEF Whole, Persisted, Listing, dbVars, history
<1>2. low \in Int /\ top \in Int /\ lo \in Int /\ low = lo
  BY <1>1, Persisting
<1>3. SameEnds /\ Told' /\ WorkerHolds' /\ Grows
  <2>1. lo - 1 \in Int /\ (lo - 1) + 1 > top
    BY <1>1, <1>2
  <2> QED  BY <1>1, <2>1, Checkpointed, SameGrows
<1>4. /\ Sound' /\ WindowHolds' /\ Pending' = Pending /\ WindowEnd(safeHead)' = WindowEnd(safeHead)
      /\ ~trunc' => ~trunc /\ \A x \in Actions : x < act' => In(x, {})'
  BY <1>1, <1>3, ListingSure DEF Fetching
<1>5. AboveHolds'
  BY <1>1 DEF AboveHolds
<1>6. ~trunc' => In(act, Pending)'
  <2>1. ~trunc => In(act, Pending \cup (lo .. top))
    BY <1>1, SureTold DEF LoopHolds
  <2>2. lo .. top = {}
    BY <1>1, <1>2
  <2> QED  BY <1>1, <1>4, <2>1, <2>2 DEF In
<1>7. LoopHolds'
  BY <1>1, <1>4, <1>6 DEF LoopHolds, Looping, Fetching
<1> QED  BY <1>3, <1>4, <1>5, <1>7, SureTold

LEMMA CutSure ==
    ASSUME CountInv, Sure, Cut
    PROVE  Sure'
<1>1. /\ pc = "persist" /\ pc' = "gap" /\ trunc'
      /\ UNCHANGED <<cover, stored, docs, cur, mem, handed, safeHead, act, pos, reach>>
  BY DEF Cut, Persisted, Listing, dbVars, docVars, workVars, history
<1>2. SameEnds /\ Told' /\ Grows
  BY <1>1, Same, SameDocs, SameGrows, ToldKept, SureTold
<1>3. Sound' /\ WindowHolds'
  BY <1>1, <1>2, ListingSure DEF Fetching
<1>4. WorkerHolds' /\ AboveHolds'
  BY <1>1, SureTold DEF WorkerHolds, AboveHolds
<1>5. LoopHolds'
  BY <1>1 DEF LoopHolds, Looping, Fetching
<1> QED  BY <1>2, <1>3, <1>4, <1>5, SureTold

\* The claim of a job that was not truncated is its window and what was claimed before.
LEMMA CompleteSure ==
    ASSUME CountInv, Sure, Complete \/ CompleteFails
    PROVE  Sure'
<1>1. /\ pc = "complete" /\ UNCHANGED <<stored, reach>> /\ (Fail \/ Finish(trunc))
      /\ UNCHANGED cover \/ (~trunc /\ cover' = [x \in Actions |-> Merge(Want, cover[x])])
  BY Same DEF Complete, CompleteFails, Conclude, dbVars, WorkType, history
<1>2. CASE UNCHANGED cover
  BY <1>1, <1>2, SameGrows, EndSure
<1>3. CASE ~trunc /\ cover' = [x \in Actions |-> Merge(Want, cover[x])]
  <2>1. Leave /\ Told'
    BY <1>1, SameGrows, EndTold
  <2>2. Want = <<cur, WindowEnd(safeHead)>> /\ Want \in Ranges
    BY <1>1, WindowShape
  <2>3. ASSUME NEW x \in Actions PROVE Claimed(cover'[x]) \subseteq stored[x]
    <3>1. cover[x] \in Ranges /\ Claimed(cover[x]) \subseteq stored[x]
      BY Same, SureTold DEF DbType, Sound
    <3>2. Claimed(Merge(Want, cover[x])) \subseteq (Want[1] .. Want[2]) \cup Claimed(cover[x])
      BY <2>2, <3>1, MergeSound
    <3>3. In(x, {})
      BY <1>1, <1>3, SureTold DEF LoopHolds
    <3> QED  BY <1>3, <2>2, <3>1, <3>2, <3>3 DEF In
  <2>4. Sound'
    BY <1>1, <2>3 DEF Sound, Claimed, Valid
  <2> QED  BY <2>1, <2>4, LeaveSure
<1> QED  BY <1>1, <1>2, <1>3
-----------------------------------------------------------------------------
(* The theorems about jobs that were not misled *)

LEMMA InitSure == Init => IInv
<1> SUFFICES ASSUME Init PROVE IInv
  OBVIOUS
<1>1. CountInv
  BY InitCount
<1>2. Sound
  BY DEF Init, Sound, Claimed, Valid, NoCoverage
<1>3. \A s \in Starts, x \in Actions : docs[s].ckpt[x] + 1 .. reach[s] \subseteq stored[x]
  <2> SUFFICES ASSUME NEW s \in Starts, NEW x \in Actions
               PROVE  docs[s].ckpt[x] + 1 .. reach[s] \subseteq stored[x]
    OBVIOUS
  <2>1. docs[s].ckpt[x] = MaxBlock + 1 /\ reach[s] = MaxBlock + 1
    BY DEF Init, NoCheckpoints, NoCheckpoint, Unbounded
  <2> QED  BY <2>1, Constants
<1>4. WorkerHolds /\ WindowHolds /\ AboveHolds /\ LoopHolds
  BY DEF Init, WorkerHolds, WindowHolds, AboveHolds, LoopHolds, Looping, Fetching
<1> QED  BY <1>1, <1>2, <1>3, <1>4, SureParts DEF Sure

\* Nobody forgets that a job was misled.
LEMMA MisledStays == CountInv /\ [Next]_vars => (~misled' => ~misled)
<1> SUFFICES ASSUME CountInv, [Next]_vars PROVE ~misled' => ~misled
  OBVIOUS
<1>1. CASE LookupMiss
  BY <1>1, Same DEF LookupMiss, Observe, HistoryType
<1>2. CASE UNCHANGED misled
  BY <1>2
<1> QED
  BY <1>1, <1>2 DEF vars, Next, history, Enqueue, HandOn, CounterpartySync, Stop, Crash, Dequeue, Abandon,
     CountOnce, LookupHighFrequency, LookupCached, LookupFails, NextGap, NextAction, Fetch, Upsert, Count,
     FetchFails, NextPage, Whole, Cut, Complete, CompleteFails

LEMMA StepSure == IInv /\ [Next]_vars => IInv'
<1> SUFFICES ASSUME IInv, [Next]_vars PROVE IInv'
  OBVIOUS
<1>1. CountInv /\ CountInv'
  BY StepCount DEF IInv
<1>2. ASSUME ~misled' PROVE Sure'
  <2>1. Sure
    BY <1>1, <1>2, MisledStays, SureParts
  <2>2. CASE UNCHANGED vars
    <3>1. UNCHANGED <<cover, stored, docs, pc, cur, mem, handed, safeHead, trunc, listVars, reach>>
      BY <2>2 DEF vars, dbVars, docVars, workVars, listVars, history
    <3>2. SameEnds
      BY <1>1, <3>1, Same, SameDocs
    <3>3. Sound' /\ Told'
      BY <2>1, <3>1, SoundKept, ToldKept, SameGrows, SureTold
    <3> QED  BY <1>1, <2>1, <3>1, <3>2, <3>3, LoopKept, SureTold
  <2>3. CASE \E r \in Requests : Enqueue(r[1], r[2])
    BY <1>1, <2>1, <2>3, Constants, EnqueueSure
  <2>4. CASE LookupMiss
    BY <1>1, <1>2, <2>1, <2>4, LookupMissSure
  <2>5. CASE Next /\ ~LookupMiss /\ ~\E r \in Requests : Enqueue(r[1], r[2])
    BY <1>1, <2>1, <2>5, CounterpartySure, StopSure, LeavesSure, DequeueSure, CountOnceSure, LookupEndsSure,
       NextGapSure, NextActionSure, FetchSure, UpsertSure, CountSure, FetchFailsSure, NextPageSure, WholeSure,
       CutSure, CompleteSure DEF Next
  <2> QED  BY <2>2, <2>3, <2>4, <2>5
<1> QED  BY <1>1, <1>2, SureParts

\* What an address document claims is stored, for any requests, any heads and any order
\* of failures, until a retry is handed checkpoints that are compared with the wrong
\* thing: a window that ends above the ones they come from, two gaps, or a guess.  A page
\* boundary, a finished range, a cut and a retry of the same window leave nothing out.
\* (Without the exception the claim fails: see RetriedCoverageSound.)
THEOREM CoverageAlwaysSound == Spec => []CoverageSound
<1>1. IInv => CoverageSound
  BY DEF IInv
<1> QED  BY InitSure, StepSure, <1>1, PTL DEF Spec

\* Until then what any saved checkpoint tells a retry is stored, up to the lowest end of
\* the windows it comes from.
THEOREM CheckpointsAlwaysSound == Spec => []CheckpointsSound
<1>1. IInv => CheckpointsSound
  BY DEF IInv
<1> QED  BY InitSure, StepSure, <1>1, PTL DEF Spec
=============================================================================
