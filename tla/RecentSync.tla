----------------------------- MODULE RecentSync -----------------------------
(***************************************************************************)
(* One address under the default SYNC_MAX_RECORDS_PER_ACTION > 0           *)
(* (syncer/manager.go): every explorer action is listed newest block       *)
(* first (fetchRecentRange), its checkpoint moves DOWN with the blocks     *)
(* persisted, and an action that reaches the record limit makes the        *)
(* address "partial" for good.                                             *)
(*                                                                         *)
(* Manager.active admits one job of an address at a time, and of the jobs  *)
(* with one startBlock only the newest is ever read again: docs[s] is that *)
(* job's document.  Clients and traces ask for any startBlock and          *)
(* endBlock.  Neighbours, other addresses and the queue are in             *)
(* AscendingSync and SyncJobs.                                             *)
(***************************************************************************)
EXTENDS Coverage, FiniteSets

CONSTANTS
    NumActions,     \* 3 in the code
    Requests,       \* the <<startBlock, endBlock>> a request may resolve to, 0 for "follow the head"
    Chains,         \* for each chain the world may hold, the blocks with a record of an action
    Shared,         \* blocks whose record a counterparty has too
    Limit,          \* SYNC_MAX_RECORDS_PER_ACTION
    CacheEnabled,   \* SYNC_CACHE_TTL_MINUTES # 0
    MinBlock,       \* the safe head when the program is first deployed
    MaxBlock,       \* bound: the highest safe head
    MaxJobs         \* bound: jobs ever created

ASSUME ConstantsAssumption ==
    /\ NumActions \in Nat \ {0}
    /\ Requests \subseteq Nat \X Nat
    /\ MinBlock \in Nat /\ MaxBlock \in Nat /\ MinBlock <= MaxBlock
    /\ Chains \subseteq [1 .. NumActions -> SUBSET (0 .. MaxBlock)] /\ Shared \subseteq 0 .. MaxBlock
    /\ CacheEnabled \in BOOLEAN
    /\ Limit \in Nat \ {0}
    /\ MaxJobs \in Nat

Actions == 1 .. NumActions
Starts  == {r[1] : r \in Requests}

\* A missing checkpoint cuts no range short.
NoCheckpoint  == MaxBlock + 1
NoCheckpoints == [x \in Actions |-> NoCheckpoint]
NoProgress    == [act |-> 0, lo |-> 0, hi |-> 0]

\* The reach of checkpoints nobody has handed on yet, and of such that tell nothing.
Unbounded == MaxBlock + 1
Nothing   == -1

VARIABLES
    busy,       \* the blocks that hold a record of an action, one of Chains
    head,       \* latest block minus the confirmations
    (* the address document and the transfers collection *)
    cover, status, counted, counts, stored,
    (* for each startBlock the newest job's document; how many jobs there were *)
    docs, jobs,
    (* the startBlock of the job queued or in process; the worker: its place, its *)
    (* copy of the document, the cached safe head                                 *)
    cur, pc, mem, prog, handed, safeHead, trunc, cancelled,
    (* the listing: action, first block of the gaps still to visit, range, room    *)
    (* under the limit, how it ended; the part of it still to persist and the      *)
    (* records the last batch inserted                                             *)
    act, pos, lo, hi, room, ending, low, top, inserted,
    (* history: how far up the checkpoints of each newest job tell of stored       *)
    (* records, and whether a job was handed checkpoints that tell too little      *)
    reach, misled

dbVars   == <<cover, status, counted, counts, stored>>
docVars  == <<docs, jobs>>
workVars == <<cur, mem, prog, handed, safeHead, cancelled>>
listVars == <<act, pos, lo, hi, room, ending, low, top, inserted>>
history  == <<reach, misled>>
vars == <<busy, head, dbVars, docVars, pc, workVars, trunc, listVars, history>>

doc == docs[cur]

\* "other" is a missing document, "discovered", "running" or "failed": this mode
\* reads them alike.
AddressStatus == {"synced", "partial", "other"}
JobStatus == {"none", "queued", "running", "succeeded", "partial", "failed", "stopped"}

Records(x, B) == Cardinality(B \cap busy[x])
-----------------------------------------------------------------------------
\* legacySyncCheckpoints: guessed from the last listing reported, as if blocks
\* had been listed oldest first.
Legacy(s) ==
    LET p == docs[s].prog
    IN  [x \in Actions |->
            IF x < p.act /\ p.hi >= s THEN p.hi
            ELSE IF x = p.act /\ p.lo > s THEN p.lo - 1
            ELSE NoCheckpoint]

\* FindSyncCheckpoints: the newest job of this startBlock, only when it failed or
\* was stopped.  Neither its endBlock nor its safe head is compared.
FindSyncCheckpoints(s) ==
    IF docs[s].status \notin {"failed", "stopped"} THEN NoCheckpoints
    ELSE IF docs[s].ckpt = NoCheckpoints THEN Legacy(s) ELSE docs[s].ckpt

Init ==
    /\ busy \in Chains
    /\ head = MinBlock
    /\ cover = [x \in Actions |-> NoCoverage]
    /\ status = "other" /\ counted = FALSE
    /\ counts = [x \in Actions |-> 0]
    /\ stored = [x \in Actions |-> {}]
    /\ docs = [s \in Starts |->
                 [status |-> "none", end |-> 0, ckpt |-> NoCheckpoints, prog |-> NoProgress]]
    /\ jobs = 0
    /\ pc = "idle" /\ cur = 0
    /\ mem = NoCheckpoints /\ prog = NoProgress /\ handed = FALSE
    /\ safeHead = 0 /\ trunc = FALSE /\ cancelled = FALSE
    /\ act = 1 /\ pos = 0 /\ lo = 0 /\ hi = 0 /\ room = 0 /\ ending = "whole"
    /\ low = 0 /\ top = 0 /\ inserted = 0
    /\ reach = [s \in Starts |-> Unbounded] /\ misled = FALSE

\* A function's local variables end with it.
LeaveListing ==
    lo' = 0 /\ hi' = 0 /\ room' = 0 /\ ending' = "whole" /\ low' = 0 /\ top' = 0 /\ inserted' = 0

Leave ==
    /\ pc' = "idle" /\ cur' = 0
    /\ mem' = NoCheckpoints /\ prog' = NoProgress /\ handed' = FALSE
    /\ safeHead' = 0 /\ trunc' = FALSE /\ cancelled' = FALSE
    /\ act' = 1 /\ pos' = 0 /\ LeaveListing

\* SaveSyncJob of the worker's copy; a failed write is only logged.
Save(st, m, p) ==
    \/ docs' = [docs EXCEPT ![cur] = [@ EXCEPT !.status = st, !.ckpt = m, !.prog = p]]
    \/ UNCHANGED docs
-----------------------------------------------------------------------------
(* Environment *)

\* History: checkpoints that are handed on reach as far up as before; a guess from a
\* listing that ran newest block first tells nothing.
HandOn(s) ==
    /\ reach' = [reach EXCEPT ![s] =
                   IF FindSyncCheckpoints(s) = NoCheckpoints THEN Unbounded
                   ELSE IF docs[s].ckpt = NoCheckpoints THEN Nothing ELSE @]
    /\ UNCHANGED misled

\* Enqueue, while no job of the address is queued or in process; where the queue is
\* full the job stays in the collection as a failed one, or as queued when that
\* write is lost.
Enqueue(s, e) ==
    /\ jobs < MaxJobs
    /\ pc = "idle"
    /\ e > 0 => e >= s
    /\ jobs' = jobs + 1
    /\ \E st \in {"queued", "failed"} :
          /\ docs' = [docs EXCEPT ![s] =
                        [status |-> st, end |-> e, ckpt |-> FindSyncCheckpoints(s), prog |-> NoProgress]]
          /\ \/ st = "queued" /\ pc' = "queued" /\ cur' = s
             \/ UNCHANGED <<pc, cur>>
    /\ HandOn(s)
    /\ UNCHANGED <<busy, head, dbVars, mem, prog, handed, safeHead, cancelled, trunc, listVars>>

\* The one worker synchronises another address, and stores a record of both.
CounterpartySync(x, b) ==
    /\ pc \in {"idle", "queued"}
    /\ b <= head /\ b \in busy[x]
    /\ stored' = [stored EXCEPT ![x] = @ \cup {b}]
    /\ UNCHANGED <<busy, head, cover, status, counted, counts, docVars, pc, workVars, trunc, listVars, history>>

\* Manager.Stop, of the job in process or of one whose last write was lost;
\* FailAddressSync may fail, and then the worker goes on.
Stop(s) ==
    /\ docs[s].status \in {"queued", "running"}
    /\ docs' = [docs EXCEPT ![s].status = "stopped"]
    /\ \/ UNCHANGED <<status, cancelled>>
       \/ /\ status' = "other"
          /\ cancelled' = (cancelled \/ (s = cur /\ pc \notin {"idle", "queued"}))
    /\ UNCHANGED <<busy, head, cover, counted, counts, stored, jobs, pc, cur, mem, prog, handed, safeHead,
                   trunc, listVars, history>>

\* The process dies, and FailInterruptedJobs runs when it is back.
Crash ==
    /\ pc # "idle" \/ \E s \in Starts : docs[s].status \in {"queued", "running"}
    /\ docs' = [s \in Starts |-> IF docs[s].status \in {"queued", "running"}
                                THEN [docs[s] EXCEPT !.status = "failed"] ELSE docs[s]]
    /\ Leave
    /\ UNCHANGED <<busy, head, dbVars, jobs, history>>
-----------------------------------------------------------------------------
(* The job *)

\* A stopped job is dropped; so is one that cannot be read or marked running.
Dequeue ==
    /\ pc = "queued"
    /\ \/ Leave /\ UNCHANGED docs
       \/ /\ doc.status # "stopped"
          /\ docs' = [docs EXCEPT ![cur].status = "running"]
          /\ mem' = doc.ckpt /\ prog' = doc.prog
          /\ handed' = (doc.ckpt # NoCheckpoints)
          /\ pc' = "lookup"
          /\ UNCHANGED <<cur, safeHead, cancelled, trunc, listVars>>
    /\ UNCHANGED <<busy, head, dbVars, jobs, history>>

\* syncAddress returned, with truncated actions or without: the job ends.
Finish(truncated) ==
    /\ Save(IF truncated THEN "partial" ELSE "succeeded", mem, prog)
    /\ Leave
    /\ UNCHANGED jobs

\* syncAddress failed, and with it the job.
Fail ==
    /\ Save("failed", mem, prog)
    /\ Leave
    /\ UNCHANGED jobs

Abandon ==
    /\ cancelled /\ pc # "idle"
    /\ Leave
    /\ UNCHANGED <<busy, head, dbVars, docVars, history>>
-----------------------------------------------------------------------------
(* syncAddress *)

\* EnsureAddressActionCounts, once in the life of the address.
CountOnce ==
    /\ pc = "lookup" /\ ~counted
    /\ counted' = TRUE
    /\ counts' = [x \in Actions |-> Lesser(Limit, Records(x, stored[x]))]
    /\ UNCHANGED <<busy, head, cover, status, stored, docVars, pc, workVars, trunc, listVars, history>>

\* actionCountAtLimit
AtLimit == \E x \in Actions : counts[x] >= Limit

\* Once high-frequency, always: no explorer call, and the job ends "partial".
LookupHighFrequency ==
    /\ pc = "lookup" /\ counted
    /\ status = "partial" \/ AtLimit
    /\ status' = "partial"
    /\ Finish(TRUE)
    /\ UNCHANGED <<busy, head, cover, counted, counts, stored, history>>

FullCache ==
    /\ status = "synced"
    /\ Valid(Common(cover))
    /\ \A x \in Actions : Contains(cover[x], <<cur, Common(cover)[2]>>)

FixedSnapshotCache ==
    /\ doc.end > 0 /\ status = "synced"
    /\ \A x \in Actions : Contains(cover[x], <<cur, doc.end>>)

LookupCached ==
    /\ pc = "lookup" /\ counted
    /\ ~(status = "partial" \/ AtLimit)
    /\ CacheEnabled
    /\ FixedSnapshotCache \/ FullCache
    /\ Finish(FALSE)
    /\ UNCHANGED <<busy, head, dbVars, history>>

WindowEnd(h) == IF doc.end > 0 THEN Lesser(h, doc.end) ELSE h
Window(h)    == <<cur, WindowEnd(h)>>
Want         == Window(safeHead)

\* History: checkpoints of windows that end lower, or of an action that had two gaps
\* to list, tell too little of this window; and so they do where it leaves two gaps.
TwoGaps(h) == \E x \in Actions : \E f, g \in Gaps(Window(h), cover[x]) : f # g
Observe(h) ==
    /\ misled' = (misled \/ (handed /\ (TwoGaps(h) \/ reach[cur] < WindowEnd(h))))
    /\ reach' = [reach EXCEPT ![cur] = IF TwoGaps(h) THEN Nothing ELSE Lesser(@, WindowEnd(h))]

\* Latest block, SetAddressSyncing.
LookupMiss ==
    /\ pc = "lookup" /\ counted
    /\ ~(status = "partial" \/ AtLimit)
    /\ ~(CacheEnabled /\ FixedSnapshotCache)
    /\ head' \in head .. MaxBlock /\ UNCHANGED busy
    /\ cur <= WindowEnd(head')
    /\ safeHead' = head'
    /\ status' = "other"
    /\ pc' = "gap"
    /\ Observe(head')
    /\ UNCHANGED <<cover, counted, counts, stored, docVars, cur, mem, prog, handed, cancelled, trunc, listVars>>

\* A read or a write before the loop fails, or the window is beyond the head.
LookupFails ==
    /\ pc = "lookup"
    /\ Fail
    /\ UNCHANGED <<busy, head, dbVars, history>>

\* The gaps of the action at hand that were not visited yet, lowest first.
GapsLeft == {g \in Gaps(Want, cover[act]) : g[1] >= pos}

\* What a checkpoint below the gap's end leaves of it.  The map read is the job's own,
\* which the listings of this very run move, unless the job was handed none.
GapEnd(g) == IF handed THEN Lesser(g[2], mem[act]) ELSE g[2]

List(l, h, r) ==
    /\ lo' = l /\ hi' = h /\ room' = r
    /\ pc' = "list"

NextGap ==
    /\ pc = "gap" /\ counts[act] < Limit
    /\ \E g \in GapsLeft :
          /\ \A f \in GapsLeft : g[1] <= f[1]
          /\ pos' = g[2] + 1
          /\ \/ GapEnd(g) >= g[1] /\ List(g[1], GapEnd(g), Limit - counts[act])
             \/ GapEnd(g) < g[1] /\ UNCHANGED <<pc, lo, hi, room>>
    /\ UNCHANGED <<busy, head, dbVars, docVars, workVars, trunc, act, ending, low, top, inserted, history>>

\* Mutant of NextAction: one action too many.
NextActionPastLast ==
    /\ pc = "gap" /\ (GapsLeft = {} \/ counts[act] >= Limit)
    /\ IF act <= NumActions /\ ~trunc
       THEN act' = act + 1 /\ pos' = 0 /\ UNCHANGED pc
       ELSE pc' = "complete" /\ UNCHANGED <<act, pos>>
    /\ UNCHANGED <<busy, head, dbVars, docVars, workVars, trunc, lo, hi, room, ending, low, top, inserted, history>>

\* The action has no more gaps, or its count no more room: the next one, unless an
\* action was truncated.
NextAction ==
    /\ pc = "gap" /\ (GapsLeft = {} \/ counts[act] >= Limit)
    /\ IF act < NumActions /\ ~trunc
       THEN act' = act + 1 /\ pos' = 0 /\ UNCHANGED pc
       ELSE pc' = "complete" /\ UNCHANGED <<act, pos>>
    /\ UNCHANGED <<busy, head, dbVars, docVars, workVars, trunc, lo, hi, room, ending, low, top, inserted, history>>

\* The pages of lo .. hi come in, newest first, each is reported, and the
\* listing ends with fewer records than there is room for ("whole"), at the
\* limit ("cut"), or at the page limit in some block: above it everything came
\* in ("page"), unless it is the first or the last of the range, and then the
\* rest is given up ("cut").  low .. hi is to be persisted.
Listed(e, l) == ending' = e /\ low' = l /\ top' = hi /\ pc' = "persist"

Fetch ==
    /\ pc = "list"
    /\ prog' = [act |-> act, lo |-> lo, hi |-> hi]
    /\ Save("running", mem, prog')
    /\ \/ Records(act, lo .. hi) < room /\ Listed("whole", lo)
       \/ \E b \in busy[act] \cap (lo .. hi) : Records(act, b .. hi) = room /\ Listed("cut", b)
       \/ \E b \in lo + 1 .. hi - 1 : Records(act, b .. hi) < room /\ Listed("page", b + 1)
       \/ \E b \in {lo, hi} : Records(act, b .. hi) < room /\ \E l \in {b, b + 1} : Listed("cut", l)
    /\ UNCHANGED <<busy, head, dbVars, jobs, cur, mem, handed, safeHead, cancelled, trunc, act, pos, lo, hi, room,
                   inserted, history>>

\* Mutant of Upsert: every record of the batch counts.
UpsertCountingAll ==
    /\ pc = "persist" /\ low <= top
    /\ \E b \in low .. top :
          /\ stored' = [stored EXCEPT ![act] = @ \cup (b .. top)]
          /\ inserted' = Records(act, b .. top)
          /\ top' = b - 1
    /\ pc' = "count"
    /\ UNCHANGED <<busy, head, cover, status, counted, counts, docVars, workVars, trunc, act, pos, lo, hi,
                   room, ending, low, history>>

\* BulkUpsertTransfers: the next batch, newest blocks first.  A record that was
\* already there does not count as inserted.
Upsert ==
    /\ pc = "persist" /\ low <= top
    /\ \E b \in low .. top :
          /\ stored' = [stored EXCEPT ![act] = @ \cup (b .. top)]
          /\ inserted' = Records(act, (b .. top) \ stored[act])
          /\ top' = b - 1
    /\ pc' = "count"
    /\ UNCHANGED <<busy, head, cover, status, counted, counts, docVars, workVars, trunc, act, pos, lo, hi,
                   room, ending, low, history>>

\* AddAddressActionRecords
Count ==
    /\ pc = "count"
    /\ counts' = [counts EXCEPT ![act] = @ + inserted]
    /\ inserted' = 0
    /\ pc' = "persist"
    /\ UNCHANGED <<busy, head, cover, status, counted, stored, docVars, workVars, trunc, act, pos, lo, hi,
                   room, ending, low, top, history>>

\* A listing, a batch or a count fails; a failed batch leaves some of it.
FetchFails ==
    /\ \/ pc \in {"list", "count"} /\ UNCHANGED stored
       \/ /\ pc = "persist" /\ low <= top
          /\ \E B \in SUBSET (low .. top) : stored' = [stored EXCEPT ![act] = @ \cup B]
    /\ Fail
    /\ UNCHANGED <<busy, head, cover, status, counted, counts, history>>

Persisted == pc = "persist" /\ top < low

\* Mutant of NextPage: the boundary block is taken to be complete.
NextPageBelow ==
    /\ Persisted /\ ending = "page"
    /\ mem' = [mem EXCEPT ![act] = low - 2]
    /\ Save("running", mem', prog)
    /\ List(lo, low - 2, room - Records(act, low .. hi))
    /\ UNCHANGED <<busy, head, dbVars, jobs, cur, prog, handed, safeHead, cancelled, trunc, act, pos, ending, low, top,
                   inserted, history>>

\* A page limit inside the range: the checkpoint is the boundary block, and the
\* rest of the range is listed with what is left of the room.
NextPage ==
    /\ Persisted /\ ending = "page"
    /\ mem' = [mem EXCEPT ![act] = low - 1]
    /\ Save("running", mem', prog)
    /\ List(lo, low - 1, room - Records(act, low .. hi))
    /\ UNCHANGED <<busy, head, dbVars, jobs, cur, prog, handed, safeHead, cancelled, trunc, act, pos, ending, low, top,
                   inserted, history>>

\* Back from the listing to the gaps of the action.
Listing(truncated) ==
    /\ trunc' = (trunc \/ truncated)
    /\ pc' = "gap"
    /\ LeaveListing

\* The whole range came in: the checkpoint goes below it.
Whole ==
    /\ Persisted /\ ending = "whole"
    /\ mem' = [mem EXCEPT ![act] = lo - 1]
    /\ Save("running", mem', prog)
    /\ Listing(counts[act] >= Limit)
    /\ UNCHANGED <<busy, head, dbVars, jobs, cur, prog, handed, safeHead, cancelled, act, pos, history>>

\* Mutants of Cut: the truncation is forgotten; the checkpoint moves as if the
\* range had come in whole.
CutForgotten ==
    /\ Persisted /\ ending = "cut"
    /\ Listing(FALSE)
    /\ UNCHANGED <<busy, head, dbVars, docVars, workVars, act, pos, history>>

CutAsWhole ==
    /\ Persisted /\ ending = "cut"
    /\ mem' = [mem EXCEPT ![act] = lo - 1]
    /\ Save("running", mem', prog)
    /\ Listing(TRUE)
    /\ UNCHANGED <<busy, head, dbVars, jobs, cur, prog, handed, safeHead, cancelled, act, pos, history>>

\* The listing was cut: no checkpoint, and no more actions.
Cut ==
    /\ Persisted /\ ending = "cut"
    /\ Listing(TRUE)
    /\ UNCHANGED <<busy, head, dbVars, docVars, workVars, act, pos, history>>

\* CompleteAddressSync, or CompleteAddressPartial, which claims nothing.
Conclude ==
    /\ status' = IF trunc THEN "partial" ELSE "synced"
    /\ cover' = IF trunc THEN cover ELSE [x \in Actions |-> Merge(Want, cover[x])]
    /\ UNCHANGED <<counted, counts, stored>>

Complete ==
    /\ pc = "complete"
    /\ Conclude
    /\ Finish(trunc)
    /\ UNCHANGED <<busy, head, history>>

CompleteFails ==
    /\ pc = "complete"
    /\ UNCHANGED dbVars \/ (~trunc /\ Conclude)
    /\ Fail
    /\ UNCHANGED <<busy, head, history>>
-----------------------------------------------------------------------------
Next ==
    \/ \E r \in Requests : Enqueue(r[1], r[2])
    \/ \E x \in Actions, b \in Shared : CounterpartySync(x, b)
    \/ \E s \in Starts : Stop(s)
    \/ Crash
    \/ Dequeue \/ Abandon
    \/ CountOnce \/ LookupHighFrequency \/ LookupCached \/ LookupMiss \/ LookupFails
    \/ NextGap \/ NextAction \/ Fetch \/ Upsert \/ Count \/ FetchFails
    \/ NextPage \/ Whole \/ Cut
    \/ Complete \/ CompleteFails

Spec == Init /\ [][Next]_vars
-----------------------------------------------------------------------------
\* Every variable has its type.
TypeOK ==
    /\ busy \in Chains
    /\ head \in MinBlock .. MaxBlock
    /\ cover \in [Actions -> Int \X Int] /\ status \in AddressStatus
    /\ counted \in BOOLEAN /\ counts \in [Actions -> Nat]
    /\ stored \in [Actions -> SUBSET (0 .. MaxBlock)]
    /\ docs \in [Starts -> [status : JobStatus, end : Nat, ckpt : [Actions -> Int],
                            prog : [act : Nat, lo : Int, hi : Int]]]
    /\ jobs \in 0 .. MaxJobs
    /\ pc \in {"idle", "queued", "lookup", "gap", "list", "persist", "count", "complete"}
    /\ cur \in Starts \cup {0} /\ (pc # "idle" => cur \in Starts)
    /\ mem \in [Actions -> Int] /\ prog \in [act : Nat, lo : Int, hi : Int]
    /\ handed \in BOOLEAN /\ safeHead \in Nat /\ trunc \in BOOLEAN /\ cancelled \in BOOLEAN
    /\ act \in Actions /\ {pos, lo, hi, low, top} \subseteq Int
    /\ room \in 0 .. Limit /\ inserted \in Nat
    /\ ending \in {"whole", "page", "cut"}
    /\ reach \in [Starts -> Nothing .. Unbounded] /\ misled \in BOOLEAN

Sound == \A x \in Actions : Claimed(cover[x]) \subseteq stored[x]

\* What the address document claims for an action is in the transfers collection,
\* whatever windows the jobs had and however they ended, until a job is misled: a
\* retry is handed checkpoints although its window ends above those they come from or
\* leaves two gaps, or was left two, or they are a guess.  Those are the only ways:
\* page boundaries, finished ranges, cuts, crashes and jobs that start afresh leave
\* no block out.
CoverageSound == ~misled => Sound

\* Until then everything between a checkpoint saved for a retry and the lowest end of
\* the windows it comes from is stored.
CheckpointsSound ==
    ~misled => \A s \in Starts, x \in Actions : docs[s].ckpt[x] + 1 .. reach[s] \subseteq stored[x]

\* The count of an action never passes the limit and never passes the records
\* there are: recursion hands on what is left of the room, a batch written twice
\* counts once, and a counterparty's records count once they are listed or never.
CountsHonest == \A x \in Actions : counts[x] <= Limit /\ counts[x] <= Records(x, stored[x])

\* An address that has reached the limit extends its claim no more.
LimitStopsClaims == [][AtLimit => UNCHANGED cover]_vars

\* The documentation's statement, whatever a retry is handed: coverage is only moved
\* over facts already written.
RetriedCoverageSound == Sound
-----------------------------------------------------------------------------
(* The inductive invariant behind the theorems *)

Fetching == {"list", "persist", "count"}
Looping  == Fetching \cup {"gap"}

\* A valid coverage lies between block 0 and the highest safe head.
CoverPlaced == \A x \in Actions : Valid(cover[x]) => 0 <= cover[x][1] /\ cover[x][2] <= MaxBlock

\* Without a truncation the loop over the actions goes on below the limit only.
LimitHeld ==
    /\ trunc => pc \in Looping \cup {"complete"}
    /\ pc \in {"gap", "complete"} /\ ~trunc => ~AtLimit
    /\ pc \in Fetching /\ ~trunc => \A x \in Actions \ {act} : counts[x] < Limit

\* What is still to persist lies at the lower end of a listing inside the chain.
PlaceOK ==
    /\ pc \in Looping \cup {"complete"} =>
          safeHead \in MinBlock .. head /\ cur <= WindowEnd(safeHead)
    /\ pc \in Fetching => 0 <= lo /\ hi <= MaxBlock
    /\ pc = "list" => lo <= hi
    /\ pc \in {"persist", "count"} =>
          /\ lo <= low /\ low <= hi + 1 /\ low - 1 <= top /\ top <= hi
          /\ ending = "whole" => low = lo
          /\ ending = "page" => lo + 1 < low

\* The listing brings in no more than there is room for, and the count, with what is
\* still to come, stays under the limit by the room the next listing will get.
RoomHeld ==
    /\ pc = "list" => counts[act] + room <= Limit
    /\ pc \in {"persist", "count"} =>
          /\ Records(act, low .. hi) <= room
          /\ counts[act] + inserted + Records(act, low .. top) + room
                <= Limit + Records(act, low .. hi)
    /\ pc # "count" => inserted = 0
    /\ pc = "count" => counts[act] + inserted <= Records(act, stored[act])

CountInv == TypeOK /\ CountsHonest /\ CoverPlaced /\ LimitHeld /\ PlaceOK /\ RoomHeld

(* The rest holds until a job is misled. *)

\* The worker's own checkpoints tell of stored records as the saved ones do.
WorkerHolds ==
    pc \notin {"idle", "queued"} => \A x \in Actions : mem[x] + 1 .. reach[cur] \subseteq stored[x]

\* What was observed of the window holds as long as the job lists it.
WindowHolds ==
    pc \in Looping \cup {"complete"} =>
        /\ reach[cur] <= WindowEnd(safeHead)
        /\ TwoGaps(safeHead) => reach[cur] = Nothing
        /\ handed => ~TwoGaps(safeHead) /\ reach[cur] = WindowEnd(safeHead)

\* Above what is still to list, or to persist, the checkpoint may be moved.
AboveHolds ==
    /\ pc = "list" => hi + 1 .. reach[cur] \subseteq stored[act]
    /\ pc \in {"persist", "count"} => top + 1 .. reach[cur] \subseteq stored[act]

\* The blocks of the action at hand that no gap visited so far was to bring in.
Pending == UNION {g[1] .. g[2] : g \in GapsLeft}

In(x, B) == cur .. WindowEnd(safeHead) \subseteq stored[x] \cup B

\* Without a truncation the window is stored for the actions before act, and for act
\* but for what is still to come.
LoopHolds ==
    /\ pc \notin Looping \cup {"complete"} => act = 1 /\ pos = 0
    /\ pc \in Looping /\ ~trunc => \A x \in Actions : x < act => In(x, {})
    /\ pc = "gap" /\ ~trunc => In(act, Pending)
    /\ pc = "list" /\ ~trunc => In(act, Pending \cup (lo .. hi))
    /\ pc \in {"persist", "count"} /\ ~trunc => In(act, Pending \cup (lo .. top))
    /\ pc = "complete" /\ ~trunc => \A x \in Actions : In(x, {})

IInv ==
    /\ CountInv
    /\ CoverageSound /\ CheckpointsSound
    /\ ~misled => WorkerHolds /\ WindowHolds /\ AboveHolds /\ LoopHolds
=============================================================================
