------------------------------- MODULE Ingest -------------------------------
(***************************************************************************)
(* From the explorer to the reader: callers of the explorer's client that  *)
(* share its limiter - the synchronisation of an address, the analysis of  *)
(* a transaction, the inspection of an address - and readers of what the   *)
(* synchronisation stores, all at the same time.                           *)
(*                                                                         *)
(* Of the synchronisation this keeps what readers can notice: the address  *)
(* is marked, the listing is read, its documents are written one by one in *)
(* any order (BulkUpsertTransfers is unordered), and only then is coverage *)
(* claimed.  Ranges, gaps and resumption are those of AscendingSync and    *)
(* RecentSync.                                                             *)
(***************************************************************************)
EXTENDS TransactionAnalysis, Reads

CONSTANTS
    SafeHead, \* the block up to which a synchronisation claims coverage
    Remain,   \* limits of a listing of recent transfers (Descending)
    Scenes    \* where it may start: what the callers do, the explorer, the database

VARIABLES left  \* the documents each synchronisation has yet to write

vars == <<analysisVars, readVars, left>>

Roles == {"list", "analyze", "inspect", "page", "profile", "absent"}
Factories == {"verified", "foreign", "odd"}

\* The documents that rows stand for, as a listing of all of them would store them.
DocumentsFor(R) ==
    LET kept == {r \in R : Retained(r)}
    IN UNION {{[block |-> r.block, key |-> i.key, log |-> i.log, peer |-> r.peer, amount |-> r.amount] :
                  i \in {j \in Reference(kept) : /\ j.key = r.key
                                                 /\ IF r.sort = "bare" THEN j.log < 0 ELSE j.log = r.nr}} : r \in kept}

\* Those that count in a range of blocks, and a profile that counts them.
Owed(R, lo, hi) == {d \in DocumentsFor(R) : Positive(d) /\ d.block \in lo .. hi}
Counts(p, R) ==
    /\ p.total >= Cardinality(Owed(R, p.lo, p.hi))
    /\ p.recent >= Cardinality({d \in Owed(R, p.lo, p.hi) : d.block \in p.latest - Recent .. p.latest})

\* The key of a row has its hash, and that of a bare row the parties and the value too.
KeysTell(R) ==
    \A r, s \in R : r.key = s.key =>
        /\ r.block = s.block
        /\ r.sort = "bare" /\ s.sort = "bare" => r.peer = s.peer /\ r.amount = s.amount

ASSUME IngestAssumption == SafeHead \in Nat /\ Remain \subseteq Nat \ {0}

ASSUME ScenesAssumption ==
    \A s \in Scenes :
        /\ s.role \in [Callers -> Roles] /\ s.factory \in [Pools -> Factories] /\ s.subject \in STRING
        /\ s.order \in {"asc", "desc"} /\ s.rows \cup s.late \subseteq Row /\ s.tx \in Transaction
        /\ IsFiniteSet(s.rows \cup s.late) /\ Distinct(s.rows \cup s.late)
        /\ IsFiniteSet(s.tx.transfers) /\ \A t \in s.tx.transfers : t.to \notin {None, Several}
        /\ s.saved \in {NoAnalysis, Old}
        /\ s.docs \subseteq Document /\ IsFiniteSet(s.docs) /\ Unique(s.docs)
        /\ s.addr \in Address /\ s.profiles \subseteq Profile

\* What is stored before was stored from the same rows, and the explorer is not late
\* with a block that is covered already.
ASSUME StoredAssumption ==
    \A s \in Scenes :
        /\ KeysTell(s.rows \cup s.late) /\ s.docs \subseteq DocumentsFor(s.rows)
        /\ s.addr.hi # 0 => /\ Owed(s.rows, s.addr.lo, s.addr.hi) \subseteq s.docs
                            /\ \A r \in s.late : r.block \notin s.addr.lo .. s.addr.hi
        /\ \A p \in s.profiles : Counts(p, s.rows) /\ \A r \in s.late : r.block \notin p.lo .. p.hi

\* The documents of a listing.
Documents(k) ==
    {[block |-> k.raw[i].block, key |-> k.raw[i].key, log |-> Identity(k.raw, i).log,
      peer |-> k.raw[i].peer, amount |-> k.raw[i].amount] : i \in Returned(k)}

Limits == IF order = "asc" THEN {0} ELSE Remain

\* FailAddressSync, whose own failure changes nothing.
Fail(c) ==
    /\ Goes(c, "end") /\ left' = [left EXCEPT ![c] = {}]
    /\ addr' \in {addr, [addr EXCEPT !.status = "failed"]}
    /\ UNCHANGED docs

\* SetAddressSyncing, then the listing.
BeginList(c) ==
    /\ role[c] = "list" /\ job[c].step = "start"
    /\ \/ Fail(c) /\ UNCHANGED clientVars
       \/ /\ Goes(c, "list") /\ addr' = [addr EXCEPT !.status = "running"]
          /\ \E limit \in Limits : Ask(c, "list", limit)
          /\ UNCHANGED <<docs, left>>
    /\ UNCHANGED <<explorerVars, world, cache, profiles, read>>

\* A listing that ran out of pages is cut into others (fetchRange); here it ends.
TakeList(c) ==
    /\ Got(c, "list")
    /\ \/ /\ Out(c) \in {"whole", "record_limit"}
          /\ Goes(c, "write") /\ left' = [left EXCEPT ![c] = Documents(call[c])]
          /\ UNCHANGED <<docs, addr>>
       \/ Out(c) \notin {"whole", "record_limit"} /\ Fail(c)
    /\ UNCHANGED <<explorerVars, clientVars, world, cache, profiles, read>>

Write(c) ==
    /\ job[c].step = "write"
    /\ \/ \E d \in left[c] : Upsert(d) /\ left' = [left EXCEPT ![c] = @ \ {d}] /\ UNCHANGED <<addr, job>>
       \/ left[c] # {} /\ Fail(c)
    /\ UNCHANGED <<explorerVars, clientVars, world, cache, profiles, read>>

\* Mutant of Stored: coverage is claimed as soon as the listing is complete.
StoredSoon(c) == job[c].step = "write"

Stored(c) == job[c].step = "write" /\ left[c] = {}

\* CompleteAddressSync, or CompleteAddressPartial, which claims no coverage.
Claim(c) ==
    /\ Stored(c)
    /\ \/ /\ addr' = IF Out(c) = "whole" THEN [status |-> "synced", ever |-> TRUE, lo |-> 0, hi |-> SafeHead]
                     ELSE [addr EXCEPT !.status = "partial", !.ever = TRUE]
          /\ Goes(c, "end") /\ UNCHANGED <<docs, left>>
       \/ Fail(c)
    /\ UNCHANGED <<explorerVars, clientVars, world, cache, profiles, read>>
-----------------------------------------------------------------------------
ListAddress(c) == BeginList(c) \/ TakeList(c) \/ Write(c) \/ Claim(c)

ReadAddress(c) ==
    \/ role[c] = "page" /\ (OpenPage(c) \/ QueryPage(c))
    \/ role[c] = "profile" /\ (OpenProfile(c) \/ FindProfile(c) \/ Lifetime(c) \/ WindowCount(c) \/ SaveProfile(c))

Client(A) == A /\ UNCHANGED <<world, cache, job, readVars, left>>

\* What goes on by itself; a caller that asks to stop need not.
GrantNext == Client(Grant)
Waits(c)  == Client(Reply(c) \/ WakeUp(c))
Gives(c)  == Client(Cancel(c))
Works(c)  ==
    \/ Serve(c) /\ UNCHANGED <<readVars, left>>
    \/ ListAddress(c)
    \/ ReadAddress(c) /\ UNCHANGED <<analysisVars, left>>

Init ==
    /\ \E s \in Scenes :
          /\ role = s.role /\ factory = s.factory /\ subject = s.subject
          /\ order = s.order /\ rows = s.rows /\ late = s.late /\ tx = s.tx
          /\ saved = s.saved /\ docs = s.docs /\ addr = s.addr /\ profiles = s.profiles
    /\ queue = <<>> /\ call = [c \in Callers |-> Idle]
    /\ pools = [p \in Pools |-> "none"]
    /\ job = [c \in Callers |-> Fresh]
    /\ read = [c \in Callers |-> Unread]
    /\ left = [c \in Callers |-> {}]

Next ==
    \/ Client(IndexRow) \/ Client(IndexTransaction)
    \/ RelayFills /\ UNCHANGED <<readVars, left>>
    \/ GrantNext
    \/ \E c \in Callers : Waits(c) \/ Gives(c) \/ Works(c)

\* Requests have a timeout, pauses end, and every caller goes on when it can.
Fairness ==
    /\ WF_vars(GrantNext)
    /\ \A c \in Callers : WF_vars(Waits(c) \/ Works(c))

Spec == Init /\ [][Next]_vars /\ Fairness
-----------------------------------------------------------------------------
(* Properties *)

TypeOK ==
    /\ ClientTypeOK /\ AnalysisTypeOK /\ StoreTypeOK
    /\ role \in [Callers -> Roles] /\ factory \in [Pools -> Factories] /\ subject \in STRING
    /\ read \in [Callers -> Reader]
    /\ left \in [Callers -> SUBSET Document]
    /\ \A c \in Callers : left[c] # {} => job[c].step = "write"

TrueDocuments == DocumentsFor(rows)

Undisturbed == \A c \in Callers : role[c] = "list" /\ call[c] # Idle => call[c].before = rows

\* What is served is the chain's: pages neither repeat nor pass over a document of
\* a collection that grows, and, while an address is synchronised once more, from
\* either end, a page has every transfer of its part of the coverage it states, and
\* no transfer is stored that is not one of the chain's or stored twice.
PagesHonest ==
    /\ PagesOnce
    /\ Undisturbed =>
        /\ docs \subseteq TrueDocuments
        /\ \A c \in Callers : \A i \in DOMAIN read[c].pages :
              LET page == read[c].pages[i]
              IN \A d \in TrueDocuments :
                    /\ Positive(d) /\ d.block \in page.lo .. page.hi /\ Beyond(d, page.beyond)
                    /\ page.more => \E e \in page.items : e = d \/ AheadOf(d, e)
                    => d \in page.items

\* A profile that is answered for a coverage counts the transfers of that coverage,
\* whether it was computed now or found, and however much was stored between its
\* two queries: none of the window's is missing, nor of the lifetime's.
ProfileHonest ==
    Undisturbed =>
        \A c \in Callers : \A p \in read[c].profile :
            LET due == Owed(rows, p.lo, read[c].hi)
            IN /\ p.total >= Cardinality(due)
               /\ p.recent >= Cardinality({d \in due : d.block \in p.latest - Recent .. p.latest})

Finished(c) == job[c].step = "end" \/ read[c].step = "end"

\* However the explorer fails, every caller comes to an end: no request waits for
\* the limiter for ever and none is repeated for ever.
RequestsEnd == <>(\A c \in Callers : role[c] = "absent" \/ Finished(c))
-----------------------------------------------------------------------------
(* The inductive invariant behind the theorems *)

\* The explorer's rows and the holders of the transaction can be told apart.
WorldOK ==
    /\ IsFiniteSet(rows \cup late) /\ Distinct(rows \cup late)
    /\ IsFiniteSet(tx.transfers) /\ \A t \in tx.transfers : t.to \notin {None, Several}

\* A caller whose request is out waits for it; one that has asked has its answer.
Placed ==
    \A c \in Callers :
        /\ call[c].at \in {"queued", "sent", "backoff"} =>
              job[c].step \in {"tx", "receipt", "internals", "read", "code", "list"}
        /\ call[c].at # "idle" => call[c].ask \in Asks /\ call[c].page # 0
        /\ call[c].at = "done" => call[c].out \in Results

IInv == TypeOK /\ WorldOK /\ Placed /\ EvidenceOK /\ PoolsTrue /\ CompleteRests /\ ClaimsTrue

\* Whatever a listing met, what it stores are documents that rows can have.
Shapes(R) ==
    {d \in Document : \E r \in R : /\ Retained(r) /\ d.key = r.key /\ d.block = r.block
                                  /\ d.peer = r.peer /\ d.amount = r.amount
                                  /\ IF r.sort = "bare" THEN d.log < 0 ELSE d.log = r.nr}

StoredOK ==
    /\ KeysTell(rows \cup late)
    /\ docs \subseteq Shapes(rows \cup late) /\ \A c \in Callers : left[c] \subseteq Shapes(rows \cup late)

\* A synchronisation asks once, and writes what its listing returned.
ListersOK ==
    \A c \in Callers : LET k == call[c] IN
        /\ role[c] = "list" =>
              /\ job[c].step \in {"start", "list", "write", "end"}
              /\ job[c].step = "start" => k = Idle
              /\ k # Idle => k.ask = "list"
              /\ k.before \cup Seen(k) \subseteq rows
              /\ Lists(c) => k.before \subseteq k.after /\ k.after \subseteq rows
        /\ job[c].step \in {"list", "write"} => role[c] = "list"
        /\ job[c].step = "write" => Lists(c) /\ k.out \in {"whole", "record_limit"}

\* The blocks that a reader, and that anything, answers for.
Span(r) ==
    (r.lo .. r.hi) \cup (UNION {p.lo .. p.hi : p \in r.profile})
        \cup (UNION {r.pages[i].lo .. r.pages[i].hi : i \in DOMAIN r.pages})

Answered ==
    (IF addr.hi = 0 THEN {} ELSE addr.lo .. addr.hi) \cup (UNION {p.lo .. p.hi : p \in profiles})
        \cup (UNION {Span(read[c]) : c \in Callers})

\* As long as nobody synchronises, the explorer is late with none of them.
LateElsewhere ==
    (\A c \in Callers : role[c] = "list" => call[c] = Idle) => \A r \in late : r.block \notin Answered

\* What is covered is stored, and what a whole listing found is stored or yet to be written.
Loaded ==
    Undisturbed =>
        /\ docs \subseteq TrueDocuments
        /\ \A c \in Callers :
              /\ left[c] \subseteq TrueDocuments
              /\ job[c].step = "write" /\ Out(c) = "whole" => TrueDocuments \subseteq docs \cup left[c]
        /\ addr.hi # 0 => Owed(rows, addr.lo, addr.hi) \subseteq docs
        /\ \A c \in Callers : Owed(rows, read[c].lo, read[c].hi) \subseteq docs

\* The cursor stands at or behind every document served.
CursorsOK ==
    \A c \in Callers :
        /\ read[c].before \subseteq docs
        /\ read[c].step = "start" => read[c].pages = <<>>
        /\ read[c].step # "end" => read[c].profile = {}
        /\ read[c].step \in {"query", "next"} =>
              \A i \in DOMAIN read[c].pages : \A d \in read[c].pages[i].items :
                  \E e \in read[c].after : d = e \/ AheadOf(d, e)

\* The counts of a reader on its way, and of every profile.
CountsOK ==
    /\ \A c \in Callers : \A p \in read[c].profile : p.hi = read[c].hi
    /\ Undisturbed =>
          /\ \A p \in profiles : Counts(p, rows)
          /\ \A c \in Callers : LET r == read[c] IN
                /\ \A p \in r.profile : Counts(p, rows)
                /\ r.step = "window" => r.total >= Cardinality(Owed(rows, r.lo, r.hi))
                /\ r.step = "save" => Counts(r, rows)

ReadsInv == StoredOK /\ ListersOK /\ LateElsewhere /\ Loaded /\ CursorsOK /\ CountsOK /\ PagesHonest
=============================================================================
