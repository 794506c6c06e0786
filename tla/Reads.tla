------------------------------- MODULE Reads -------------------------------
(***************************************************************************)
(* What is served from the transfers collection while a synchronisation of *)
(* the address writes to it: the pages of fundgraph/graph.go and the       *)
(* profile of profile/profile.go, each one read of the address's document  *)
(* and then one or more queries; and the largest counterparties of         *)
(* store.go, which the tracer reads.                                       *)
(*                                                                         *)
(* A document is [block, key, log, peer, amount]: key stands for the hash, *)
(* the source, the trace and the asset, and key and log are unique.        *)
(***************************************************************************)
EXTENDS Integers, Sequences, FiniteSets
Sets == INSTANCE FiniteSetsExt

CONSTANTS
    PageLimit,  \* the limit of a query for edges
    TopN,       \* CounterpartyQuery.TopN
    Recent,     \* the profile's window, 30 days, in blocks
    Peers       \* counterparties, as numbers in the order of their addresses

ASSUME ReadsAssumption ==
    /\ PageLimit \in Nat \ {0} /\ TopN \in Nat \ {0} /\ Recent \in Nat
    /\ Peers = 1 .. Cardinality(Peers) /\ IsFiniteSet(Peers)

VARIABLES
    docs,      \* the transfers of the address
    addr,      \* its document: status, ever (lastSyncedAt is set), lo and hi (the common coverage)
    profiles,  \* the profiles saved
    read       \* how far each reader is

readVars == <<docs, addr, profiles, read>>

Document == [block : Nat, key : Nat, log : Int, peer : Nat, amount : Nat]
Address  == [status : {"discovered", "running", "synced", "partial", "failed"}, ever : BOOLEAN,
             lo : Nat, hi : Nat]
Profile  == [hi : Int, lo : Nat, total : Nat, latest : Nat, recent : Nat]
Page     == [items : SUBSET Document, beyond : SUBSET Document, more : BOOLEAN, lo : Nat, hi : Int]
Reader   == [step : {"start", "query", "next", "find", "lifetime", "window", "save", "end"},
             lo : Nat, hi : Int, before : SUBSET Document, after : SUBSET Document, pages : Seq(Page),
             total : Nat, latest : Nat, recent : Nat, profile : SUBSET Profile]

Unread == [step |-> "start", lo |-> 0, hi |-> -1, before |-> {}, after |-> {}, pages |-> <<>>,
           total |-> 0, latest |-> 0, recent |-> 0, profile |-> {}]

\* UpsertTransfer
Upsert(d) == docs' = {e \in docs : e.key # d.key \/ e.log # d.log} \cup {d}

\* FindAddress and CommonCoverage, as normalize and Get judge them: an address that
\* is being synchronised again is served from what it has ("stale").  A coverage of
\* block 0 alone reads like none.
Served == addr.ever /\ addr.lo <= addr.hi /\ addr.hi # 0

Stops(c) == read' = [read EXCEPT ![c].step = "end"]

Open(c, next) ==
    /\ \/ Stops(c)  \* not synced, or the database fails
       \/ /\ Served
          /\ read' = [read EXCEPT ![c].step = next, ![c].lo = addr.lo, ![c].hi = addr.hi,
                                  ![c].before = IF read[c].step = "start" THEN docs ELSE @]
    /\ UNCHANGED <<docs, addr, profiles>>
-----------------------------------------------------------------------------
(* Edges and QueryTransfers: one page after another *)

Positive(d) == d.amount > 0

\* d comes before e: newest first.
AheadOf(d, e) ==
    \/ d.block > e.block
    \/ d.block = e.block /\ d.key > e.key
    \/ d.block = e.block /\ d.key = e.key /\ d.log > e.log

\* transferCursorCondition, for a cursor or none.
Beyond(d, cursor) == \A e \in cursor : AheadOf(e, d)

First(S, n) == {d \in S : Cardinality({e \in S : AheadOf(e, d)}) < n}
LastIn(S) == {d \in S : \A e \in S : e = d \/ AheadOf(e, d)}

OpenPage(c) == read[c].step \in {"start", "next"} /\ Open(c, "query")

\* One document more than the page holds is asked for, to know whether to go on.
QueryPage(c) ==
    LET found == First({d \in docs : Positive(d) /\ Beyond(d, read[c].after)}, PageLimit + 1)
        page  == First(found, PageLimit)
        more  == Cardinality(found) > PageLimit
    IN /\ read[c].step = "query"
       /\ read' = [read EXCEPT ![c].step = IF more THEN "next" ELSE "end",
                               ![c].after = IF more THEN LastIn(page) ELSE @,
                               ![c].pages = Append(@, [items |-> page, beyond |-> read[c].after, more |-> more,
                                                       lo |-> read[c].lo, hi |-> read[c].hi])]
       /\ UNCHANGED <<docs, addr, profiles>>
-----------------------------------------------------------------------------
(* Get of the profile, and AddressActivity: two queries, one after the other *)

\* Mutant of Snapshot: the profile of another coverage will do.
SnapshotAny(hi) == profiles

\* FindAddressProfile
Snapshot(hi) == {p \in profiles : p.hi = hi}

OpenProfile(c) == read[c].step = "start" /\ Open(c, "find")

FindProfile(c) ==
    /\ read[c].step = "find"
    /\ \/ Stops(c)
       \/ /\ Snapshot(read[c].hi) # {}
          /\ \E p \in Snapshot(read[c].hi) : read' = [read EXCEPT ![c].step = "end", ![c].profile = {p}]
       \/ /\ Snapshot(read[c].hi) = {}
          /\ read' = [read EXCEPT ![c].step = "lifetime"]
    /\ UNCHANGED <<docs, addr, profiles>>

Lifetime(c) ==
    LET all == {d \in docs : Positive(d)}
    IN /\ read[c].step = "lifetime"
       /\ \/ Stops(c)
          \/ /\ all = {} /\ read' = [read EXCEPT ![c].step = "save"]
          \/ /\ all # {}
             /\ read' = [read EXCEPT ![c].step = "window", ![c].total = Cardinality(all),
                            ![c].latest = (CHOOSE d \in all : \A e \in all : e.block <= d.block).block]
       /\ UNCHANGED <<docs, addr, profiles>>

WindowCount(c) ==
    /\ read[c].step = "window"
    /\ \/ Stops(c)
       \/ read' = [read EXCEPT ![c].step = "save", ![c].recent =
                      Cardinality({d \in docs : Positive(d) /\ d.block \in read[c].latest - Recent .. read[c].latest})]
    /\ UNCHANGED <<docs, addr, profiles>>

\* The coverage's lower end is an observation: the document has the upper one only.
SaveProfile(c) ==
    LET p == [hi |-> read[c].hi, lo |-> read[c].lo, total |-> read[c].total,
              latest |-> read[c].latest, recent |-> read[c].recent]
    IN /\ read[c].step = "save"
       /\ \/ Stops(c) /\ UNCHANGED profiles
          \/ /\ profiles' = {q \in profiles : q.hi # p.hi} \cup {p}
             /\ read' = [read EXCEPT ![c].step = "end", ![c].profile = {p}]
       /\ UNCHANGED <<docs, addr>>
-----------------------------------------------------------------------------
(* TopCounterparties: a heap of TopN summaries over a cursor sorted by peer *)

Summary(p) == [peer |-> p, total |-> Sets!MapThenSumSet(LAMBDA d : d.amount, {d \in docs : Positive(d) /\ d.peer = p})]
Present == {p \in Peers : \E d \in docs : Positive(d) /\ d.peer = p}

\* summaryBetter
Better(s, t) ==
    \/ s.total > t.total
    \/ s.total = t.total /\ s.peer < t.peer

\* Mutant of Root: the heap keeps its best at the root.
RootBest(heap) == CHOOSE s \in heap : \A t \in heap : t = s \/ Better(s, t)

\* The root of the heap is the worst kept.
Root(heap) == CHOOSE s \in heap : \A t \in heap : t = s \/ Better(t, s)

Flush(heap, s) ==
    IF Cardinality(heap) < TopN THEN heap \cup {s}
    ELSE IF Better(s, Root(heap)) THEN (heap \ {Root(heap)}) \cup {s} ELSE heap

TopCounterparties ==
    LET after[p \in 0 .. Cardinality(Peers)] ==
            IF p = 0 THEN {}
            ELSE IF p \in Present THEN Flush(after[p - 1], Summary(p)) ELSE after[p - 1]
    IN after[Cardinality(Peers)]
-----------------------------------------------------------------------------
(* Properties *)

\* The transfers collection is unique by its index.
Unique(D) == \A d, e \in D : d.key = e.key /\ d.log = e.log => d = e

StoreTypeOK ==
    /\ docs \subseteq Document /\ IsFiniteSet(docs) /\ Unique(docs)
    /\ addr \in Address /\ profiles \subseteq Profile

\* The bounded heap returns the TopN best counterparties, ties by address: the
\* tracer reads its candidates in this order and the caller pages by its size.
TopIsTop ==
    LET all == {Summary(p) : p \in Present}
    IN TopCounterparties = {s \in all : Cardinality({t \in all : Better(t, s)}) < TopN}

\* While the collection grows under a reader, no document is on two pages, none
\* that was there when the reader began is passed over, and pages are in order.
PagesOnce ==
    \A c \in DOMAIN read :
        LET pages == read[c].pages
            items == UNION {pages[i].items : i \in DOMAIN pages}
        IN /\ \A i, j \in DOMAIN pages : i < j =>
                 \A d \in pages[i].items, e \in pages[j].items : AheadOf(d, e)
           /\ \A i \in DOMAIN pages : \A d \in read[c].before :
                 /\ Positive(d) /\ Beyond(d, pages[i].beyond)
                 /\ pages[i].more => \E e \in pages[i].items : e = d \/ AheadOf(d, e)
                 => d \in items
=============================================================================
