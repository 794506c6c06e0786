--------------------------- MODULE ExplorerClient ---------------------------
(***************************************************************************)
(* The client of the block explorer, etherscan/client.go with the          *)
(* normalisation of rows in etherscan/normalize.go.  Every caller shares   *)
(* one rate limiter (golang.org/x/time/rate, which serves reservations in  *)
(* the order they were made); a request that fails for a passing reason is *)
(* repeated after a pause, at most MaxRetries times; a listing is read     *)
(* page by page until a page comes short, the pages run out or the limit   *)
(* of records is reached.                                                  *)
(*                                                                         *)
(* The explorer itself is the environment: it answers from the rows and    *)
(* the transaction it has indexed so far, or with a fault of any kind, and *)
(* goes on indexing between two pages.                                     *)
(***************************************************************************)
EXTENDS Integers, Sequences, FiniteSets

CONSTANTS
    Callers,
    PageSize,
    MaxPages,   \* at most 10,000 / PageSize, as NewClient makes it
    MaxRetries

ASSUME ClientAssumption ==
    /\ IsFiniteSet(Callers)
    /\ PageSize \in Nat \ {0} /\ MaxPages \in Nat \ {0} /\ MaxRetries \in Nat

(* A row of the explorer: its block, its place in the block, what          *)
(* tokenIdentityKey reads of it (hash, contract, parties, value), and what *)
(* normalisation makes of it:                                              *)
(*   logged  a transfer with a log index of its own                        *)
(*   bare    a token transfer without a log index                          *)
(*   void    skipped: a failed transaction, or a required field is missing *)
(*   torn    skipped, and its block number cannot be read                  *)
(*   broken  a value, a decimal or an index that cannot be read            *)
(*   wordy   a text in it contains "rate limit"                            *)
Sorts == {"logged", "bare", "void", "torn", "broken", "wordy"}
Row   == [block : Nat, nr : Nat, key : Nat, sort : Sorts, peer : Nat, amount : Nat]
Distinct(R) == \A r, s \in R : r.block = s.block /\ r.nr = s.nr => r = s

VARIABLES
    order,  \* "asc" or "desc": Config.Descending
    rows,   \* the rows indexed so far
    late,   \* rows the explorer has yet to index
    tx,     \* what it knows of the one transaction asked for
    queue,  \* the callers waiting for the limiter, in its order
    call    \* the request of each caller

explorerVars == <<order, rows, late, tx>>
clientVars   == <<queue, call>>

\* No call.  before and after are observations: the rows at the start and the
\* end of a listing.
Idle == [at |-> "idle", ask |-> "none", limit |-> 0, page |-> 0, tries |-> 0,
         raw |-> <<>>, out |-> "none", before |-> {}, after |-> {}]

Stages == {"unknown", "pending", "mined", "traced"}
Asks   == {"list", "tx", "receipt", "internals", "call", "code"}
Results == {"whole", "page_limit", "record_limit", "found", "empty", "absent",
            "not_mined", "cancelled", "unavailable", "refused", "malformed"}
-----------------------------------------------------------------------------
(* The explorer *)

Before(r, s) == \/ r.block < s.block
                \/ r.block = s.block /\ r.nr < s.nr
Ahead(r, s)  == IF order = "asc" THEN Before(r, s) ELSE Before(s, r)
Rank(r)      == 1 + Cardinality({s \in rows : Ahead(s, r)})

\* One page of a listing, as the rows stand when it is served.
PageRows(p) ==
    LET n == (p - 1) * PageSize IN
    [i \in 1 .. Cardinality({r \in rows : Rank(r) \in n + 1 .. n + PageSize}) |->
        CHOOSE r \in rows : Rank(r) = n + i]

\* The explorer indexes a row it was late with, before any it has already served or after.
IndexRow ==
    /\ \E r \in late : rows' = rows \cup {r} /\ late' = late \ {r}
    /\ UNCHANGED <<order, tx, clientVars>>

\* The transaction is seen, mined, and later its internal calls are indexed.
IndexTransaction ==
    /\ \/ tx.stage = "unknown" /\ tx' = [tx EXCEPT !.stage = "pending"]
       \/ tx.stage = "pending" /\ tx' = [tx EXCEPT !.stage = "mined"]
       \/ tx.stage = "mined"   /\ tx' = [tx EXCEPT !.stage = "traced"]
    /\ UNCHANGED <<order, rows, late, clientVars>>
-----------------------------------------------------------------------------
(* normalizeWithState: what a listing keeps of the rows it has read *)

\* Mutant of Counted: the counters of a listing start again with every page.
CountedInPage(raw, i) ==
    {j \in 1 .. i - 1 : /\ raw[j].sort = "bare" /\ raw[j].key = raw[i].key
                        /\ (j - 1) \div PageSize = (i - 1) \div PageSize}

\* tokenOccurrences: the bare rows of one key already read by this listing.
Counted(raw, i) == {j \in 1 .. i - 1 : raw[j].sort = "bare" /\ raw[j].key = raw[i].key}

\* A row that has a log index is known by it; the synthetic one is a hash of the
\* key and the occurrence, always negative (here: one number for each occurrence).
Identity(raw, i) ==
    [key |-> raw[i].key,
     log |-> IF raw[i].sort = "bare" THEN -1 - Cardinality(Counted(raw, i)) ELSE raw[i].nr]

Retained(r) == r.sort \in {"logged", "bare"}
Places(raw) == {i \in DOMAIN raw : Retained(raw[i])}
Unreadable(page) == \E i \in DOMAIN page : page[i].sort = "broken"

\* The first limit transfers, or all of them.
Returned(k) ==
    IF k.out \in {"whole", "page_limit"} THEN Places(k.raw)
    ELSE IF k.out = "record_limit"
    THEN {i \in Places(k.raw) : Cardinality({j \in Places(k.raw) : j <= i}) <= k.limit}
    ELSE {}
-----------------------------------------------------------------------------
(* Requests: get, with the limiter, the retries and the pause between them *)

\* A caller, idle or with its last answer in hand, sends a request.
Ask(c, ask, limit) ==
    /\ call' = [call EXCEPT ![c] = [Idle EXCEPT !.at = "queued", !.ask = ask, !.limit = limit,
                                                !.page = 1, !.before = rows]]
    /\ queue' = Append(queue, c)

Ended(c, out) == call' = [call EXCEPT ![c].at = "done", ![c].out = out, ![c].after = rows]

Grant ==
    /\ queue # <<>>
    /\ call' = [call EXCEPT ![Head(queue)].at = "sent"]
    /\ queue' = Tail(queue)
    /\ UNCHANGED explorerVars

\* Mutant of Leaves: the reservation stays.
LeavesNothing(c) == queue

Leaves(c) ==
    IF call[c].at # "queued" THEN queue
    ELSE LET i == CHOOSE k \in DOMAIN queue : queue[k] = c
         IN  SubSeq(queue, 1, i - 1) \o SubSeq(queue, i + 1, Len(queue))

\* The context ends while the call waits for the limiter, the answer or the pause.
Cancel(c) ==
    /\ call[c].at \in {"queued", "sent", "backoff"}
    /\ Ended(c, "cancelled")
    /\ queue' = Leaves(c)
    /\ UNCHANGED explorerVars

\* Mutant of Retry: every failure is repeated.
RetryAlways(c) == call' = [call EXCEPT ![c].at = "backoff"]

Retry(c) ==
    IF call[c].tries < MaxRetries
    THEN call' = [call EXCEPT ![c].at = "backoff", ![c].tries = @ + 1]
    ELSE Ended(c, "unavailable")

\* The connection fails, the body is cut, or the explorer is busy: 429, a 5xx,
\* a text about its rate limit in a body that is not a success.
Unavailable(c) == call[c].at = "sent" /\ Retry(c) /\ UNCHANGED <<queue, explorerVars>>

WakeUp(c) ==
    /\ call[c].at = "backoff"
    /\ call' = [call EXCEPT ![c].at = "queued"]
    /\ queue' = Append(queue, c)
    /\ UNCHANGED explorerVars

\* Another status, an error of the API, an answer that is not one: not repeated.
Refuse(c) ==
    /\ call[c].at = "sent"
    /\ \E out \in {"refused", "malformed"} : Ended(c, out)
    /\ UNCHANGED <<queue, explorerVars>>
-----------------------------------------------------------------------------
(* list *)

\* Mutant of Short: a page is judged by the transfers kept of it.
ShortOfKept(page) == Cardinality(Places(page)) < PageSize

Short(page) == Len(page) < PageSize

AtLimit(k, raw) == k.limit > 0 /\ Cardinality(Places(raw)) >= k.limit

PageOutcome(k, page, raw) ==
    IF \E i \in DOMAIN page : page[i].sort = "wordy" THEN "unavailable"  \* not repeated: the body is a success
    ELSE IF Unreadable(page) THEN "malformed"
    ELSE IF AtLimit(k, raw) THEN "record_limit"
    ELSE IF page # <<>> /\ page[Len(page)].sort = "torn" THEN "malformed"
    ELSE IF Short(page) THEN "whole"
    ELSE IF k.page = MaxPages THEN "page_limit"
    ELSE "more"

AnswerPage(c) ==
    LET page == PageRows(call[c].page)
        raw  == call[c].raw \o page
        out  == PageOutcome(call[c], page, raw)
    IN /\ call[c].at = "sent" /\ call[c].ask = "list"
       /\ \/ /\ out = "more"
             /\ call' = [call EXCEPT ![c].at = "queued", ![c].page = @ + 1, ![c].tries = 0, ![c].raw = raw]
             /\ queue' = Append(queue, c)
          \/ /\ out # "more"
             /\ call' = [call EXCEPT ![c].at = "done", ![c].out = out, ![c].raw = raw, ![c].after = rows]
             /\ UNCHANGED queue
       /\ UNCHANGED explorerVars
-----------------------------------------------------------------------------
(* TransactionByHash, TransactionReceipt, InternalTransactionsByHash, Call, *)
(* CodeAt: one request each.                                               *)

\* "No transactions found" is an answer: there are no internal calls, or they
\* are not indexed yet.
One(ask) ==
    CASE ask = "tx"        -> IF tx.stage = "unknown" THEN "absent" ELSE "found"
      [] ask = "receipt"   -> IF tx.stage \in {"mined", "traced"} THEN "found" ELSE "not_mined"
      [] ask = "internals" -> IF tx.stage = "traced" /\ tx.calls # {} THEN "found" ELSE "empty"
      [] OTHER             -> "found"

AnswerOne(c) ==
    /\ call[c].at = "sent" /\ call[c].ask # "list"
    /\ Ended(c, One(call[c].ask))
    /\ UNCHANGED <<queue, explorerVars>>

Reply(c) == Unavailable(c) \/ Refuse(c) \/ AnswerPage(c) \/ AnswerOne(c)

ClientStep == Grant \/ \E c \in Callers : Cancel(c) \/ Reply(c) \/ WakeUp(c)
-----------------------------------------------------------------------------
(* Properties *)

Calls == [at : {"idle", "queued", "sent", "backoff", "done"}, ask : Asks \cup {"none"}, limit : Nat,
          page : 0 .. MaxPages, tries : 0 .. MaxRetries, raw : Seq(Row), out : Results \cup {"none"},
          before : SUBSET Row, after : SUBSET Row]

ClientTypeOK ==
    /\ order \in {"asc", "desc"} /\ rows \cup late \subseteq Row
    /\ queue \in Seq(Callers) /\ call \in [Callers -> Calls]
    /\ \A c \in Callers : call[c].at = "queued" <=> \E i \in DOMAIN queue : queue[i] = c
    /\ \A i, j \in DOMAIN queue : queue[i] = queue[j] => i = j

Lists(c) == call[c].at = "done" /\ call[c].ask = "list"
Kept(c)  == {call[c].raw[i] : i \in Returned(call[c])}

\* A listing is what it says, although the explorer goes on indexing while the
\* pages are read: a whole one has every record there was when it began, one that
\* ran out of pages has those ahead of the last block it names, one that reached
\* its limit has that many and has passed over none (fetchRange resumes from it).
ListingHonest ==
    \A c \in Callers : Lists(c) =>
        LET k == call[c]
            due == {r \in k.before : Retained(r)}
            final == k.raw[Len(k.raw)].block
        IN /\ k.out = "whole" => due \subseteq Kept(c)
           /\ k.out = "page_limit" =>
                 {r \in due : IF order = "asc" THEN r.block < final ELSE r.block > final} \subseteq Kept(c)
           /\ k.out = "record_limit" =>
                 /\ Cardinality(Returned(k)) = k.limit
                 /\ \A r \in due \ Kept(c) : \A s \in Kept(c) : Ahead(s, r)

\* The identities that the rows of one key have, however they are paged: one
\* for each, counted from zero.
Reference(kept) ==
    LET bare == {s \in kept : s.sort = "bare"} IN
    {[key |-> r.key, log |-> r.nr] : r \in kept \ bare} \cup
    UNION {{[key |-> r.key, log |-> -n] : n \in 1 .. Cardinality({s \in bare : s.key = r.key})} : r \in bare}

\* The records of a listing that nothing was inserted into have the same
\* identities as in any other such listing, so that storing them twice changes
\* nothing and no two of them share a document (the transfers collection is
\* unique by log index).
IdentitiesStable ==
    \A c \in Callers : Lists(c) /\ call[c].before = call[c].after =>
        {Identity(call[c].raw, i) : i \in Returned(call[c])} = Reference(Kept(c))
-----------------------------------------------------------------------------
(* The inductive invariant behind the theorems *)

Seen(k) == {k.raw[i] : i \in DOMAIN k.raw}

\* A listing under way has seen all that was there when it began, up to the rank it
\* has come to, and nothing after what it has not seen; what it has seen came to it
\* in the explorer's order, at its own rank if nothing was inserted.
ListingsGoOn ==
    \A c \in Callers : LET k == call[c] IN
        k.ask = "list" /\ k.at \in {"queued", "sent", "backoff"} =>
            /\ k.before \cup Seen(k) \subseteq rows
            /\ Len(k.raw) = (k.page - 1) * PageSize
            /\ \A r \in k.before \ Seen(k) : Rank(r) > Len(k.raw) /\ \A s \in Seen(k) : Ahead(s, r)
            /\ \A r \in k.before \cap Seen(k) :
                  \E i \in DOMAIN k.raw : k.raw[i] = r /\ \A j \in 1 .. i - 1 : Ahead(k.raw[j], r)
            /\ k.before = rows => \A i \in DOMAIN k.raw : Rank(k.raw[i]) = i

ListsInv == ListingsGoOn /\ ListingHonest /\ IdentitiesStable
=============================================================================
