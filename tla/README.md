# A TLA+ verification of eth-fund-trace

The program synchronises Ethereum addresses from a block explorer into MongoDB
and traces money through what it has stored.  A trace trusts the address
document: if it claims blocks 1..100 of an address, an empty answer for these
blocks means "no money moved", not "not looked yet".  The development is about
that trust: where the records come from (the explorer's client), how coverage
is claimed (the synchroniser), the jobs that move it forward, and what rests on
it (traversals, accounts, analyses, pages and profiles).

## Inventory

| Component | State it keeps | Operations | What must be right |
|---|---|---|---|
| Sync manager, jobs (`syncer/manager.go`) | queue channel, `active` keys, `cancels`, a worker's copy of a job document | `Enqueue`, `Stop`, `Run` (start-up sweep, receive), `process` | one job per address at a time; every job ends and gives its address back; a result stands |
| Sync manager, fetching (same file) | window, safe head, checkpoints, gap and listing in progress | `syncAddress`, `fetchRange`, `fetchRecentRange`, `persistTransfers` | coverage and checkpoints never run ahead of stored records; the record limit stops claims |
| Store, sync (`store/store.go`, `models.go`) | `sync_jobs`, `addresses`, `transfers` | saves, checkpoint lookup, completion, counts, `FailInterruptedJobs` | whole-document saves of stale copies; a count never exceeds the records |
| Store, queries | none of its own | `QueryTransfers`, neighbours, counterparties, profile aggregation | keyset pages neither skip nor repeat |
| Trace manager (`tracer/manager.go`) | trace queue, `active` keys, `cancels`, trace documents | `Enqueue`, `EnqueueExtension`, `Stop`, `process`, `processExtension`, `waitSync` | a trace ends; a stop stops it and its sync jobs; an extension is merged once |
| Trace graph (`tracer/tracer.go`, `amount.go`, `tokens.go`) | frontier, visited branches, money states of one call | breadth-first expansion, FIFO consumption, ledgers | nothing missed of what the data covers, or the result says so; no money explained twice; a trace stops for data finitely often |
| Trace extensions (`tracer/extension.go`) | none | anchors, the two bodies of `ExtendBranch`, `MergeResults` | no more is extended than arrived; merging loses no finding |
| Explorer client (`etherscan/`) | a shared rate limiter | pages of three actions, retries, proxy calls | a short listing is never taken for a whole one |
| Transaction analysis, verifiers (`transactionanalysis/`, `relay/`, `thorchain/`, `mayachain/`) | caches of analyses and pools | `Analyze`, `InspectAddress`, `poolMetadata`, `Verify` | a conclusion that is called complete rests on complete evidence; a route ends where the money rests |
| Profile, fund graph (`profile/`, `fundgraph/`) | saved profiles | `Get`, `Edges` | what is counted or paged is all of the coverage that is stated with it |
| HTTP API, governance, config, chains, web console | none, or per-client limiters | parse, call, render | - |

Interaction: HTTP goroutines call `Enqueue` and `Stop` of the two managers; each
manager has one worker goroutine that drains its channel; the trace worker
enqueues sync jobs and polls them until they end; both workers and all callers
share MongoDB, where every save replaces a whole document with its writer's
copy.  Nothing is transactional.  The process may die between any two writes; at
the next start `FailInterruptedJobs` fails what was live.  Workers start beside
the HTTP server, in no order with it.

What is hard here: whole-document saves that race (stop against progress), a
start-up sweep that races with enqueues, retries that resume from checkpoints of
an earlier job with another window, listings cut at page boundaries, a chain that
grows while jobs are interrupted and while pages are read, limits reached in the
middle, traversals that start again whenever data is missing while other clients'
jobs replace the coverage they just got, evidence of which any part may fail to
arrive and whose conclusion is cached for good, and readers of collections that a
synchronisation is writing.  The `hazards` of `PROJECT.json` give each at its line.

## Modules

| Module | Models | Extends |
|---|---|---|
| `Coverage` | `validCoverage`, `coverageContains`, `coverageIntervals`, `mergeCoverage`, `CommonCoverage` | |
| `AscendingSync` | the whole synchroniser with `SYNC_MAX_RECORDS_PER_ACTION = 0` | `Coverage` |
| `RecentSync` | one address in the default mode, with the record limit | `Coverage` |
| `SyncService` | what the sync manager promises to those that enqueue, read and stop its jobs | |
| `SyncJobs` | the goroutines around a sync job: callers, stoppers, worker, restart | has an instance of `SyncService`, which it implements |
| `TraceJobs` | the trace manager: callers, stoppers, worker, restart | has an instance of `SyncService`, which it is built on |
| `Ledger` | the money states of edges, their FIFO consumption, account lines, reconciliation, merging of states | |
| `TraceGraph` | one trace: traversal, the dependencies it waits for, its accounts, its extensions | extends `Ledger`, has an instance of `Coverage` |
| `ExplorerClient` | the block explorer and its client: limiter, retries, listings, identities of rows | |
| `SwapRoute` | what an analysis concludes: routes, RFQ conversions, claimed payments | |
| `TransactionAnalysis` | `Analyze`, `InspectAddress`, the relay verifier, their caches | `ExplorerClient`, `SwapRoute` |
| `Reads` | pages, profiles and the largest counterparties, as read from a growing collection | |
| `Ingest` | composes the client's callers: a synchronisation's writes, analyses, inspections, readers | `TransactionAnalysis`, `Reads` |
| `CoverageProofs`, `AscendingSyncProofs`, `RecentSyncProofs`, `SyncJobsProofs`, `TraceJobsProofs`, `TraceGraphProofs`, `IngestProofs`, `ReadsProofs` | theorems | the module they are about, and each other |
| `MCAscendingSync`, `MCRecentSync`, `MCSyncJobs`, `MCTraceJobs`, `MCTraceGraph`, `MCIngest` | instances for TLC: worlds, scenes, bounds | |

Operators named after a mutation (`GapsSkippingBlock`, `CutAsWhole`, ...) stand
before the definition they vary and are marked `Mutant of`.  They are part of no
specification: replacing the definition by them shows that a property notices.

### AscendingSync

*State.* `cover`, `synced`, `stored` are the addresses and transfers
collections; `stored[a][x]` is the set of blocks all of whose records of action
`x` are in.  `jobs` is the `sync_jobs` collection in order of creation, `queue`
the channel.  `mem`, `prog` are the worker's copy of its job's checkpoints and
last reported listing, `resume` the checkpoints `syncAddress` was given.  `pc`,
`job`, `cur`, `todo`, `act`, `pos`, `hi`, `last`, `upto`, `cut` are its place:
action, next block, end of the listing, end of the gap, last block of the batch,
whether the listing met the record limit.

*Actions.* `Enqueue`, `Stop`, `Crash` (with the restart's sweep) from outside; for the worker `Dequeue`;
the lookups and cache of `syncAddress`; `NextGap`/`NextAction` (the loops over
actions and gaps), `List`, `Persist`, `Advance` (one round of `fetchRange`: list,
write, move the checkpoint; whole listing, listing resumed at the block it was
cut in, or split in halves); `StopAtLimit` and `AdvanceCut` for the record limit of
the split client; `Complete`; `PickNeighbors`, `StartNeighbor`, `Finish`; and at
every point that can fail its failure.  `saveProgress` inside an action may fail
silently, so the stored document may lag.

*Abstracted.* Records are blocks.  The page limit is a choice (`Splits`), and so is
the record limit (`Truncates`).  Creation times are the order of creation (ties of
the database's milliseconds are ignored).  A stop is one step here: its three
steps are in `SyncJobs`.

### RecentSync

Records matter here, because the limit counts them: `Chains` gives the blocks that
hold a record of each action, and `counts` is `actionRecordCounts`.  Clients and traces
ask for any start and end block (`Requests`; `httpapi/sync.go:31-48`,
`tracer/manager.go:300-312,370-376`).  Checkpoints are looked up by address and start block, and
`active` admits one job of the address at a time, so of the jobs with one start only the
newest is ever read again: `docs[s]` is that job's document.  With several starts a coverage
leaves a gap on each side of it; `NextGap` takes them lowest first, as `fetchRecentRange`'s
caller does, and has one checkpoint for both.  `handed` says whether the job was
given checkpoints: then the map compared with each gap's end is the very map that the job's own
listings move.

Two history variables say how far a checkpoint can be trusted.  `reach[s]` is the lowest end of
the windows that the checkpoints of start `s` come from (`Nothing` where a job with two gaps
left them, or where they were guessed), and `misled` becomes true when a job is handed
checkpoints and its window ends above that reach, or leaves two gaps.  They are three ways to be
misled: a chain that has grown or a later end block; two gaps; `legacySyncCheckpoints`, which
takes a listing that ran newest block first for one that ran upwards.  The soundness
properties hold until then; what happens after is the run `recent_retry`.  `Fetch` is a descending listing that ends `whole`, at a `page` boundary or
`cut` by the room left; `Upsert` and `Count` are the two writes of
`persistTransfers`; `NextPage`, `Whole`, `Cut` what `fetchRecentRange` and
`syncAddress` do with it.  `CounterpartySync` is another address's job that brings
in shared records, which then count for nobody.  Not modelled: the fixed cap of 200000
records of one listing (far above the limit), neighbours and the queue (same
code as in `AscendingSync` and `SyncJobs`).

### SyncJobs

No data: the document's status, the keys, the channel, and who holds which job.
An `Enqueue` call is its critical section, the send, and for a full queue the
release and the write; a `Stop` call is the read, the write and the cancellation;
the worker is `Receive`, `Load`, `MarkRunning`, `Report`, `Finish`/`Abandon`, `Release`.
`Recover` is the sweep of `Manager.Run`, concurrent with the callers because
`main.go` starts it beside the server; if the database does not answer, `Run`
returns and the process has no worker (`phase = "dead"`).  `Outage` turns the
database off and on, and every write is guarded by it; `Crash` empties the memory.

### SyncService

The abstract specification between the two managers: documents, their addresses,
the keys, and `open`, the jobs somebody may still write.  A new job takes its
address's key; an open job runs, ends with a result or is abandoned without a word;
once closed its document changes by a stop or a sweep only.  A stop may come at any
time and says nothing of the key: that is what a waiting trace is exposed to.
`SyncJobs` implements it under the mapping `Open` (jobs in the hands of a sender, of
the queue or of the worker).

### TraceJobs

*State.* `status`, `seed`, `variant`, `root`, `syncs`, `result` are the
`trace_jobs` collection; `variant` stands for direction, depth and asset, and
`result[i]` is the set of traces whose findings the result of `i` holds, so that
a root's result grows by an extension and a whole-document save can lose one.
`active` and `extending` are `Manager.active` for queries and for `extension:` keys;
`queue` the channel; `sender`, `stopper` the goroutines past their first critical
section or read; `worker` the place and the local variables of `process` or
`processExtension`; `cancelled` the context of the job in process.  `book` says of each
address what the trace side reads in its document: `synced` over the required
range, `high` frequency, or `open`.

*Actions.* `Enqueue`, `EnqueueExtension`, then `Send` or `QueueFull`; `StopRead`,
`StopSave`, `StopCancel`, and one `StopSyncRead`/`StopSyncSave` for each sync job of
the copy; `Recover` (the sweep), `Receive`, `Load`; `Begin`, `ReadSeed`, `Ask` (the
sync manager's `Enqueue`), `Note`, `Poll` (`waitSync`), `Mark`, `Traverse` with
`Miss` (a dependency is synchronised once, then given up), `Again`, `Finish`; for an extension
`ReadRoot`, `Reread`, `Merge`, `Close`; `Fail`, `FailSave`, `Release`.  Roots save with
the server's context and extensions with the job's, which a stop cancels
(`Serves`).  `SyncStep` is the sync service at work for this and other clients;
`Crash` and `Outage` are as above.

*Abstracted.* What a traversal finds missing is a choice (`Windows` of
any address not given up), except for the seed, which comes first.  `EnqueueExtension`'s
read of the root is one step with its critical section: a root that has ended stays
ended but for a late stop.  A sync job created and rejected by a full sync queue
belongs to nobody and is left out, as is a sync job that succeeds on a window too
narrow for the traces of its address.  `TRACE_EXISTING_DATA_ONLY`, without a sync
service, is not modelled.

### Ledger

Pure operators.  A money state is one side of an edge (`Half`, `MoneyOf`); `Consume` is
`consumeMoneyStates`: a stable sort by entry block (`InBlockOrder`, by insertion), then every
outgoing state takes from the incoming ones of its account, each down to nothing before the
next is touched (`Drawn`, `Pay`; the mutant `DrawnFromBack` begins at the other end of the
queue).  What one state takes from another is given by what those before it had left, so the
inner loop needs no recursion.  `LedgerLine` and `Reconciliation` are `buildLedgers` and the
status it leads to, `AppendUnique` is `appendUniqueMoneyStates`, whose key has neither the
amount nor the block.  Sums and the remaining loops are recursive functions over the numbers up
to the length of the sequence; that is the form in which they can be proved about.

### TraceGraph

*State.* `facts` and `kind` are the chain.  `status`, `windows`, `stored`, `wanted`
are the address documents, the transfers collection and the running sync of each address
(a job of the synchroniser in two steps, `Ask` and `SyncEnds`; how it gets there is
`AscendingSync` and `RecentSync`).  `attempted`, `given`, `dep` are
`attemptedDependencies`, `terminalDependencies` and the dependency waited for in
`process`.  `nodes`, `btc`, `edges`, `branches`, `data` are the result;
`frontier`, `next`, `processed`, `expanded` those of the rounds of `traceSameChain`;
`cur`, `todo`, `budget` the branch in `expand` with the candidates and the amount
it has left; `money` the states of the accounts.

*Actions.* `Start` (or `MissSeed`); for a branch of the frontier `Drop`, `TakeQuery`
or `TakeConversion`; for a candidate `Skip`, `Dust`, `NodeLimit`, `Burn`, `Follow`,
or `Miss`, which ends the traversal and makes the manager ask once and then give
the address up (`Depend`); `Expanded`, `EndRound`, `Finish` with the accounts; `Extend` for
`ExtendBranch`, with its two bodies, `ExtendOneHop` and (out of a THORChain router) `ExtendRouter`,
each ending in `MergeResults`.  `Analyse` fixes what the analysis of a
transaction says when it is first asked for, by the traversal or by the extension of a router:
nothing that helps, an inbound, or a conversion (`Output`: a swap with the output leg its evidence
names, a THORChain outbound, a migration between vaults).  `AnalysisFails` ends the trace.  Other
clients synchronise the same addresses between any two steps (`ClientSync`), and their job may
take the place of the one the trace asks for.

*Abstracted.* Amounts are small numbers.  The branches of a round are taken in any order
(the code sorts them by key).  A peer's document is read
in the step that judges it.  The transactions behind an edge, labels and
presentation are left out, and so is whether `TopCounterparties` or
`TopRelationshipTransfers` brought a candidate; what an analysis or a verifier answers is a choice.

*As the code has it*, and perhaps not as a reader expects:

* an address is marked `no_matching_transfers` by the round that processed it
  without an edge, even if an earlier round found some;
* at the node limit the branch of an edge to a node that the graph has already is dropped where
  it stands (`tracer.go:476-478`), without a mark: if the round opens no other branch the result
  reads `synced`, although `docs/10-资金链路追踪设计.md:104` says that a result that meets the limit is marked
  `partial`, and what lies onwards of that edge was not looked at.  `CutsAdmitted` therefore says only
  below the limit that every edge leads on into a branch (`AllLeadOn`);
* Bitcoin recipients and extensions do not count towards the node limit;
* an extension takes the zero address for a peer like any other, asks for its data, and records its
  state (`extension.go:98-139`), where the traversal ends at it;
* `WithinBudget` is about ordinary branches.  What leaves a conversion is another amount than
  what came in, and the hops of an extension are limited by what arrived at its node over all edges of an
  asset (`Payment`), not by a branch;
* an extension of a router sends on each payment that ends there whole, to any kind of address: no
  document is asked for, and a wallet is no stop (`extension.go:201-205`);
* facts under the threshold make no edge, although `docs/10` speaks of keeping every
  positive fact;
* a transfer from or to the zero address (mint, burn) has no branch state, and one that is kept
  at the node limit has none either: seen from two branches, they are two edges (`GraphClosed`
  excepts both);
* `branchStateKey` (`tracer.go:893`) knows the transaction and not the log: of two transfers of
  one asset in one transaction to one address only the nearest makes an edge, although
  `docs/10` keeps every positive fact (`Reached` counts the other as found);
* with both directions a cycle through the seed appears in the accounts once for each;
* contract vaults are queried without asking for their coverage, and facts after the
  block the data goes to may be read;
* a branch whose swap legs are already edges counts as not expanded;
* an address that turns high-frequency between two branches that reach it keeps the
  open node of the first while the second is not followed (`NothingMissed` excepts it;
  the result is `partial`);
* coverage is one range, so that an inbound and an outbound request of one
  address can replace each other; the traversal ends all the same because a repeated
  request is given up (`StopsLearn`);
* a merge consumes states that were consumed before: after an extension the accounts
  only keep the bounds and the inequality of `LedgerExplains`.

### ExplorerClient

*State.* `rows`, `late`, `tx` are the explorer (what it has indexed, what it is late
with, the transaction asked for), the environment.  `queue` is the limiter
(`golang.org/x/time/rate` serves reservations in order; modelled as that), `call` the request
of each caller: `queued`, `sent`, `backoff`, `done`.

*Actions.* `Ask`, `Grant`, `Cancel`, `Unavailable` (repeated at most
`MaxRetries` times, each time after a pause and through the queue), `Refuse`,
`AnswerPage` (`list`: one page, its rows, limits and whether it was the last),
`AnswerOne`, `WakeUp`.  Rows are `logged`, `bare` (their identity is counted),
`void`, `torn`, `broken` or `wordy`, after what normalisation does with them.

*As the code has it:* a text "rate limit" inside a successful body fails the listing
and is not repeated, because `get` has returned by then; the proxy calls' own test for
it (`client.go:441-443`) is out of reach for the same reason; a row that is skipped because a
field is missing is, says `normalize.go:62-63`, left to "the next scan", but a range that is
covered is not scanned again; a row read twice because pages moved gets a second synthetic
identity, and stays as a second transfer (`IdentitiesStable` and `PagesHonest` except
listings the explorer disturbed); a transaction whose internal calls are not indexed
yet reads as one without any.

### SwapRoute, TransactionAnalysis

`tx` is a transaction's truth; an analysis learns it through requests any of which
may fail.  `job` is where each caller is: `Lookup`, `TakeTransaction`, `TakeReceipt`,
`TakeInternals`, then for each swap `LookupPool` and four `TakeRead`, `ParseLogs`,
`VerifyRelay`, `Save`.  `Conclusion` says what is saved, with the rule that applied;
`SwapRoute` has the rules that compare evidence: `FinalOutput` with `ResolveOutput`,
`RfqRecipient`, `Paid`.  `saved` and `pools` are the caches, shared by all callers.
Two callers may analyse one transaction at once, and the later save wins.

*As the code has it:* a recognised RFQ is called complete although an
earlier step made the analysis partial (`service.go:599`); a slower partial analysis
replaces a complete one; a partial one is kept as long as its version is
current; burnt output leaves the holder before as the end of the route; amounts are
not compared along the way.  The documentation's "at most once" for the parsing of a
transaction (`docs/10:75`) holds one after another, not for concurrent callers.

### Reads, Ingest

`docs` is the transfers of one address, `addr` its document, `profiles` the saved
ones.  A reader takes the document in one step (`Open`) and queries in later ones:
`QueryPage` with the keyset cursor, `FindProfile`, `Lifetime`, `WindowCount`,
`SaveProfile`.  `TopCounterparties` is the heap over the sorted cursor.  `Ingest` adds what
the readers see of a synchronisation: `BeginList`, `TakeList`, `Write` (one
document after another in any order), `Claim`, or `Fail` anywhere.  Where it may start (what the
callers do, the explorer's rows and the transaction, what is stored) is the constant `Scenes`.

*Abstracted.* A query sees the collection at one moment.  Blocks stand for times.  A
listing that ran out of pages ends the synchronisation here; `fetchRange` goes on
from it in `AscendingSync`.

*As the code has it:* a profile is found by rule version and data block, so one that was
computed before a back-fill to a lower start is served after it; the
lifetime and the window are counted by two queries, and the second may see more; transfers
beyond the stated coverage are counted and paged too; a coverage of block 0 alone
reads as none.

## Runs

| Run | Instance | Shows |
|---|---|---|
| `ascending_split` | 2 actions, windows from {1,3} to {head,2}, heads 2..3, splits, cache on, 2 jobs | `CoverageSound`, `CheckpointsSound`, `SucceededMeansCovered` through splitting, failing, stopping, crashing and retrying, gaps on either side, disjoint and inverted windows |
| `ascending_neighbors` | 2 addresses, record limit, cache on, 2 jobs | the same while jobs expand to neighbours, for the addresses that do not expand themselves |
| `ascending_seed` | as above | **violation** of `SeedCoverageSound` |
| `recent_limit` | 2 chains, limit 3, heads 2..3, 3 jobs, requests from block 1 to the head and for block 2 alone | `CoverageSound`, `CheckpointsSound` (until a job is misled), `CountsHonest`, `LimitStopsClaims` |
| `recent_retry` | 1 chain, fixed head 4, 3 jobs, requests for blocks 2 to 3 and from block 1 to the head | **violation** of `RetriedCoverageSound` |
| `sync_jobs` | 2 addresses, queue of 1, 3 jobs, one caller, one stopper | `KeysMatch`, `ResultsStand`, `ImplementsService`, and under fairness `KeysReleased`, `JobsEnd` |
| `sync_stop` | 1 address, 1 job | **violation** of `StoppedJobsEnd` |
| `trace_jobs` | 2 queries, 1 window, queue of 1, 2 traces, 1 sync job, one caller, one stopper | `KeysMatch`, `ExtensionsMerged`, `SucceededMeansSynced`, `OutcomesStand`, and under fairness `TracesEnd` |
| `trace_stop` | 1 query, 2 traces, 1 sync job | **violation** of `TracesEndAfterStops` |
| `trace_seed` | 1 query, 1 trace, 3 sync jobs, nobody stops | **violation** of `TracesEndWithoutProgress` |
| `trace_graph` | 10 chains of 3 to 5 transfers over 4 addresses and the zero address, up to two of them not ordinary, both directions, 4 nodes, 1 sync of another client (early or late blocks), 2 extensions | `GraphClosed`, `WithinBudget`, `TimeMonotone`, `CutsAdmitted`, `LedgerExplains`, `StopsLearn` |
| `ingest` | some 1750 scenes of up to two callers; pages of 2, 2 pages, 1 retry | `ListingHonest`, `IdentitiesStable`, `CompleteRests`, `ClaimsTrue`, `PoolsTrue`, `TopIsTop`, `PagesHonest`, `ProfileHonest`, and under fairness `RequestsEnd` |

Every property of a passing run has a mutant: a definition of the model varied the
way a plausible slip in the code would be, under which the run fails on that property.

*Why the bounds are enough.* A wrong resume needs two jobs of one address, the
second resuming; a coverage that is merged from both sides needs a third, which is left
to the theorem `CoverageIsSound`.  Three blocks
give a listing a first, an inner and a last one, so that a split has two halves
and a resume block lies strictly inside.  In `RecentSync` a limit of 3 is met
by one action at once and by another when the chain has grown; a job for block 2 alone leaves
the next one from block 1 two gaps, and three jobs are one that covers, one that is
interrupted and one that resumes.  Where it is the second action that is cut, two jobs show it
(action constraint `SecondCutInTwoJobs`).  In `ascending_split` the constraint `GrowsForFollowers`
lets the head grow for a job that follows it, where only it sees the growth, and once it has grown,
the second job is one from the first block to the head (a narrower window comes second to
a job of the shorter chain; without the constraint, 3.5M states, nothing else came up).  In
`SyncJobs` a queue of one slot is full with one job waiting and one sending; three
jobs give the worker one, the queue one and the sender one.  Two callers instead of
one (558k states, safety) behaved alike, and the theorems cover any number.
In `TraceJobs` two traces are a root and its extension, or two roots one of which
waits behind the other; one sync job is enough for a stop to leave it in another's
hands, three for a seed to be unsynced again after its retry.  The queue is
full with one trace in it and one being sent, which takes two queries;
the action constraint `OtherMeetsFullQueue` of `trace_jobs` admits the second query
only for that: while another trace waits, before anything was synchronised, and with the
rejection as its next step.  It also keeps the database up while there are two roots;
outages meet a single root, and a root with its extension.

In `trace_graph` each chain is one difficulty: more ways on than money, as many
facts as a query returns, round trips, more peers than nodes, burns, a source under
the threshold, an address needed up to one block and from another, a token that
comes back in the coin's own transaction, an address that is reached a second time once the
graph is full, one payment that two could have paid for.  The first transaction carries calldata and
the others do not; a conversion yields a swap into either asset, an outbound or a migration.
Four nodes are the seed, the address it leads to, and the last one before the
limit.  One sync of another client, at any point and of any address, replaces the coverage a
branch rests on, takes the place of the trace's own request, or makes an address
high-frequency.  The action constraint `SyncsFindSomething` keeps to syncs of a range in
which the address has a transfer.  A second extension merges into accounts that a first one has already changed.
`StopsLearn` bounds every execution by the number of requests, so no larger
world has another way to run for ever.

In `ingest` a listing of five rows over two pages of two has a page that comes short, a
last page that is full, a page limit and a record limit reached inside a page, and a
block cut by a page.  One odd row and one late row are enough to move or spoil any
page.  Routes are all sets of up to three transfers out of eight that can fork, turn back,
burn or end at an official contract.  Readers' scenes have up to four documents in
pages of one, first written or written again.  One retry distinguishes the first failure from
the last.  Scenes without a caller check the heap over every set of up to two
transfers with each of four counterparties.

`CHECK_DEADLOCK FALSE` is set where a run may stop: all jobs created and ended
(`ascending_*`, `recent_*`), a trace done or failed with nothing left to extend
(`trace_graph`), every caller finished (`ingest`).

`SucceededMeansCovered` is about jobs that read the safe head.  A job that the cache answers need not
have its window: `fullCache` (`syncer/manager.go:361-368`) compares the start of the window
with the coverage and not its end, so a fresh address answers a job for later
blocks with `succeeded`, up to the age of the cache.

### The violations

`ascending_seed`: `process` hands one `report` closure to its seed and to its
neighbours; `Progress.ActionCheckpoints` of the seed's job then holds block
numbers of the neighbour.  If the job fails after that, a retry of the seed skips its own
blocks up to there and claims them.  Hence `CoverageSound` and
`CheckpointsSound` speak of addresses none of whose jobs expand (`Alone`).

`recent_retry`: a descending listing has one checkpoint for all gaps of an action.  A job over
both gaps around a coverage lists the lower one first, which sets the checkpoint to its start less
one (`syncer/manager.go:694`), and is interrupted.  The retry compares that with the end of each gap
(446-452), skips the upper gap, and claims the whole window (519-527).  Nothing has to
grow for it; a head that grows, or a later end block, between a job and its
retry leads to the same comparison and the same claim.  These, and guessed checkpoints, are what
`misled` stands for in the two properties of `RecentSync`.

`sync_stop`: `Stop` writes `stopped`, then the worker's next write of its own copy
says `running` again, then the cancellation makes the worker return without a
write.  The document reads `running` until the process restarts.

`trace_stop`: `waitSync` returns on `succeeded`, `partial` and `failed`.  Stopping a
trace stops its sync jobs; a job that is still queued or being let go keeps its
address's key for a while, and a new trace of the same seed is given it and waits.  Its
document reads `stopped` and never changes again, so the wait does not end,
and there is one trace worker.  `TracesEnd` therefore assumes that no sync job stays
stopped.

`trace_seed`: every other address of a traversal that was given up counts as
terminal, but the seed's check (`tracer.go:273`) does not ask.  A seed that reads
unsynced again after its one retry, for instance because another client's sync job of it failed
between the wait and the traversal, is reported each time, and the loop
of `process` repeats the traversal for ever.  `TracesEnd` therefore assumes that seeds
are served.

### Fairness

Safety runs assume none.  `SyncJobs` assumes weak fairness of the steps of each call
of `Enqueue` and `Stop` once begun, of the sweep and of the worker: goroutines are
scheduled, explorer calls have HTTP timeouts and a bounded number of retries, a job has
finitely many calls, and the worker never blocks on anything else.  No fairness
is assumed of callers, reports, crashes or outages.  `JobsEnd` holds for
executions in which the database answers and the process ends up running
(`Stays`); a worker that has lost the database cannot record anything.  `KeysReleased` needs
neither: it only excepts a process without a worker.

`TraceJobs` assumes the same of its goroutines (the steps of a begun `Enqueue` or
`Stop`, the sweep, the worker), and nothing of the sync service, of clients, or of the
errors a traversal may end with (`TraverseFails`).  That sync jobs end is a
hypothesis of `TracesEnd`, and what `JobsEnd` says of `SyncJobs`.

`Ingest` assumes that the limiter serves (`GrantNext`) and that each caller goes on when it
can: the HTTP client has a timeout, so a request that was sent is answered or fails; a
pause is finite; a goroutine is scheduled.  Nothing is assumed of the explorer: it may
fail every time, index late or never.  `RequestsEnd` follows because failures are
counted and pages are bounded.

`TraceGraph` has no liveness property: that a traversal ends is the safety property
`StopsLearn` (every stop adds to one of two finite sets) with a bounded number of
branches between two stops.

## Theorems

All hold for every value of the constants that satisfies the modules' assumptions; a
hypothesis beyond those stands in the theorem, and is explained below.  Every
inductive invariant is written in the module it is about, or is a conjunction of
such parts, so that TLC could be asked for it on the runs' instances first.

* `CoverageProofs`: `GapsCompleteWindow`, `MergeSound`, `MergeKeepsWindow`, the
  three facts about ranges that the soundness proofs stand on.
* `AscendingSyncProofs`: `TypeCorrect`; `CoverageIsSound` and `CheckpointsAreSound`, for
  configurations that do not both truncate and split.  Alone `CoverageSound` is not
  inductive: a completing address is justified by what its listings fetched, these
  by where they resumed, and that by the checkpoints of an earlier job.  `IInv`
  says it in this order: `JobsHold` (stored jobs' checkpoints and reported listings lie at the edge
  of stored blocks), `WorkerHolds` (so do the worker's copies), `SameCoverage`
  (all actions of an address have the same coverage, so a checkpoint of one window serves),
  `PlaceOK` and `AddressHolds` (the actions before the current one are fetched, and
  the current one up to `pos`).  One lemma per action shows that it is kept.
  The hypothesis is needed: with both, the left half of a split can be cut by the
  record limit while the right half moves the checkpoint on
  (`manager.go:600-616`); the server never configures both.
  `SucceededIsCovered` adds that a job that ended `succeeded` and says of which safe head has
  brought in its whole window (`Listed`), whether that follows the head or ends before
  it; a job that the cache answered has read no safe head, and its document tells.  `Promised`
  carries it: a job without neighbours reads the head for its seed or not at all
  (`HeadUnread`), and once it is past its seed whole, the seed's records of the window are stored
  (`SeedCovered`).
* `RecentSyncProofs`: `TypeCorrect`, `CountsAlwaysHonest`, `LimitAlwaysStopsClaims` without a
  hypothesis.  A batch counts what it inserted and its listing was cut to the room left,
  so the count needs the room's own invariant: `RoomHeld` says that count, room and what is
  still to persist stay under the limit together, `LimitHeld` that the loop over the
  actions goes on below it only.  The records in a range are a cardinality, and the
  lemmas on it (`Counting records`) are those of finite sets.
  The invariant of these is `CountInv`.
  `CoverageAlwaysSound` and `CheckpointsAlwaysSound` have no hypothesis either: any start and end
  blocks, any chain, growing or not.  What they except, a job that was misled, is in the
  properties, and `recent_retry` shows why.  `IInv` adds to `CountInv` what holds until then:
  the worker's checkpoints tell of stored blocks as far up as their reach, as the saved ones do
  (`WorkerHolds`); the reach is no higher than the end of the job's window, and exactly that for
  a job that resumes, which then has at most one gap (`WindowHolds`); between what is still to list
  and the reach all is stored, so the checkpoint may be moved there (`AboveHolds`); and the
  window is stored for the actions before the current one, and for that one but for
  its gaps to come and what is left of its listing (`LoopHolds`).  The lemmas on the gaps
  (`GapShape`, `GapsInside`, `GapsApart`) are where the starts matter.
* `SyncJobsProofs`: `TypeCorrect`, `KeysAlwaysMatch`, `ResultsAlwaysStand`.  `KeysMatch` alone
  is not inductive: releasing a key is only right if the job is in no other hand
  (`OneHolder`), and a fresh job only is if nobody holds its number (`Fresh`);
  results stand because only the worker that is letting go holds such a job
  (`ResultsUnheld`).
  `Implements`: every behaviour of `SyncJobs` is one of `SyncService`.  Step by step: a send, a receive or a report of a job nobody else
  holds leaves `Open` alone (`OneHolder`, `Fresh` of the invariant above), and a
  full queue closes the job when its document is written or its key released.
* `TraceJobsProofs`: `TypeCorrect`, `KeysAlwaysMatch`, `ExtensionsAlwaysMerged`,
  `SucceededAlwaysSynced`, `OutcomesAlwaysStand`.  To `OneHolder` and `Fresh` the invariant adds
  what the two kinds of job lay on each other: `Placed` (extensions and roots have places of
  their own), `Done` (a trace with a result, or with an extension, is past its last
  save), `Based` (the root an extension read is the root as it stands, unless it was stopped since),
  `Merged`, and for the sync jobs `SyncsFresh` and `Synced` (of a root that is not
  partial so far, all but the one it waits for have succeeded for good; a trace comes to the worker with
  none, in a stop's copy of it too).  Of the service below only `SyncService` is used.
* `TraceGraphProofs`: `Inductive` and from it `TypeCorrect`, `GraphAlwaysClosed`,
  `BudgetsAlwaysKept`, `TimeAlwaysMonotone`, `CutsAlwaysAdmitted`, and `StopsAlwaysLearn`.  The
  parts of `IInv`: `StoreHolds` (what a document claims is stored), `BranchesHold`, `EdgesHold`
  and `WalkHolds` (branches, edges and candidates continue each other, in time),
  `RecordsHold` and `EntriesHold` (below the limit every edge has its branch, and every branch
  its edge, so that what was visited was found), `BudgetHolds` (the amount left and the sum of the
  edges so far), `DataHolds` (of an ordinary address that is not a stop, all that lies
  onwards is stored), `ExpandedHolds` (and found, or still a candidate, or beyond the
  budget) and `StopsHold`.  `CutsAdmitted` follows at `done`, where the frontier is empty but
  for stops; that a synced result has no cut is a part of `StopsHold`, and that below the
  limit every edge leads on one of `RecordsHold`.  An extension's two bodies leave the same behind as far as the
  invariant is concerned (`Extended`: edges from the extended node, of transactions whose block is known).  The data may change under a traversal as other clients' jobs come and go; it only grows,
  and what a trace needs of it is checked when a branch is opened, which is why `DataHolds` is stable.
  The proof uses of the chain that a transaction is in one block (`WorldsAssumption`).
  Sums over edges are taken by induction over a set of
  numbers (`SetInduction`, from its least missing one), as the library's induction rules cannot be
  used.

  The accounts, in the same module.  `LedgerAlwaysExplains`: beside `LedgerExplains` the invariant
  `MoneyHolds` only says that no state has used more than its amount (`Shares`); the work
  is in the loops, each unfolded into its sequence of intermediate values (`Runs`) and followed by
  induction over their number.  Inserting a state adds its part to the sums of its account and to
  no other (`InsertedUses`), so the sort keeps them (`SortIs`).  A payment adds the
  same amount to both sides of one account (`PayUses`).  From whole states, `Served` holds up to
  every position of the loop (`ConsumeServes`): both sides of an account agree, later
  states are untouched, no incoming state is touched while an earlier one has something
  left, and what the outgoing states have used is covered by what had come in before (`Backed`).
  After a merge the states are not whole: a state of the earlier result keeps what it has
  given and an outgoing one starts again from its whole amount.  What is left is the inequality,
  which every step keeps from wherever it starts (`ConsumeKeeps`), and which the states that a merge
  appends do not disturb, as they are whole (`AppendUses`).
  `LedgersAlwaysBalance` is what follows for the lines of `buildLedgers`.

  `NothingIsReconciled`: as soon as there is a money state, `Reconciliation` is `"partial"`.
  The invariant is `MoneyOpens`: the first state in block order is of a payer, and whole.  An edge
  appends its payer's state right before its payee's, both of one block, so no
  payee's state is the earliest; the first state meets an empty queue.  A merge could only
  put a payee's state first whose payer's is dropped as known; but then the known one
  is of the same transaction, hence block (`AppendPaired`).  The code can therefore report
  `complete` (`tracer.go:629`, `extension.go:331`) only for a result without money
  states, or for amounts of zero, which pass the threshold off mainnet only and are not in the model.  The third
  value of `docs/10-资金链路追踪设计.md:134`, `inconsistent`, is assigned nowhere.  Single ledgers do
  become complete.

* `IngestProofs`, about the explorer's client and what rests on it, for any number of callers that
  share it.  `Inductive` is the invariant `IInv`: the types (`TypeCorrect`, with a
  caller in the limiter's queue exactly while it waits there), `WorldOK`, `Placed` (whose request is out,
  and which step waits for it) and `EvidenceOK`: what an analysis holds is evidence of this
  transaction, and has been judged by the answers it got.  From it
  `CompleteAnalysesRest`, `AnalysesTrue`, `CachedPoolsTrue`.  `AnalysesTrue` needs the walk of
  `SwapRoute`, a recursive function: the holder after as many steps as there are transfers is
  where the output rests (by induction over numbers, from the least missing one: no holder is visited twice).
  `ListingsInductive` is the invariant `ListsInv`, whose part `ListingsGoOn` says of a listing
  under way that what it began with and has not seen lies beyond the rank it has come to and behind
  all it has seen.  Ranks only grow when the explorer indexes another row, so this survives
  rows that appear between two pages.  From it `ListingsHonest`, and `IdentitiesAlwaysStable`, for
  which the occurrences of a key are numbered by place.
  Of the scenes they assume what the explorer and the database guarantee
  (`ScenesAssumption`): finitely many rows, no two in one place, transfers to addresses,
  documents under a unique index.

* `ReadsProofs`, about what is served of the documents while synchronisations write them,
  for any number of readers and synchronisations, any page size and any rows. `PagesHonest`
  and `ProfileHonest` are no invariants by themselves: a page is right because of the
  coverage it was read under and of the cursor it began at. `ReadsInv` (theorem
  `ReadsInductive`, on top of `IInv` and `ListsInv`) says, part by part: documents stand for
  rows (`StoredOK`), so that keys and numbers tell them apart and an upsert of an
  undisturbed listing only adds; a synchronisation asks once and writes what it got
  (`ListersOK`); the explorer is late only outside what anything answers for, as long as
  nobody lists (`LateElsewhere`); what is covered is stored, and a whole listing's
  documents, stored or yet to be written, are all that the rows stand for (`Loaded`); the
  cursor stands at or behind all that was served (`CursorsOK`); and the two counts of a
  profile, each of its own moment, are at least those of the documents owed (`CountsOK`, by
  cardinalities of finite sets). A page is the first `PageLimit` of a finite total order
  (`FirstAre`), from which it follows that nothing between two cursors is passed over. Of
  the scenes the proof assumes `StoredAssumption`: what is stored before the run was stored
  from rows that are still the explorer's, coverage and profiles were earned, and a row that
  is indexed late does not lie where they claim already. The last is the limit of what the
  code can promise, as a covered range is not listed again (see *ExplorerClient*). Of the
  constants it assumes `ReadsAssumption`: limits of at least
  one (`graph.go` and `store.go` refuse others), counterparties in an order.
  `HeapAlwaysTop`: the sums are numbers (`AmountsAdd`, by induction over the number of documents), so
  `Better` is a total order of summaries, and the heap after each counterparty of the cursor is the
  best of those so far (`FlushKeepsTop`: a full heap's root is outranked by exactly `TopN - 1`, and one more
  summary either is behind it or moves it, and it alone, out).

Model-checked only: the violations, and liveness (the prover has no fairness and no
`ENABLED`). What a recursive definition computes for every input is induction over data, of which
as much is proved here as reduces to an induction over numbers: for the accounts, what
the properties need of sums, sort, payments and merges, not that they equal the code's.

## Not modelled

* Decoding and encoding of calldata, logs, memos and cursors, rendering,
  configuration: conversions without state.  What a transaction decodes to is part of its record.
* MongoDB pipelines and indexes: evaluated by the server.  `TopRelationshipTransfers`
  is the heap of `TopCounterparties` over single transfers; label queries and `TopNeighbors`
  return what is stored.
* The THORChain and Maya verifiers compare a remote answer with stored evidence without
  state of their own; a traversal sees one of their three outcomes.
* Risk scores and profile scores: arithmetic on a finished result.
* HTTP handlers: they parse, call one operation of the modules above and render; the
  rate limit per client is middleware in front of them.
* Retention of jobs, clocks: creation order is all that is read of them, and a cache
  entry is either young enough or not.
* The web console.

## Plan

Done: the synchroniser in both modes (`AscendingSync`, `RecentSync`), its goroutines
(`SyncJobs`), the service they implement (`SyncService`), the trace manager on top
of it (`TraceJobs`), the traversal and its accounts (`TraceGraph`, `Ledger`), the
explorer's client and what rests on its answers (`ExplorerClient`,
`TransactionAnalysis`, `SwapRoute`, `Reads`, `Ingest`).

Proved: every safety property and every action property that a passing run checks.

Left: liveness stays with TLC.  Extensions of the model would be the Bitcoin side of a trace past its
endpoint, and several chains in one trace.
