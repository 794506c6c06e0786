----------------------------- MODULE TraceGraph -----------------------------
(***************************************************************************)
(* The traversal behind a trace job (tracer/tracer.go traceSameChain), the *)
(* way the manager feeds it the data it misses (tracer/manager.go), and    *)
(* one-hop extensions of its result (tracer/extension.go).                 *)
(*                                                                         *)
(* A fact is [tx, from, to, asset, amount, block].  Blocks are 1..Through. *)
(* Amount None on a branch: no amount limits it (the seed, the output of a *)
(* conversion).  Other clients of the synchroniser work on the same        *)
(* addresses meanwhile; the coverage arithmetic is that of Coverage.       *)
(***************************************************************************)
EXTENDS Integers, Sequences, FiniteSets, Ledger
Cov == INSTANCE Coverage

CONSTANTS
    Addresses, Seed, Zero,  \* Zero: the zero address, where burns go and mints come from
    Directions,         \* what the query asks for: a subset of {"in", "out"}
    Worlds,             \* the possible <<facts, kinds>> of the chain
    Swaps,              \* the possible outputs of a conversion
    WithInput,          \* the transactions that carry calldata
    Threshold,          \* supported asset -> smallest amount that is traced
    Through,            \* the block the seed is covered to
    MaxNodes,           \* maxTraceNodes
    RecordCap,          \* traceTransferRecordCap
    ClientWindows,      \* block ranges other clients ask for
    MaxSyncs,           \* bound on the syncs of other clients
    MaxExtensions       \* bound on the extensions

None == -1

\* A transfer ("all" is no asset), and the kinds of address.
Assets == STRING \ {"all"}
Fact  == [tx : Nat, from : Addresses, to : Addresses, asset : Assets, amount : Nat, block : 1 .. Through]
Kinds == {"eoa", "contract", "wallet", "bridge", "vault", "router", "busy"}
\* What a conversion yields: the transfer of amount between the contract and peer; how
\* it was found (a swap, or a THORChain transfer out, or between two vaults); and the
\* output leg that its evidence names, if it names an executor.
Legs  == [from : Addresses, to : Addresses, asset : Assets, amount : Nat]
Output == [via : {"swap", "outbound", "migration"}, peer : Addresses, asset : Assets, amount : Nat,
           leg : SUBSET Legs]

ASSUME ConstantsAssumption ==
    /\ {Seed, Zero} \subseteq Addresses /\ Seed # Zero /\ Directions \subseteq {"in", "out"}
    /\ MaxNodes \in Nat \ {0} /\ RecordCap \in Nat \ {0} /\ Through \in Nat \ {0}
    /\ \A asset \in DOMAIN Threshold : Threshold[asset] \in Nat \ {0}
    /\ Swaps \subseteq Output /\ WithInput \subseteq Nat
    /\ ClientWindows \subseteq Nat \X Nat

\* A transaction is in one block.
ASSUME WorldsAssumption ==
    \A w \in Worlds :
        /\ w = <<w[1], w[2]>> /\ w[2] \in [Addresses -> Kinds]
        /\ w[1] \subseteq Fact /\ IsFiniteSet(w[1])
        /\ \A f, g \in w[1] : f.tx = g.tx => f.block = g.block

VARIABLES
    facts, kind,        \* the chain: its transfers, and what each address is
    status, windows,    \* address documents: syncStatus, and the covered range
    stored, wanted,     \* stored transfers; the range of the running sync, per address
    syncs,              \* syncs other clients have asked for
    pc,                 \* where the trace is
    attempted, given,   \* dependencies asked for once; addresses given up as missing_data
    dep,                \* the address the trace waits for
    verdict,            \* what the analysis of a transaction says, once asked for
    nodes, btc,         \* the Ethereum nodes [terminal, why] and the Bitcoin recipients
    edges, branches,    \* result.Edges and result.branchStates
    data,               \* result.DataStatus
    frontier, next,     \* indices into branches
    processed, expanded,
    cur, todo, budget,  \* the branch being expanded, its candidates, what it may still spend
    money,              \* result.MoneyStates
    extensions          \* extensions merged

world   == <<facts, kind>>
store   == <<status, windows, stored, wanted, syncs>>
manager == <<attempted, given, dep>>
result  == <<nodes, btc, edges, branches, data>>
round   == <<frontier, next, processed, expanded>>
walk    == <<cur, todo, budget>>
vars    == <<world, store, pc, manager, verdict, result, round, walk, money, extensions>>

-----------------------------------------------------------------------------
(* Address documents and the synchroniser.                                 *)

\* Mutant of Covered: any finished sync will do.
CoveredByAny(a, range) == status[a] = "synced"

\* addressCovered: only a document whose sync is not running or failed counts.
Covered(a, range) == status[a] = "synced" /\ Cov!Contains(windows[a], range)

High(a) == status[a] = "high"

\* isContract, isKnownWalletTerminal, isCrossChainBridge, isTHORChainVault.
Contract(a) == kind[a] \in {"contract", "bridge", "vault", "router"}
Converts(b) == Contract(b.addr) /\ kind[b.addr] # "vault" /\ b.tx # None

Ask(a, range) ==
    /\ status' = [status EXCEPT ![a] = "running"]
    /\ wanted' = [wanted EXCEPT ![a] = range]

\* Another client asks for a range of an address no job works on.
ClientSync(a) ==
    /\ syncs < MaxSyncs /\ wanted[a] = Cov!NoCoverage /\ ~High(a)
    /\ \E range \in ClientWindows : Ask(a, range)
    /\ syncs' = syncs + 1
    /\ UNCHANGED <<world, windows, stored, pc, manager, verdict, result, round, walk, money, extensions>>

\* A job ends: with the range stored and merged, failed, or cut as high-frequency.
\* The trace that polls it starts again from nothing, or fails with it.
SyncEnds(a) ==
    /\ wanted[a] # Cov!NoCoverage
    /\ wanted' = [wanted EXCEPT ![a] = Cov!NoCoverage]
    /\ \/ /\ status' = [status EXCEPT ![a] = "synced"]
          /\ windows' = [windows EXCEPT ![a] = Cov!Merge(wanted[a], @)]
          /\ stored' = stored \cup {f \in facts : a \in {f.from, f.to}
                                       /\ f.block \in wanted[a][1] .. wanted[a][2]}
       \/ /\ status' = [status EXCEPT ![a] = "failed"]
          /\ UNCHANGED <<windows, stored>>
       \/ /\ kind[a] = "busy" /\ status' = [status EXCEPT ![a] = "high"]
          /\ UNCHANGED <<windows, stored>>
    /\ pc' = IF pc # "wait" \/ dep # a THEN pc ELSE IF status'[a] = "failed" THEN "failed" ELSE "start"
    /\ UNCHANGED <<world, syncs, manager, verdict, result, round, walk, money, extensions>>

-----------------------------------------------------------------------------
(* Branches and their candidates.                                          *)

Branch(a, d, asset, block, tx, amount, path) ==
    [addr |-> a, dir |-> d, asset |-> asset, block |-> block, tx |-> tx,
     amount |-> amount, path |-> path]

\* branchStateKey
Key(b) == <<b.addr, b.dir, b.asset, b.block, b.tx>>
Visited == {Key(branches[i]) : i \in DOMAIN branches}

Peer(f, d) == IF d = "out" THEN f.to ELSE f.from

\* Mutant of Query: the anchor block is not passed on.
QueryAnyBlock(a, d, asset, block) ==
    {f \in stored : (a = IF d = "out" THEN f.from ELSE f.to) /\ asset \in {"all", f.asset}}

\* QueryTransfers as the traversal calls it, nearest to the anchor block first.
Query(a, d, asset, block) ==
    {f \in stored : /\ a = IF d = "out" THEN f.from ELSE f.to
                    /\ asset \in {"all", f.asset}
                    /\ IF d = "out" THEN f.block >= block ELSE block = 0 \/ f.block <= block}
Precedes(f, g, d) == IF f.block = g.block THEN f.tx > g.tx
                     ELSE IF d = "out" THEN f.block < g.block ELSE f.block > g.block
\* The facts of S in that order (several sequences if it leaves some equal).
NearestFirst(S, d) ==
    {s \in [1 .. Cardinality(S) -> S] :
         \A i, j \in DOMAIN s : i < j => s[i] # s[j] /\ ~Precedes(s[j], s[i], d)}

\* supportedSummaryAsset and aboveTraceThreshold
Supported(f)       == f.asset \in DOMAIN Threshold
Enough(f, amount)  == amount >= Threshold[f.asset]

SetTerminal(ns, A, why) ==
    [a \in DOMAIN ns |-> IF a \in A THEN [terminal |-> TRUE, why |-> why] ELSE ns[a]]

B     == branches[cur]
F     == Head(todo)
Other == Peer(F, B.dir)
\* What the branch may attribute to the candidate, and what that leaves.
Paid  == IF budget = None \/ F.amount < budget THEN F.amount ELSE budget
\* Mutants of Rest: every candidate gets the whole budget; a candidate takes all it has.
RestWhole == budget
RestUncapped == IF budget = None THEN None ELSE budget - F.amount
Rest  == IF budget = None THEN None ELSE budget - Paid

SeedBranches ==
    LET one(d) == IF d \in Directions THEN <<Branch(Seed, d, "all", 0, None, None, <<Seed>>)>> ELSE <<>>
    IN  one("in") \o one("out")
SeedStop == IF High(Seed) THEN "high_frequency" ELSE IF Seed \in given THEN "missing_data"
            ELSE IF kind[Seed] = "wallet" THEN "terminal"
            ELSE IF kind[Seed] = "bridge" THEN "cross_chain_bridge" ELSE ""

\* What an analysis says: [is: what it found, out: the output of a swap].
Plain(what) == [is |-> what, out |-> {}]
Verdicts == {Plain("ambiguous"), Plain("inbound")} \cup {[is |-> "swap", out |-> {w}] : w \in Swaps}

\* The manager has synced the seed up to Through before it traces.
Init ==
    /\ \E w \in Worlds : facts = w[1] /\ kind = w[2]
    /\ status = [a \in Addresses |-> IF a = Seed THEN "synced" ELSE "none"]
    /\ windows = [a \in Addresses |-> IF a = Seed THEN <<1, Through>> ELSE Cov!NoCoverage]
    /\ wanted = [a \in Addresses |-> Cov!NoCoverage] /\ syncs = 0
    /\ stored = {f \in facts : Seed \in {f.from, f.to}}
    /\ attempted = {} /\ given = {} /\ dep = Seed
    /\ verdict = [tx \in {f.tx : f \in facts} |-> Plain("unknown")]
    /\ money = <<>> /\ extensions = 0
    /\ branches = <<>> /\ frontier = {} /\ nodes = [a \in {} |-> a]
    /\ btc = {} /\ edges = <<>> /\ data = "synced"
    /\ next = {} /\ processed = {} /\ expanded = {}
    /\ cur = 0 /\ todo = <<>> /\ budget = None /\ pc = "start"

-----------------------------------------------------------------------------
(* One round: every branch of the frontier is dropped, converted or        *)
(* queried; the code takes them in the order of their keys, here any.      *)

Takes(i) == pc = "round" /\ i \in frontier /\ frontier' = frontier \ {i}

\* A branch whose node has become terminal since it was queued is dropped.
Drop(i) ==
    /\ Takes(i) /\ nodes[branches[i].addr].terminal
    /\ UNCHANGED <<world, store, pc, manager, verdict, result, next, processed, expanded, walk, money, extensions>>

Walk(i, candidates, amount) ==
    /\ cur' = i /\ todo' = candidates /\ budget' = amount /\ pc' = "walk"
    /\ processed' = processed \cup {branches[i].addr}
    /\ UNCHANGED <<world, store, manager, verdict, next, expanded, money, extensions>>

\* A contract that ends the branch: nothing to convert, or the swap's legs are there.
StopAt(i, why) ==
    /\ nodes' = SetTerminal(nodes, why[1], why[2])
    /\ processed' = processed \cup {branches[i].addr}
    /\ UNCHANGED <<world, store, pc, manager, verdict, btc, edges, branches, next, expanded, walk, money, extensions>>

TakeQuery(i) ==
    LET b == branches[i]
        found == Query(b.addr, b.dir, b.asset, b.block)
    IN  /\ Takes(i) /\ ~nodes[b.addr].terminal /\ ~Converts(b)
        /\ \/ /\ Cardinality(found) < RecordCap
              /\ \E order \in NearestFirst(found, b.dir) : Walk(i, order, b.amount)
              /\ UNCHANGED result
           \/ /\ Cardinality(found) >= RecordCap
              /\ StopAt(i, <<{b.addr}, "high_frequency">>) /\ data' = "partial"

\* What the analysis of a transaction says is converted.
Swapped(tx) == CHOOSE w \in verdict[tx].out : TRUE
\* conversionTransfer: the single semantic transfer of a conversion, at the entering block.
Semantic(b, w) ==
    [tx |-> b.tx, asset |-> w.asset, amount |-> w.amount, block |-> b.block,
     from |-> IF b.dir = "out" THEN b.addr ELSE w.peer,
     to   |-> IF b.dir = "out" THEN w.peer ELSE b.addr]

\* thorchainProtocolTransfer: a THORChain transfer sends on what entered the branch,
\* all of it, and is traced back only between vaults.
Applies(b, w) ==
    \/ w.via = "swap"
    \/ /\ b.dir = "in" => w.via = "migration"
       /\ b.asset = w.asset
       /\ \E g \in facts \cup {Semantic(b, w)} :
              g.tx = b.tx /\ g.asset = w.asset /\ g.amount = w.amount /\ Peer(g, b.dir) = b.addr

\* mergeExistingSwapLegs: the semantic transfer has an edge, and the output leg has one.
Known(transfer, tx) ==
    \E j \in DOMAIN edges : edges[j].tx = tx /\ [x \in DOMAIN transfer |-> edges[j][x]] = transfer
LegsKnown(b, w) == Known(Semantic(b, w), b.tx) /\ \E leg \in w.leg : Known(leg, b.tx)

TakeConversion(i) ==
    LET b == branches[i]
        w == Swapped(b.tx)
    IN
    /\ Takes(i) /\ ~nodes[b.addr].terminal /\ Converts(b) /\ verdict[b.tx].is # "unknown"
    /\ UNCHANGED data
    /\ IF verdict[b.tx].is # "swap" \/ ~Applies(b, w)
       THEN StopAt(i, <<{b.addr}, "ambiguous_conversion">>)
       ELSE IF LegsKnown(b, w)
       THEN StopAt(i, <<{}, "">>)
       ELSE Walk(i, <<Semantic(b, w)>>, None) /\ UNCHANGED <<nodes, btc, edges, branches>>

-----------------------------------------------------------------------------
(* expand: one candidate after the other.                                  *)

CandidateKey == Key(Branch(Other, B.dir, F.asset, F.block, F.tx, None, <<>>))
\* Mutant of Ignored: a state that was reached before is followed again.
IgnoredUnvisited == ~Supported(F) \/ ~Enough(F, F.amount) \/ budget = 0
Ignored == \/ ~Supported(F) \/ ~Enough(F, F.amount)
           \/ CandidateKey \in Visited \/ budget = 0
Considered == pc = "walk" /\ todo # <<>> /\ ~Ignored
Kept == Considered /\ Enough(F, Paid)
Full == Cardinality(DOMAIN nodes) >= MaxNodes

Path == Append(B.path, Other)
Edge == [tx |-> F.tx, from |-> F.from, to |-> F.to, asset |-> F.asset, amount |-> Paid,
         block |-> F.block, dir |-> B.dir, parent |-> cur, path |-> Path]

Consumed == todo' = Tail(todo) /\ budget' = Rest /\ UNCHANGED cur

Skip ==
    /\ pc = "walk" /\ todo # <<>> /\ Ignored
    /\ todo' = Tail(todo)
    /\ UNCHANGED <<world, store, pc, manager, verdict, result, round, cur, budget, money, extensions>>

\* A remainder under the threshold is spent without an edge.
Dust ==
    /\ Considered /\ ~Enough(F, Paid) /\ Consumed
    /\ UNCHANGED <<world, store, pc, manager, verdict, result, round, money, extensions>>

NodeLimit ==
    /\ Kept /\ Full /\ Other \notin DOMAIN nodes /\ Consumed
    /\ data' = "partial" /\ nodes' = SetTerminal(nodes, {B.addr}, "node_limit")
    /\ UNCHANGED <<world, store, pc, manager, verdict, btc, edges, branches, round, money, extensions>>

Followed == Kept /\ (Full => Other \in DOMAIN nodes)

\* A payment that may be a cross-chain inbound: it carries calldata, or goes to an
\* address known for taking them.
Endpoint == /\ B.dir = "out" /\ F.asset = "eth"
            /\ F.tx \in WithInput \/ kind[Other] \in {"bridge", "router", "vault"}
EndsAt(e, a) == e.to = a /\ e.path[Len(e.path)] = a
\* Analyzer.Analyze, asked for a contract to convert, a possible inbound, or an extension
\* of a router.
Asked ==
    IF pc = "walk" THEN IF Followed /\ Other # Zero /\ Endpoint THEN {F.tx} ELSE {}
    ELSE IF pc = "round" THEN {branches[i].tx : i \in {i \in frontier :
                   Converts(branches[i]) /\ ~nodes[branches[i].addr].terminal}}
    ELSE IF pc = "done" /\ extensions < MaxExtensions
    THEN {edges[j].tx : j \in {j \in DOMAIN edges : EndsAt(edges[j], edges[j].to) /\ kind[edges[j].to] = "router"}}
    ELSE {}
Analyse(tx) ==
    /\ verdict[tx].is = "unknown"
    /\ \E v \in Verdicts : verdict' = [verdict EXCEPT ![tx] = v]
    /\ UNCHANGED <<world, store, pc, manager, result, round, walk, money, extensions>>
\* The analysis fails, and the trace with it (a failed extension leaves its root alone).
AnalysisFails ==
    /\ pc # "done" /\ pc' = "failed"
    /\ UNCHANGED <<world, store, manager, verdict, result, round, walk, money, extensions>>

Burn ==
    /\ Followed /\ Other = Zero /\ Consumed
    /\ edges' = Append(edges, Edge) /\ expanded' = expanded \cup {B.addr}
    /\ nodes' = [a \in DOMAIN nodes \cup {Zero} |->
                     IF a \in DOMAIN nodes THEN nodes[a] ELSE [terminal |-> TRUE, why |-> ""]]
    /\ UNCHANGED <<world, store, pc, manager, verdict, btc, branches, data, frontier, next, processed, money, extensions>>

Required == IF B.dir = "out" THEN <<F.block, Through>> ELSE <<1, F.block>>
Available(crossed) ==
    crossed \/ Contract(Other) \/ High(Other) \/ kind[Other] = "wallet" \/ Other \in given
            \/ Covered(Other, Required)

\* appendVerifiedCrossChainEndpoint: what the verifiers say of an inbound.
Outcomes == IF ~Endpoint THEN {"unseen"}
            ELSE IF verdict[F.tx].is = "unknown" THEN {}
            ELSE IF verdict[F.tx].is = "inbound" THEN {"resolved", "unavailable", "unseen"} ELSE {"unseen"}

StopReason(crossed) ==
    IF crossed THEN "cross_chain_bridge"
    ELSE IF High(Other) /\ ~Contract(Other) THEN "high_frequency"
    ELSE IF Other \in given THEN "missing_data"
    ELSE IF kind[Other] = "wallet" THEN "terminal"
    ELSE IF kind[Other] = "bridge" THEN "cross_chain_bridge" ELSE ""

Follow(outcome) ==
    LET crossed == outcome = "resolved"
        why     == StopReason(crossed)
        marked  == IF crossed THEN SetTerminal(nodes, {Other}, why) ELSE nodes
    IN  /\ Followed /\ Other # Zero /\ outcome \in Outcomes /\ Available(crossed) /\ Consumed
        /\ edges' = Append(edges, Edge) /\ expanded' = expanded \cup {B.addr}
        /\ btc' = IF crossed THEN btc \cup {<<Other, F.tx>>} ELSE btc
        /\ data' = IF outcome = "unavailable" \/ High(Other) \/ (~Full /\ Other \in given)
                   THEN "partial" ELSE data
        /\ \/ \* The limit was reached before: the branch is dropped here.
              Full /\ nodes' = marked /\ UNCHANGED <<branches, next>>
           \/ /\ ~Full
              /\ branches' = Append(branches, Branch(Other, B.dir, F.asset, F.block, F.tx, Paid, Path))
              /\ next' = IF why = "" THEN next \cup {Len(branches) + 1} ELSE next
              /\ nodes' = [a \in DOMAIN nodes \cup {Other} |->
                     IF a \in DOMAIN nodes THEN marked[a] ELSE [terminal |-> why # "", why |-> why]]
        /\ UNCHANGED <<world, store, pc, manager, verdict, frontier, processed, money, extensions>>

\* Mutant of Depend: the manager does not remember what it asked for.
DependForgetful(a, request, range) ==
    /\ pc' = "wait" /\ dep' = a /\ UNCHANGED <<attempted, given>>
    /\ IF wanted[a] = Cov!NoCoverage
       THEN Ask(a, range) /\ UNCHANGED <<windows, stored, syncs>> ELSE UNCHANGED store

\* A dependency that is not there ends the traversal.  The manager asks for it
\* once, and gives the address up when the same request misses again.
Depend(a, request, range) ==
    \/ /\ request \in attempted
       /\ given' = given \cup {a} /\ pc' = "start" /\ UNCHANGED <<store, attempted, dep>>
    \/ /\ request \notin attempted
       /\ attempted' = attempted \cup {request} /\ dep' = a /\ UNCHANGED given
       /\ \/ \* Enqueue joins the job that works on the address, whatever its range.
             wanted[a] # Cov!NoCoverage /\ pc' = "wait" /\ UNCHANGED store
          \/ \* The job finds the document fresh, and fetches nothing.
             /\ wanted[a] = Cov!NoCoverage /\ status[a] = "synced" /\ windows[a][1] <= range[1]
             /\ pc' = "start" /\ UNCHANGED store
          \/ /\ wanted[a] = Cov!NoCoverage /\ Ask(a, range)
             /\ pc' = "wait" /\ UNCHANGED <<windows, stored, syncs>>

Miss ==
    /\ Followed /\ Other # Zero /\ "unseen" \in Outcomes /\ ~Available(FALSE)
    /\ Depend(Other, <<Other, B.dir, F.block>>, Required)
    /\ UNCHANGED <<world, verdict, result, round, walk, money, extensions>>

\* traceSameChain up to its loop.  A seed whose document is not "synced" at this
\* moment misses like any dependency, even when it has been given up.
SeedReady == High(Seed) \/ Covered(Seed, <<1, Through>>)
MissSeed ==
    /\ pc = "start" /\ ~SeedReady /\ Depend(Seed, <<Seed, "", 0>>, <<1, Through>>)
    /\ UNCHANGED <<world, verdict, result, round, walk, money, extensions>>
Start ==
    /\ pc = "start" /\ SeedReady /\ pc' = "round"
    /\ branches' = SeedBranches /\ frontier' = DOMAIN SeedBranches
    /\ nodes' = [a \in {Seed} |-> [terminal |-> SeedStop # "", why |-> SeedStop]]
    /\ data' = IF High(Seed) \/ Seed \in given THEN "partial" ELSE "synced"
    /\ btc' = {} /\ edges' = <<>> /\ next' = {} /\ processed' = {} /\ expanded' = {}
    /\ cur' = 0 /\ todo' = <<>> /\ budget' = None
    /\ UNCHANGED <<world, store, manager, verdict, money, extensions>>

Expanded ==
    /\ pc = "walk" /\ todo = <<>> /\ pc' = "round"
    /\ UNCHANGED <<world, store, manager, verdict, result, round, walk, money, extensions>>

\* A processed address that this round found nothing for is marked as such.
EndRound ==
    LET idle == {a \in processed \ expanded : ~nodes[a].terminal}
        marked == SetTerminal(nodes, idle, "no_matching_transfers")
    IN  /\ pc = "round" /\ frontier = {}
        /\ frontier' = next /\ next' = {} /\ processed' = {} /\ expanded' = {}
        /\ IF next # {} /\ Full
           THEN /\ pc' = "end" /\ data' = "partial"
                /\ nodes' = SetTerminal(marked, {branches[i].addr : i \in next}, "node_limit")
           ELSE /\ pc' = IF next = {} THEN "end" ELSE "round"
                /\ nodes' = marked /\ UNCHANGED data
        /\ UNCHANGED <<world, store, manager, verdict, btc, edges, branches, walk, money, extensions>>

-----------------------------------------------------------------------------
(* The accounts of the result, and extensions.                             *)

Finish ==
    /\ pc = "end" /\ pc' = "done" /\ money' = Consume(MoneyOf(edges))
    /\ UNCHANGED <<world, store, manager, verdict, result, round, walk, extensions>>

\* extensionAnchors: the edges that end at the node, as one anchor per asset.
Entering(a, d, asset) ==
    {i \in DOMAIN edges : /\ edges[i].asset = asset /\ edges[i].path[Len(edges[i].path)] = a
                          /\ a = IF d = "out" THEN edges[i].to ELSE edges[i].from}
Anchored(a, d) == {asset \in {edges[i].asset : i \in DOMAIN edges} : Entering(a, d, asset) # {}}
AnchorBlock(a, d, asset) ==
    LET blocks == {edges[i].block : i \in Entering(a, d, asset)}
    IN  CHOOSE n \in blocks : \A k \in blocks : IF d = "out" THEN n <= k ELSE n >= k
AnchorPath(a, d, asset) ==
    LET I == Entering(a, d, asset) IN
    edges[CHOOSE i \in I : \A j \in I : \/ Len(edges[i].path) < Len(edges[j].path)
                                        \/ Len(edges[i].path) = Len(edges[j].path) /\ i <= j].path

Capped(a, d, asset) == Cardinality(Query(a, d, asset, AnchorBlock(a, d, asset))) >= RecordCap
Open(a, d) == {asset \in Anchored(a, d) : ~Capped(a, d, asset)}

\* The facts the anchors pay for, and what each is paid: an anchor's summed amount
\* is spent on its nearest facts.  (The code takes one anchor after the other; how the
\* facts of two assets interleave matters to nothing.)
Payable(a, d) ==
    UNION {{f \in Query(a, d, asset, AnchorBlock(a, d, asset)) : Supported(f) /\ Enough(f, f.amount)} :
               asset \in Open(a, d)}
Arrived(a, d, asset) ==
    Sum([i \in DOMAIN edges |-> IF i \in Entering(a, d, asset) THEN edges[i].amount ELSE 0])
Payment(order, i, a, d) ==
    LET f     == order[i]
        spent == Sum([j \in 1 .. (i - 1) |-> IF order[j].asset = f.asset THEN order[j].amount ELSE 0])
    IN  Cov!Lesser(f.amount, Cov!Greater(Arrived(a, d, f.asset) - spent, 0))
Hop(f, amount, a, d) ==
    [tx |-> f.tx, from |-> f.from, to |-> f.to, asset |-> f.asset, amount |-> amount, block |-> f.block,
     dir |-> d, parent |-> 0, path |-> Append(AnchorPath(a, d, f.asset), Peer(f, d))]

\* The elements of s at the positions in I, in their order (a set of one sequence).
Keeping(s, I) ==
    {[k \in DOMAIN p |-> s[p[k]]] :
         p \in {q \in [1 .. Cardinality(I) -> I] : \A j, k \in DOMAIN q : j < k => q[j] < q[k]}}

\* MergeResults keeps an edge that differs from those it has in any part.
SameEdge(e, g) == [e EXCEPT !.parent = 0, !.dir = ""] = [g EXCEPT !.parent = 0, !.dir = ""]
Fresh(hops) ==
    {k \in DOMAIN hops : /\ \A i \in DOMAIN edges : ~SameEdge(edges[i], hops[k])
                         /\ \A j \in 1 .. (k - 1) : ~SameEdge(hops[j], hops[k])}

MergeResults(hops) ==
    /\ \E fresh \in Keeping(hops, Fresh(hops)) : edges' = edges \o fresh
    /\ money' = Consume(AppendUnique(money, MoneyOf(hops)))

\* One hop on from a.  A peer whose data is missing has been asked for and given up by
\* then; the zero address is a peer like any other here.
ExtendOneHop(a, d) ==
    \E order \in NearestFirst(Payable(a, d), d) :
    LET paid == [i \in DOMAIN order |-> Payment(order, i, a, d)]
        all  == [i \in DOMAIN order |-> Hop(order[i], paid[i], a, d)]
    IN  \E hops \in Keeping(all, {i \in DOMAIN order : paid[i] > 0 /\ Enough(order[i], paid[i])}) :
        LET peers == {Peer(hops[i], d) : i \in DOMAIN hops}
            missing(p) == \E i \in DOMAIN hops : /\ Peer(hops[i], d) = p /\ kind[p] # "wallet" /\ ~High(p)
                /\ ~Covered(p, IF d = "out" THEN <<hops[i].block, Through>> ELSE <<1, hops[i].block>>)
            why(p) == IF kind[p] = "wallet" THEN "terminal" ELSE IF missing(p) THEN "missing_data" ELSE ""
            stops(p) == why(p) # "" \/ High(p)
            whole == Open(a, d) = Anchored(a, d)
            own   == IF ~whole THEN SetTerminal(nodes, {a}, "high_frequency")
                     ELSE IF hops = <<>> THEN SetTerminal(nodes, {a}, "no_matching_transfers") ELSE nodes
        IN  /\ nodes' = [p \in DOMAIN nodes \cup peers |->
                   IF p \in peers /\ stops(p) THEN [terminal |-> TRUE, why |-> why(p)]
                   ELSE IF p \in DOMAIN nodes THEN own[p] ELSE [terminal |-> FALSE, why |-> ""]]
            /\ data' = IF ~whole \/ \E p \in peers : missing(p) THEN "partial" ELSE data
            /\ MergeResults(hops)

\* extendTHORChainRouter: what the router sent on of each payment that ends at it,
\* whole and to an address that is not on the payment's path.
SentOn(e) ==
    LET w == Swapped(e.tx) IN
    [tx |-> e.tx, from |-> e.to, to |-> w.peer, asset |-> w.asset, amount |-> w.amount, block |-> e.block,
     dir |-> "out", parent |-> 0, path |-> Append(e.path, w.peer)]
Routes(e) ==
    /\ e.tx \in DOMAIN verdict /\ verdict[e.tx].is = "swap"
    /\ LET w == Swapped(e.tx) IN
          /\ w.via # "swap" /\ w.asset = e.asset /\ w.amount = e.amount
          /\ \A k \in DOMAIN e.path : e.path[k] # w.peer
ExtendRouter(a) ==
    LET entering == {i \in DOMAIN edges : EndsAt(edges[i], a)} IN
    /\ \A i \in entering : verdict[edges[i].tx].is # "unknown"
    /\ \E paid \in Keeping(edges, {i \in entering : Routes(edges[i])}) :
        LET hops  == [k \in DOMAIN paid |-> SentOn(paid[k])]
            peers == {hops[k].to : k \in DOMAIN hops}
            own   == IF hops = <<>> THEN SetTerminal(nodes, {a}, "ambiguous_conversion") ELSE nodes
        IN  /\ nodes' = [p \in DOMAIN nodes \cup peers |->
                   IF p \in DOMAIN nodes THEN own[p] ELSE [terminal |-> FALSE, why |-> ""]]
            /\ MergeResults(hops)
    /\ UNCHANGED data

\* ExtendBranch and MergeResults.
Extend(a, d) ==
    /\ pc = "done" /\ extensions < MaxExtensions /\ extensions' = extensions + 1
    /\ a \in DOMAIN nodes /\ ~nodes[a].terminal /\ Anchored(a, d) # {}
    /\ IF kind[a] = "router" /\ d = "out" THEN ExtendRouter(a) ELSE ExtendOneHop(a, d)
    /\ UNCHANGED <<world, store, pc, manager, verdict, btc, branches, round, walk>>

-----------------------------------------------------------------------------
TraceStep ==
    \/ \E i \in frontier : Drop(i) \/ TakeQuery(i) \/ TakeConversion(i)
    \/ \E tx \in Asked : Analyse(tx) \/ AnalysisFails
    \/ Skip \/ Dust \/ NodeLimit \/ Burn
    \/ \E outcome \in {"resolved", "unavailable", "unseen"} : Follow(outcome)
    \/ Miss \/ MissSeed \/ Start \/ Expanded \/ EndRound \/ Finish

Next ==
    \/ TraceStep
    \/ \E a \in Addresses : ClientSync(a) \/ SyncEnds(a)
    \/ \E a \in Addresses, d \in {"in", "out"} : Extend(a, d)

Spec == Init /\ [][Next]_vars
-----------------------------------------------------------------------------
(* Properties.                                                             *)

States == {"none", "running", "synced", "failed", "high"}
Reasons == {"", "terminal", "high_frequency", "missing_data", "cross_chain_bridge", "node_limit",
            "no_matching_transfers", "ambiguous_conversion"}
\* The reasons of a node where something was cut.
Cuts == {"node_limit", "missing_data", "high_frequency"}
Places == {"start", "round", "walk", "wait", "end", "done", "failed"}
Paths  == Seq(Addresses)
Edges  == [tx : Nat, from : Addresses, to : Addresses, asset : Assets, amount : Nat \ {0},
           block : 1 .. Through, dir : {"in", "out"}, parent : Nat, path : Paths]
Branches == [addr : Addresses, dir : {"in", "out"}, asset : Assets \cup {"all"}, block : 0 .. Through,
             tx : Nat \cup {None}, amount : Nat \cup {None}, path : Paths]

\* The shape of a state.
TypeOK ==
    /\ <<facts, kind>> \in Worlds /\ stored \subseteq facts
    /\ status \in [Addresses -> States] /\ {windows, wanted} \subseteq [Addresses -> Nat \X Nat]
    /\ given \subseteq Addresses /\ dep \in Addresses /\ syncs \in Nat /\ extensions \in Nat
    /\ verdict \in [{f.tx : f \in facts} -> Verdicts \cup {Plain("unknown")}]
    /\ pc \in Places /\ data \in {"synced", "partial"}
    /\ nodes \in [DOMAIN nodes -> [terminal : BOOLEAN, why : Reasons]] /\ DOMAIN nodes \subseteq Addresses
    /\ edges \in Seq(Edges) /\ \A j \in DOMAIN edges : edges[j].parent \in DOMAIN branches \cup {0}
    /\ branches \in Seq(Branches) /\ frontier \cup next \subseteq DOMAIN branches
    /\ cur \in DOMAIN branches \cup {0} /\ todo \in Seq(Fact) /\ budget \in Nat \cup {None}

Ends(e) == {e.from, e.to}
SameTransfer(e, g) ==
    e.dir = g.dir /\ e.tx = g.tx /\ e.asset = g.asset /\ e.from = g.from /\ e.to = g.to

\* A result is a graph, partial or not: no edge ends at a node that it does not
\* have, the traversal keeps to its node limit, and until it meets the limit a
\* transfer becomes one edge per direction, however many branches come past it.
\* (Transfers from and to the zero address, and those at the limit, are not recorded
\* as visited, and may repeat.)
GraphClosed ==
    /\ \A j \in DOMAIN edges : Ends(edges[j]) \subseteq DOMAIN nodes
    /\ extensions = 0 =>
        /\ Cardinality(DOMAIN nodes) <= MaxNodes
        /\ ~Full => \A i, j \in DOMAIN edges :
               i # j /\ Zero \notin Ends(edges[i]) => ~SameTransfer(edges[i], edges[j])

SpentBy(i) == Sum([j \in DOMAIN edges |-> IF edges[j].parent = i THEN edges[j].amount ELSE 0])

\* The edges found from a branch of an ordinary address (or a vault) attribute at most
\* the amount that reached it, over all its candidates.  A converting branch is not
\* limited (what comes out is another amount), nor are the hops of extensions, which
\* belong to no branch.
WithinBudget ==
    \A i \in DOMAIN branches :
        branches[i].amount # None /\ ~Converts(branches[i]) => SpentBy(i) <= branches[i].amount

\* Along a path time only runs one way: onwards when tracing out, back when tracing in.
TimeMonotone ==
    \A j \in DOMAIN edges : edges[j].parent # 0 =>
        LET b == branches[edges[j].parent] IN
        IF edges[j].dir = "out" THEN edges[j].block >= b.block ELSE b.block = 0 \/ edges[j].block <= b.block

\* A transfer counts as found when an edge in that direction has its transaction and
\* its asset, and leads to the same address (what branchStateKey tells apart).
Reached(f, d) ==
    \E j \in DOMAIN edges : /\ edges[j].tx = f.tx /\ edges[j].asset = f.asset /\ edges[j].dir = d
                            /\ Peer(edges[j], d) = Peer(f, d)
Exhausted(i) == branches[i].amount # None /\ branches[i].amount - SpentBy(i) < Threshold[branches[i].asset]
\* The transfers onwards from a branch.
Onwards(b) ==
    {f \in facts : /\ b.addr = IF b.dir = "out" THEN f.from ELSE f.to
                   /\ b.asset \in {"all", f.asset} /\ Supported(f) /\ Enough(f, f.amount)
                   /\ IF b.dir = "out" THEN f.block >= b.block ELSE b.block = 0 \/ f.block <= b.block}
Exempt(b) == nodes[b.addr].terminal \/ Contract(b.addr) \/ High(b.addr)

\* A finished traversal has missed nothing of the chain: for a branch of an
\* ordinary address whose node is not a stop, every transfer onwards (up to the
\* block the data goes to) is found, or the branch's money was used up.
\* High is exempt: an address that another client's job marks high-frequency
\* between two branches that reach it keeps the open node the first one made,
\* while the second branch is not followed (the result is "partial").
NothingMissed ==
    pc = "done" => \A i \in DOMAIN branches :
        ~Exempt(branches[i]) => \A f \in Onwards(branches[i]) : Reached(f, branches[i].dir) \/ Exhausted(i)

\* Every edge leads on into a branch of its own (from the zero address nothing does).
LeadsOn(e) ==
    \E i \in DOMAIN branches : Key(branches[i]) = <<Peer(e, e.dir), e.dir, e.asset, e.block, e.tx>>
AllLeadOn == \A j \in DOMAIN edges : Zero \notin Ends(edges[j]) => LeadsOn(edges[j])

\* What a finished traversal has cut it admits, below the node limit: a result that reads
\* synced has no stop where the limit, the record cap, a high-frequency address or missing
\* data cut something; every edge leads on into a branch; and onwards of the branches
\* nothing is missed.  At the limit the second part fails: the code drops a branch to an
\* address that the graph has already, without a mark (tracer.go:476-478), and the result
\* may read synced although what lies onwards of that edge was not looked at.
CutsAdmitted ==
    pc = "done" => /\ NothingMissed
                   /\ data = "synced" => \A a \in DOMAIN nodes : nodes[a].why \notin Cuts
                   /\ extensions = 0 /\ ~Full => AllLeadOn

\* The accounts of a result: no state has given more than it had, or less than nothing;
\* of an unextended one also: what the outgoing states call explained
\* is what the incoming ones have given; no state draws on money that came later;
\* an incoming state is not touched while an earlier one has something left.
\* After extensions have been merged only the first of these holds, and as an upper bound.
LedgerExplains ==
    pc = "done" => \A g \in DOMAIN money :
        LET ins  == Incoming(money, money[g])
            outs == Outgoing(money, money[g])
        IN  /\ money[g].left \in 0 .. money[g].amount
            /\ TotalUsed(money, outs) <= TotalUsed(money, ins)
            /\ extensions = 0 =>
                /\ TotalUsed(money, outs) = TotalUsed(money, ins)
                /\ \A k \in outs :
                      TotalUsed(money, {j \in outs : j <= k}) <= TotalAmount(money, {j \in ins : j < k})
                /\ \A j, k \in ins : j < k /\ money[j].left > 0 => Explained(money[k]) = 0

\* A traversal never stops twice for the same dependency: every stop either asks
\* for something that was never asked for, or gives an address up for good, so the
\* chain of traversals is finite although two directions may ask for ranges of one
\* address that replace each other, and other clients' jobs may take a request's
\* place.  (Only the seed may be missed again and again: MissSeed.)
StopsLearn ==
    [][pc = "walk" /\ pc' \in {"wait", "start"} => attempted' # attempted \/ given' # given]_vars
-----------------------------------------------------------------------------
(* The inductive invariant behind the theorems.                            *)

Live == pc \in {"round", "walk", "end", "done"}
Near(f, d) == IF d = "out" THEN f.from ELSE f.to
InTime(block, b) == IF b.dir = "out" THEN block >= b.block ELSE b.block = 0 \/ block <= b.block
\* The block of a transaction is the one its facts are in.
Dated(tx, block) == (\E f \in facts : f.tx = tx) /\ \A f \in facts : f.tx = tx => f.block = block

\* What an address document claims has been stored; a running sync reads so.
StoreHolds ==
    \A a \in Addresses :
        /\ \A f \in facts : a \in Ends(f) /\ f.block \in Cov!Claimed(windows[a]) => f \in stored
        /\ wanted[a] # Cov!NoCoverage => status[a] = "running"

\* A branch starts at a node, in the block of the transaction it was entered by.
BranchesHold ==
    \A i \in DOMAIN branches :
        /\ branches[i].addr \in DOMAIN nodes
        /\ branches[i].tx # None => Dated(branches[i].tx, branches[i].block) /\ branches[i].block # 0
        /\ branches[i].amount # None => branches[i].asset # "all"

\* Edges continue the branch they were found from, and a branch that is still to be
\* expanded has none.
EdgesHold ==
    \A j \in DOMAIN edges :
        /\ Ends(edges[j]) \subseteq DOMAIN nodes /\ Dated(edges[j].tx, edges[j].block)
        /\ edges[j].parent \notin frontier \cup next
        /\ edges[j].parent # 0 =>
               /\ edges[j].dir = branches[edges[j].parent].dir
               /\ InTime(edges[j].block, branches[edges[j].parent])

\* The branch in expansion has left the frontier, and its candidates continue it.
WalkHolds ==
    /\ frontier \cap next = {}
    /\ pc = "walk" =>
        /\ cur \in DOMAIN branches \ (frontier \cup next)
        /\ \A k \in DOMAIN todo :
               /\ Near(todo[k], B.dir) = B.addr /\ InTime(todo[k].block, B)
               /\ Dated(todo[k].tx, todo[k].block)
               /\ ~Converts(B) => B.asset \in {"all", todo[k].asset}

\* Until the node limit is met an edge has its branch, and so no branch brings it again.
RecordsHold ==
    /\ extensions = 0 => IsFiniteSet(DOMAIN nodes) /\ Cardinality(DOMAIN nodes) <= MaxNodes
    /\ extensions = 0 /\ ~Full =>
           /\ AllLeadOn
           /\ \A i, j \in DOMAIN edges :
                 i # j /\ Zero \notin Ends(edges[i]) => ~SameTransfer(edges[i], edges[j])

\* A branch that was entered by a transfer has an edge that entered it.
EntriesHold ==
    \A i \in DOMAIN branches : branches[i].tx # None => Reached(
        [tx |-> branches[i].tx, asset |-> branches[i].asset, from |-> branches[i].addr, to |-> branches[i].addr],
        branches[i].dir)

\* What has been spent from the branch in expansion, and what that leaves.
Limited(i) == branches[i].amount # None /\ ~Converts(branches[i])
BudgetHolds ==
    /\ WithinBudget
    /\ pc = "walk" => IF Limited(cur) THEN budget # None /\ budget <= B.amount - SpentBy(cur) ELSE budget = None
    /\ pc = "walk" /\ Limited(cur) =>
          \/ budget = B.amount - SpentBy(cur) \/ nodes[B.addr].terminal
          \/ budget = 0 /\ Exhausted(cur)

\* Of an ordinary address that is not a stop all that lies onwards has been stored,
DataHolds == Live => \A i \in DOMAIN branches : Exempt(branches[i]) \/ Onwards(branches[i]) \subseteq stored
\* found by the branches that have been expanded,
ExpandedHolds ==
    Live => \A i \in DOMAIN branches \ (frontier \cup next) :
        \/ Exempt(branches[i])
        \/ \A f \in Onwards(branches[i]) :
               \/ Reached(f, branches[i].dir) \/ Exhausted(i)
               \/ pc = "walk" /\ i = cur /\ \E k \in DOMAIN todo : todo[k] = f
\* and what was given up or is a wallet is a stop; at the end so is what was not expanded.
StopsHold ==
    /\ pc \in {"round", "walk"} =>
          \A a \in DOMAIN nodes \ {Zero} : a \in given \/ kind[a] = "wallet" => nodes[a].terminal
    /\ pc \in {"end", "done"} => \A i \in frontier \cup next : nodes[branches[i].addr].terminal
    /\ data = "synced" => \A a \in DOMAIN nodes : nodes[a].why \notin Cuts

\* A state of an account has used up no more than its amount; beside it the
\* accounts of a result need nothing to be kept.
Shares ==
    {e \in [addr : Addresses, asset : Assets, dir : {"in", "out"}, amount : Nat, left : Nat,
            block : Nat, tx : Nat, path : Paths] : e.left <= e.amount}
MoneyHolds == (pc = "done" => money \in Seq(Shares)) /\ LedgerExplains

\* The earliest state of a result is of a payer whom nothing came in for, and what
\* an extension merges is no earlier: its transactions are dated as the others are.
Opens(s) ==
    \A k \in 1 .. Len(s) : /\ s[1].dir = "out" /\ s[1].left = s[1].amount
                            /\ s[k].amount > 0 /\ s[1].block <= s[k].block
MoneyOpens ==
    pc = "done" => Opens(money) /\ \A k \in DOMAIN money : Dated(money[k].tx, money[k].block)

IInv ==
    /\ TypeOK /\ StoreHolds /\ BranchesHold /\ EdgesHold /\ WalkHolds /\ RecordsHold
    /\ EntriesHold /\ BudgetHolds /\ DataHolds /\ ExpandedHolds /\ StopsHold
=============================================================================
