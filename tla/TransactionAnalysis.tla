------------------------ MODULE TransactionAnalysis ------------------------
(***************************************************************************)
(* transactionanalysis/service.go over the explorer's client, with the     *)
(* relay verifier it asks (relay/verifier.go): Analyze for one transaction *)
(* hash by several callers at once, InspectAddress, and the two caches     *)
(* they share.                                                             *)
(*                                                                         *)
(* tx, the transaction, is a record of the chain's truth:                  *)
(*   to        which contract it enters: "uniswap", "kyber", "thorchain",  *)
(*             "maya", "bittorrent" or "other"                             *)
(*   input     "swap", "deposit", "out" (a THORChain payment), "note" (any *)
(*             other THORChain action), "memo" (an inbound memo as text),  *)
(*             "request" (a relay identifier from its solver), "garbled"   *)
(*   ok        its receipt's status; readable: its fields can be parsed    *)
(*   swaps, transfers, wraps, calls, claim   see SwapRoute                 *)
(*   spoiled   one of its logs cannot be parsed                            *)
(*   locked    the predicate's LockedEther log matches the call            *)
(*   relay     [filled, matches, enough]: the relay service says success,  *)
(*             the origin's call names this payment, its value covers it   *)
(* and factory[p] is "verified" for a pool of the official factory,        *)
(* "foreign" for another pool and "odd" when p does not answer like one.   *)
(***************************************************************************)
EXTENDS ExplorerClient, SwapRoute

CONSTANTS Pools

\* An internal call.
InternalCall == [from : STRING, to : STRING, amount : Nat, failed : BOOLEAN]
Transaction ==
    [stage : Stages, ok : BOOLEAN, readable : BOOLEAN, spoiled : BOOLEAN, locked : BOOLEAN,
     to : {"uniswap", "kyber", "thorchain", "maya", "bittorrent", "other"},
     input : {"swap", "deposit", "out", "note", "memo", "request", "garbled"},
     swaps : Seq([pool : Pools, tokenIn : STRING, tokenOut : STRING, out : Nat]),
     transfers : SUBSET [log : Nat, token : STRING, from : STRING, to : STRING, amount : Nat],
     wraps : SUBSET [account : STRING, amount : Nat, kind : STRING],
     calls : SUBSET InternalCall,
     claim : [token : STRING, to : STRING, amount : Nat],
     relay : [filled : BOOLEAN, matches : BOOLEAN, enough : BOOLEAN]]

VARIABLES
    role,    \* what each caller does, "analyze" and "inspect" among it
    factory,
    subject, \* the address inspected: "listed", "eoa", "contract" or a pool
    saved,   \* the document of transaction_analyses, or NoAnalysis
    pools,   \* pool_metadata: "none", "verified" or "foreign"
    job      \* how far each caller is

world == <<role, factory, subject>>
cache == <<saved, pools>>
analysisVars == <<explorerVars, clientVars, world, cache, job>>

Version == 13
NoAnalysis == [version |-> 0]

Fresh == [step |-> "start", internals |-> "unread", calls |-> {}, known |-> <<>>,
          reads |-> 0, relay |-> "unasked", answer |-> NoAnalysis]

Verified(j) == {i \in DOMAIN j.known : j.known[i] = "verified"}
-----------------------------------------------------------------------------
(* What an analysis says, once its evidence is in *)

\* Mutant of Tolerated: internal calls that could not be read count as none.
ToleratedAny(j) == j.internals # "unread"

\* The internal calls were read, or there are none (so far).
Tolerated(j) == j.internals \in {"found", "empty"}

\* Nothing so far has made the analysis partial.
Clean(j) == tx.ok /\ Tolerated(j) /\ ~tx.spoiled /\ \A i \in DOMAIN j.known : j.known[i] # "unknown"

Rule == IF tx.ok /\ tx.to \in {"bittorrent", "thorchain", "maya"} THEN tx.to
        ELSE IF tx.ok /\ tx.input = "memo" THEN "memo"
        ELSE IF tx.ok /\ tx.input = "request" THEN "relay"
        ELSE IF tx.to = "kyber" THEN "kyber" ELSE "route"

Logs(set) == IF tx.ok THEN set ELSE {}

\* THORChain: a payment that is claimed has to be in the evidence.
Backed(j) ==
    \/ tx.input \in {"deposit", "note"}
    \/ tx.input = "out" /\ Paid(tx.claim, tx.transfers, j.calls)

Recipient(j) ==
    IF tx.ok /\ Tolerated(j) THEN RfqRecipient("user", tx.transfers, tx.wraps, j.calls) ELSE None

Route(j) == FinalOutput(IF tx.ok THEN tx.swaps ELSE <<>>, Verified(j), Logs(tx.transfers))

\* finalizeKyberRFQ sets "complete" whatever the logs were like.
Complete(j) ==
    CASE Rule = "kyber"      -> Recipient(j) # None
      [] Rule = "route"      -> Clean(j) /\ Route(j) # None
      [] Rule = "bittorrent" -> FALSE  \* the other side is never verified
      [] Rule = "thorchain"  -> Clean(j) /\ Backed(j)
      [] Rule = "maya"       -> Clean(j) /\ tx.input = "deposit"
      [] Rule = "memo"       -> Clean(j)
      [] Rule = "relay"      -> Clean(j) /\ j.relay = "verified"

Conclusion(j) ==
    [version   |-> Version,
     rule      |-> Rule,
     complete  |-> Complete(j),
     output    |-> CASE Rule = "kyber" -> Recipient(j) [] Rule = "route" -> Route(j) [] OTHER -> None,
     internals |-> j.internals,
     known     |-> j.known,
     linked    |-> Rule = "relay" /\ j.relay = "verified",
     deposited |-> Rule = "bittorrent" /\ tx.input = "deposit" /\ tx.locked]
-----------------------------------------------------------------------------
(* Analyze *)

Answer(c, a) == job' = [job EXCEPT ![c].step = "end", ![c].answer = a]
Failed(c) == Answer(c, NoAnalysis) /\ UNCHANGED cache
Goes(c, step) == job' = [job EXCEPT ![c].step = step]
\* The caller has its answer and sends no other request.
Rested(c) == call' = [call EXCEPT ![c] = Idle] /\ UNCHANGED queue

Got(c, step) == job[c].step = step /\ call[c].at = "done"
Out(c) == call[c].out

Current == saved.version = Version

Lookup(c) ==
    /\ role[c] = "analyze" /\ job[c].step = "start"
    /\ \/ Failed(c) /\ UNCHANGED clientVars   \* the lookup fails
       \/ Current /\ Answer(c, saved) /\ UNCHANGED <<cache, clientVars>>
       \/ ~Current /\ Goes(c, "tx") /\ Ask(c, "tx", 0) /\ UNCHANGED cache
    /\ UNCHANGED <<explorerVars, world>>

TakeTransaction(c) ==
    /\ Got(c, "tx")
    /\ IF Out(c) = "found" THEN Goes(c, "receipt") /\ Ask(c, "receipt", 0) /\ UNCHANGED cache
       ELSE Failed(c) /\ Rested(c)
    /\ UNCHANGED <<explorerVars, world>>

TakeReceipt(c) ==
    /\ Got(c, "receipt")
    /\ IF Out(c) = "found" THEN Goes(c, "internals") /\ Ask(c, "internals", 0) /\ UNCHANGED cache
       ELSE Failed(c) /\ Rested(c)
    /\ UNCHANGED <<explorerVars, world>>

TakeInternals(c) ==
    /\ Got(c, "internals")
    /\ IF tx.readable
       THEN /\ job' = [job EXCEPT ![c].step = IF tx.ok THEN "logs" ELSE "save",
                                  ![c].internals = Out(c),
                                  ![c].calls = IF Out(c) = "found" THEN tx.calls ELSE {}]
            /\ UNCHANGED cache
       ELSE Failed(c)
    /\ Rested(c) /\ UNCHANGED <<explorerVars, world>>
-----------------------------------------------------------------------------
(* parseLogs and poolMetadata *)

Judged(c, verdict) ==
    job' = [job EXCEPT ![c].known = Append(@, verdict), ![c].step = "logs", ![c].reads = 0]

\* The pool of the next swap, looked up: the database fails, knows it, or not.
LookupPool(c) ==
    LET k == Len(job[c].known) + 1 IN
    /\ job[c].step = "logs" /\ k <= Len(tx.swaps)
    /\ LET p == tx.swaps[k].pool IN
       \/ Judged(c, "unknown") /\ UNCHANGED clientVars
       \/ pools[p] # "none" /\ Judged(c, pools[p]) /\ UNCHANGED clientVars
       \/ pools[p] = "none" /\ Goes(c, "read") /\ Ask(c, "call", 0)
    /\ UNCHANGED <<explorerVars, world, cache>>

\* Mutant of ReadFails: a pool that does not say what it is is not Uniswap's.
ReadFailsForeign(c, p) == pools' = [pools EXCEPT ![p] = "foreign"] /\ Judged(c, "foreign")

ReadFails(c, p) == Judged(c, "unknown") /\ UNCHANGED pools

\* token0, token1, fee and factory, one after the other; only then is the pool saved.
TakeRead(c) ==
    LET p == tx.swaps[Len(job[c].known) + 1].pool IN
    /\ Got(c, "read")
    /\ \/ Out(c) # "found" /\ ReadFails(c, p) /\ Rested(c)
       \/ /\ Out(c) = "found" /\ job[c].reads < 3
          /\ job' = [job EXCEPT ![c].reads = @ + 1] /\ Ask(c, "call", 0) /\ UNCHANGED pools
       \/ /\ Out(c) = "found" /\ job[c].reads = 3
          /\ \/ factory[p] = "odd" /\ Judged(c, "unknown") /\ UNCHANGED pools
             \/ /\ factory[p] # "odd" /\ pools' = [pools EXCEPT ![p] = factory[p]]
                /\ Judged(c, factory[p])
             \/ factory[p] # "odd" /\ Judged(c, "unknown") /\ UNCHANGED pools  \* the save fails
          /\ Rested(c)
    /\ UNCHANGED <<explorerVars, world, saved>>

ParseLogs(c) ==
    /\ job[c].step = "logs" /\ Len(job[c].known) = Len(tx.swaps)
    /\ Goes(c, IF Rule = "relay" THEN "status" ELSE "save")
    /\ UNCHANGED <<explorerVars, clientVars, world, cache>>
-----------------------------------------------------------------------------
(* Verify of the relay: its status, then the origin transaction and receipt; *)
(* they are not read through the explorer and not repeated.                  *)

OriginHolds == tx.relay.matches /\ tx.relay.enough

VerifyRelay(c) ==
    /\ job[c].step \in {"status", "origin"}
    /\ \/ job' = [job EXCEPT ![c].step = "save", ![c].relay = "failed"]
       \/ /\ job[c].step = "status" /\ tx.relay.filled
          /\ Goes(c, "origin")
       \/ /\ job[c].step = "status" /\ ~tx.relay.filled
          /\ job' = [job EXCEPT ![c].step = "save", ![c].relay = "refused"]
       \/ /\ job[c].step = "origin"
          /\ job' = [job EXCEPT ![c].step = "save",
                                ![c].relay = IF OriginHolds THEN "verified" ELSE "refused"]
    /\ UNCHANGED <<explorerVars, clientVars, world, cache>>

\* The relay service fills the request some time after the payment.
RelayFills ==
    /\ tx.input = "request" /\ ~tx.relay.filled
    /\ tx' = [tx EXCEPT !.relay.filled = TRUE]
    /\ UNCHANGED <<order, rows, late, clientVars, world, cache, job>>

\* SaveTransactionAnalysis replaces the document of the hash, whoever wrote it.
Save(c) ==
    /\ job[c].step = "save"
    /\ \/ Failed(c)
       \/ /\ saved' = Conclusion(job[c]) /\ Answer(c, Conclusion(job[c]))
          /\ UNCHANGED pools
    /\ UNCHANGED <<explorerVars, clientVars, world>>
-----------------------------------------------------------------------------
(* InspectAddress *)

Inspect(c) ==
    /\ role[c] = "inspect" /\ job[c].step = "start"
    /\ IF subject = "listed" THEN Goes(c, "end") /\ UNCHANGED clientVars
       ELSE Goes(c, "code") /\ Ask(c, "code", 0)
    /\ UNCHANGED <<explorerVars, world, cache>>

TakeCode(c) ==
    /\ Got(c, "code") /\ Rested(c)
    /\ \/ Out(c) # "found" /\ Failed(c)
       \/ /\ Out(c) = "found"
          /\ \/ Answer(c, [version |-> Version,
                    identity |-> IF subject \in Pools
                                 THEN IF pools[subject] = "verified" THEN "pool" ELSE "contract"
                                 ELSE subject])
             \/ subject \in Pools /\ Answer(c, NoAnalysis)   \* the pool cache fails
          /\ UNCHANGED cache
    /\ UNCHANGED <<explorerVars, world>>
-----------------------------------------------------------------------------
Serve(c) ==
    \/ Lookup(c) \/ TakeTransaction(c) \/ TakeReceipt(c) \/ TakeInternals(c)
    \/ LookupPool(c) \/ TakeRead(c) \/ ParseLogs(c) \/ VerifyRelay(c) \/ Save(c)
    \/ Inspect(c) \/ TakeCode(c)

\* A document that another version of the rules left behind.
Old == [version |-> Version - 1]
-----------------------------------------------------------------------------
(* Properties *)

Steps == {"start", "tx", "receipt", "internals", "logs", "read", "status", "origin",
          "save", "code", "list", "write", "end"}

Rules == {"bittorrent", "thorchain", "maya", "memo", "relay", "kyber", "route"}
Analysis ==
    [version : {Version}, rule : Rules, complete : BOOLEAN, output : STRING \cup {None},
     internals : Results \cup {"unread"}, known : Seq({"unknown", "verified", "foreign"}),
     linked : BOOLEAN, deposited : BOOLEAN]
Inspection == [version : {Version}, identity : STRING \cup {"pool", "contract"}]
Jobs ==
    [step : Steps, internals : Results \cup {"unread"}, calls : SUBSET InternalCall,
     known : Seq({"unknown", "verified", "foreign"}), reads : 0 .. 3,
     relay : {"unasked", "failed", "refused", "verified"},
     answer : {NoAnalysis, Old} \cup Analysis \cup Inspection]

AnalysisTypeOK ==
    /\ tx \in Transaction /\ saved \in {NoAnalysis, Old} \cup Analysis
    /\ job \in [Callers -> Jobs] /\ \A c \in Callers : Len(job[c].known) <= Len(tx.swaps)
    /\ pools \in [Pools -> {"none", "verified", "foreign"}]

\* What analyses say: to their callers, and in the database.
Answers == {job[c].answer : c \in {d \in Callers : role[d] = "analyze"}} \ {NoAnalysis}
Analyses == Answers \cup ({saved} \ {NoAnalysis, Old})

Rests(a) ==
    a.version = Version /\ a.complete =>
        /\ tx.ok /\ a.internals \in {"found", "empty"}
        /\ a.rule # "kyber" => ~tx.spoiled /\ \A i \in DOMAIN a.known : a.known[i] # "unknown"
        /\ a.rule \in {"route", "kyber"} => a.output # None

\* An analysis that calls itself complete rests on complete evidence, whichever
\* step failed on the way: the receipt, an answer to the question for internal
\* calls, every log and every pool.  (An RFQ that was recognised is called complete
\* even when a log could not be read.)  No answer comes from older rules.
CompleteRests == (\A a \in Answers : a.version = Version) /\ \A a \in Analyses : Rests(a)

\* The payment that a claim names was made.
Made(claim, transfers, calls) ==
    \E p \in IF claim.token = "eth" THEN {c \in calls : ~c.failed}
             ELSE {t \in transfers : t.token = claim.token} :
        p.from = Router /\ p.to = claim.to /\ p.amount = claim.amount

\* x got the ether that a provider paid for, and no call failed.
Converted(x, transfers, calls) ==
    /\ \E c \in calls, t \in transfers :
          /\ ~c.failed /\ c.from = Executor /\ c.to = x
          /\ t.token = Weth /\ t.to = Executor /\ t.amount = c.amount
    /\ \A c \in calls : ~c.failed

Joined(swaps)  == \A i \in 1 .. Len(swaps) - 1 : swaps[i].tokenOut = swaps[i + 1].tokenIn
Ends(swaps, transfers, x) == RestsAt(swaps[Len(swaps)], transfers, x)

\* There is a last hop, and the output of every hop rests somewhere.
Clear(swaps, transfers) ==
    /\ swaps # <<>>
    /\ \A i \in DOMAIN swaps :
          /\ Cardinality(PaidOut(swaps[i], transfers)) = 1
          /\ \E x \in {t.to : t \in transfers} : RestsAt(swaps[i], transfers, x)

Claims(a) ==
    a.version = Version =>
        /\ a.complete /\ a.rule = "thorchain" /\ tx.input = "out" => Made(tx.claim, tx.transfers, tx.calls)
        /\ a.rule = "kyber" /\ a.output # None => Converted(a.output, tx.transfers, tx.calls)
        /\ a.linked => tx.relay.filled /\ tx.relay.matches /\ tx.relay.enough
        /\ a.rule = "route" /\ tx.ok =>
              /\ a.output # None => /\ \A i \in DOMAIN tx.swaps : factory[tx.swaps[i].pool] = "verified"
                                    /\ Joined(tx.swaps) /\ Ends(tx.swaps, tx.transfers, a.output)
                                    /\ a.output \notin Official
              /\ /\ Joined(tx.swaps) /\ Clear(tx.swaps, tx.transfers)
                 /\ \A i \in DOMAIN tx.swaps : a.known[i] = "verified"
                 => \E x \in Official \cup {a.output} : Ends(tx.swaps, tx.transfers, x)

\* What an analysis says of the money is true of the transaction, under every rule.
\* Of another protocol: the router's payment was made, the recipient of an RFQ got
\* the ether its provider paid for, the relay's origin covers the payment.  Of a
\* swap's route: the address it names as the end is the one where the output rests,
\* behind pools of the official factory only and hops that join; and when there is
\* such an address and nothing was missing, it is named.
ClaimsTrue == \A a \in Analyses : Claims(a)

\* A pool is cached as what it is, however its four reads went: a cached verdict
\* is never asked for again.
PoolsTrue == \A p \in Pools : pools[p] # "none" => pools[p] = factory[p]
-----------------------------------------------------------------------------
(* The inductive invariant behind the theorems *)

\* What a caller has in hand is evidence of this transaction, as far as it has come.
EvidenceOK ==
    \A c \in Callers : LET j == job[c] IN
        /\ role[c] = "analyze" => j.step # "code" /\ j.answer \in {NoAnalysis} \cup Analysis
        /\ j.calls = IF j.internals = "found" THEN tx.calls ELSE {}
        /\ \A i \in DOMAIN j.known : j.known[i] = "verified" => factory[tx.swaps[i].pool] = "verified"
        /\ j.step = "read" => Len(j.known) < Len(tx.swaps)
        /\ j.step \in {"status", "origin", "save"} /\ tx.ok => Len(j.known) = Len(tx.swaps)
        /\ j.step = "origin" => tx.relay.filled
        /\ j.relay = "verified" => tx.relay.filled /\ tx.relay.matches /\ tx.relay.enough
=============================================================================
