------------------------------ MODULE MCIngest ------------------------------
(* Scenes for Ingest: what two callers do, and with what.                   *)
EXTENDS Ingest, TLC
CONSTANTS c1, c2

T(log, token, from, to, amount) == [log |-> log, token |-> token, from |-> from, to |-> to, amount |-> amount]
Call(from, to, amount, failed) == [from |-> from, to |-> to, amount |-> amount, failed |-> failed]
Swap(pool, in, out) == [pool |-> pool, tokenIn |-> in, tokenOut |-> out, out |-> 2]

Plain ==
    [stage |-> "traced", to |-> "uniswap", input |-> "swap", ok |-> TRUE, readable |-> TRUE,
     swaps |-> <<>>, transfers |-> {}, wraps |-> {}, calls |-> {}, spoiled |-> FALSE, locked |-> TRUE,
     claim |-> [token |-> "eth", to |-> "vault", amount |-> 2],
     relay |-> [filled |-> FALSE, matches |-> TRUE, enough |-> TRUE]]
OneHop == [Plain EXCEPT !.swaps = <<Swap("p", "dai", "tok")>>,
                        !.transfers = {T(1, "tok", "p", "user", 2)}]
TwoHops == [Plain EXCEPT !.swaps = <<Swap("p", "dai", "weth"), Swap("q", "weth", "tok")>>,
                         !.transfers = {T(1, "weth", "p", "q", 2), T(2, "tok", "q", "x", 2)}]
Rfq == [Plain EXCEPT !.to = "kyber",
          !.transfers = {T(1, "dai", "user", "executor", 1), T(2, "dai", "executor", "maker", 1),
                         T(3, "weth", "maker", "executor", 2)},
          !.wraps = {[account |-> "executor", amount |-> 3, kind |-> "withdrawal"]},
          !.calls = {Call("weth", "executor", 3, FALSE), Call("executor", "x", 2, FALSE)}]
Payout == [Plain EXCEPT !.to = "thorchain", !.input = "out",
                        !.calls = {Call("router", "vault", 2, FALSE)}]

\* All ways in which up to three of these pass the output of p on.
Passes == {T(1, "tok", "p", "x", 2), T(2, "tok", "p", "x", 1), T(3, "tok", "p", "y", 2), T(4, "tok", "x", "y", 2),
           T(5, "tok", "y", "x", 2), T(6, "tok", "x", "p", 2), T(7, "tok", "y", "listed", 2), T(8, "tok", "x", "zero", 1)}
Routes == {[OneHop EXCEPT !.transfers = ts] : ts \in {u \in SUBSET Passes : Cardinality(u) <= 3}}

Transactions ==
    { [OneHop EXCEPT !.ok = FALSE], [OneHop EXCEPT !.spoiled = TRUE], [OneHop EXCEPT !.readable = FALSE],
      [OneHop EXCEPT !.input = "memo"], TwoHops, [TwoHops EXCEPT !.swaps[2].tokenIn = "dai"],
      Rfq, [Rfq EXCEPT !.ok = FALSE], [Rfq EXCEPT !.spoiled = TRUE], [Rfq EXCEPT !.calls = @ \cup {Call("executor", "y", 2, FALSE)}],
      [Rfq EXCEPT !.calls = @ \cup {Call("executor", "y", 1, TRUE)}], [Rfq EXCEPT !.wraps = {[account |-> "executor", amount |-> 4, kind |-> "withdrawal"]}],
      Payout, [Payout EXCEPT !.calls = {Call("other", "vault", 2, FALSE)}],
      [Payout EXCEPT !.claim.token = "tok", !.transfers = {T(1, "tok", "other", "vault", 2)}],
      [Payout EXCEPT !.claim.token = "tok", !.transfers = {T(1, "tok", "router", "vault", 2)}],
      [Payout EXCEPT !.input = "note"], [Payout EXCEPT !.input = "garbled"],
      [Plain EXCEPT !.to = "maya", !.input = "deposit"], [Plain EXCEPT !.to = "maya", !.input = "garbled"],
      [Plain EXCEPT !.to = "bittorrent", !.input = "deposit"],
      [Plain EXCEPT !.to = "other", !.input = "request"],
      [Plain EXCEPT !.to = "other", !.input = "request", !.relay.matches = FALSE],
      [Plain EXCEPT !.to = "other", !.input = "request", !.relay.enough = FALSE] }

\* Five places of a listing, the rows of one block alike but for their place: at
\* most one of them is odd, and one may be indexed late.
RowAt(block, nr, sort) == [block |-> block, nr |-> nr, key |-> block, sort |-> sort, peer |-> 1, amount |-> 1]
PlacesOf == {<<1, 1>>, <<1, 2>>, <<2, 1>>, <<2, 2>>, <<2, 3>>}
RowsOf(bare, oddAt, odd) ==
    {RowAt(x[1], x[2], IF x = oddAt THEN odd ELSE IF x[1] \in bare THEN "bare" ELSE "logged") : x \in PlacesOf}
Listed == {RowsOf(bare, x, odd) : bare \in {{1}, {1, 2}}, x \in PlacesOf, odd \in Sorts}

\* The rows of a reader's scene: some of four, the second of no value.
Readable == {RowAt(1, 1, "bare"), [RowAt(1, 2, "logged") EXCEPT !.amount = 0], RowAt(1, 3, "bare"), RowAt(2, 1, "logged")}
Unknown == [status |-> "discovered", ever |-> FALSE, lo |-> 0, hi |-> 0]
Covered == [status |-> "synced", ever |-> TRUE, lo |-> 0, hi |-> 1]
Doc(block, key, log, peer) == [block |-> block, key |-> key, log |-> log, peer |-> peer, amount |-> 1]
Stock(rs) == {[Doc(1, 1, IF r.sort = "bare" THEN -1 - Cardinality({s \in rs : s.sort = "bare" /\ s.nr < r.nr}) ELSE r.nr, 1)
                EXCEPT !.amount = r.amount] : r \in {s \in rs : s.block = 1}}
Took(rs) == LET n == Cardinality({d \in Stock(rs) : d.amount > 0})
            IN {[hi |-> 1, lo |-> 0, total |-> n, latest |-> IF n = 0 THEN 0 ELSE 1, recent |-> n]}

\* Up to two transfers with each of some peers, for the largest of them.
Trades == {[RowAt(1, 10 * p + n, "logged") EXCEPT !.key = p, !.peer = p] : p \in Peers, n \in 1 .. 2}

Both(first, second) == (c1 :> first @@ c2 :> second)
Scene == [role |-> Both("analyze", "absent"), tx |-> OneHop, factory |-> [p \in Pools |-> "verified"],
          subject |-> "eoa", order |-> "asc", rows |-> {}, late |-> {}, saved |-> NoAnalysis,
          docs |-> {}, addr |-> Unknown, profiles |-> {}]
Reading == [Scene EXCEPT !.tx.swaps = <<>>]
MCScenes ==
    {[Scene EXCEPT !.tx = t] : t \in Transactions \cup Routes} \cup
    {[Scene EXCEPT !.tx = t, !.factory["p"] = f] : t \in {OneHop, TwoHops}, f \in {"foreign", "odd"}} \cup
    {[Scene EXCEPT !.tx.stage = "unknown", !.saved = Old]} \cup
    {[Scene EXCEPT !.role = Both("analyze", "analyze"), !.tx.stage = "mined", !.saved = Old]} \cup
    {[Scene EXCEPT !.role = Both("analyze", "inspect"), !.subject = a] : a \in {"listed", "eoa", "contract", "p"}} \cup
    {[Reading EXCEPT !.role = Both("list", "absent"), !.order = o, !.rows = {r \in all : <<r.block, r.nr>> \notin slow \cup gone},
                   !.late = {r \in all : <<r.block, r.nr>> \in slow \ gone}] :
        o \in {"asc", "desc"}, all \in Listed, slow \in {{x} : x \in PlacesOf}, gone \in {{}, {<<2, 2>>}, {<<1, 2>>, <<2, 2>>}}} \cup
    {[Scene EXCEPT !.role = Both("list", "analyze"), !.rows = RowsOf({1}, <<1, 2>>, "void"), !.tx.to = "maya", !.tx.swaps = <<>>]} \cup
    {[Reading EXCEPT !.role = Both("list", who), !.order = o, !.rows = rs] :
        o \in {"asc", "desc"}, who \in {"page", "profile"}, rs \in SUBSET Readable} \cup
    {[Reading EXCEPT !.role = Both("list", who), !.order = o, !.rows = rs, !.docs = Stock(rs), !.addr = Covered, !.profiles = IF kept THEN Took(rs) ELSE {}] :
        o \in {"asc", "desc"}, who \in {"page", "profile"}, rs \in SUBSET Readable, kept \in BOOLEAN} \cup
    {[Reading EXCEPT !.role = Both("list", who), !.rows = {r \in rs : r.block = 1}, !.late = {r \in rs : r.block = 2},
                   !.docs = Stock(rs), !.addr = Covered, !.profiles = Took(rs)] :
        who \in {"page", "profile"}, rs \in {s \in SUBSET Readable : \E r \in s : r.block = 2}} \cup
    {[Reading EXCEPT !.role = Both("absent", "absent"), !.rows = rs, !.docs = {Doc(1, r.key, r.nr, r.peer) : r \in rs}] :
        rs \in SUBSET Trades}
=============================================================================
