---------------------------- MODULE MCTraceGraph ----------------------------
(* Small worlds for TraceGraph: four addresses, a few transfers each.       *)
EXTENDS TraceGraph
CONSTANTS s, a, m, c, zero

Coin(tx, from, to, amount, block) ==
    [tx |-> tx, from |-> from, to |-> to, asset |-> "eth", amount |-> amount, block |-> block]
Token(tx, from, to, amount, block) ==
    [tx |-> tx, from |-> from, to |-> to, asset |-> "tok", amount |-> amount, block |-> block]

MCChains == {
    \* three ways on from a, the last larger than what is left
    {Coin(1, s, a, 5, 2), Coin(2, a, m, 2, 3), Coin(3, a, c, 2, 4), Coin(4, a, m, 4, 5)},
    \* as many transfers on as one query may return
    {Coin(1, s, a, 9, 2), Coin(2, a, m, 2, 3), Coin(3, a, c, 2, 3), Coin(4, a, m, 2, 4), Coin(5, a, c, 2, 5)},
    \* round trips, one of them late
    {Coin(1, s, a, 3, 2), Coin(2, a, m, 2, 3), Coin(3, m, a, 2, 5), Coin(4, a, s, 2, 1)},
    \* more peers than nodes, with a burn among them
    {Coin(1, s, a, 4, 2), Coin(2, s, m, 2, 2), Coin(3, a, c, 2, 3), Coin(4, a, zero, 2, 4)},
    {Coin(1, s, a, 4, 2), Coin(2, a, zero, 2, 3), Coin(3, a, m, 2, 4), Coin(4, m, c, 2, 5)},
    \* two sources, one under the threshold, upstream of the seed
    {Coin(1, a, s, 4, 4), Coin(2, m, a, 2, 3), Coin(3, c, a, 1, 3), Coin(4, c, m, 2, 1)},
    \* a is needed up to its early transfer and from its late one
    {Coin(1, a, s, 2, 1), Coin(2, s, a, 2, 4), Coin(3, a, m, 2, 5), Coin(4, m, a, 2, 1)},
    \* a token comes back in the transaction of the coin
    {Coin(1, s, a, 2, 2), Token(1, a, s, 2, 2), Token(2, s, m, 2, 3)},
    \* a is reached again, in the token, once the graph is full
    {Coin(1, s, a, 4, 2), Token(2, s, m, 4, 2), Token(3, m, c, 2, 3), Token(4, m, a, 2, 4)},
    \* two payments into a, and one on that both could have paid for
    {Coin(1, s, a, 2, 1), Coin(2, s, a, 3, 2), Coin(3, a, m, 4, 4)} }

\* a is of any kind but a wallet; s may be out of the ordinary beside an ordinary a, and c
\* beside such an a or a router.  The zero address has more transfers than a job may list.
MCKinds == {k \in [{s, a, m, c, zero} -> {"eoa", "contract", "wallet", "bridge", "vault", "router", "busy"}] :
                /\ k[s] \in {"eoa", "busy"} /\ k[a] # "wallet" /\ k[m] = "eoa" /\ k[c] \in {"eoa", "wallet"}
                /\ k[s] # "eoa" => k[a] = "eoa"
                /\ k[c] # "eoa" => k[s] = "eoa" /\ k[a] \in {"eoa", "router"}
                /\ k[zero] = "busy"}
MCWorlds == {w \in MCChains \X MCKinds : \A x \in {s, a, m, c} :
                w[2][x] # "eoa" => \E t \in w[1] : x \in {t.from, t.to}}
MCThreshold == [asset \in {"eth", "tok"} |-> 2]
Swap(via, peer, asset, amount, leg) ==
    [via |-> via, peer |-> peer, asset |-> asset, amount |-> amount, leg |-> leg]
Leg == [from |-> a, to |-> s, asset |-> "tok", amount |-> 2]
MCSwaps == {Swap("swap", s, "tok", 2, {Leg}), Swap("swap", s, "eth", 2, {Leg}),
            Swap("outbound", c, "tok", 2, {}), Swap("migration", m, "eth", 2, {})}
MCWithInput == {1}
MCWindows == {<<1, 2>>, <<4, 5>>}

\* Other clients ask for a range in which the address has a transfer.
SyncsFindSomething ==
    syncs' # syncs => \A x \in Addresses : wanted'[x] # wanted[x] =>
        \E t \in facts : x \in {t.from, t.to} /\ t.block \in wanted'[x][1] .. wanted'[x][2]
=============================================================================
