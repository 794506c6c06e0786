------------------------------- MODULE Ledger -------------------------------
(***************************************************************************)
(* The money accounts of a trace (tracer/tracer.go, tracer/extension.go).  *)
(* A traversal leaves, for every edge, one "out" state of the payer and    *)
(* one "in" state of the payee:                                            *)
(*   [addr, asset, dir, amount, left, block, tx, path]                     *)
(* left is what of the amount no state on the other side has used up.      *)
(*                                                                         *)
(* Sums and loops are recursive functions, so that proofs can be made      *)
(* about them.                                                             *)
(***************************************************************************)
EXTENDS Integers, Sequences, FiniteSets

\* The sum of a sequence of numbers.
Sum(s) == LET upTo[k \in 0 .. Len(s)] == IF k = 0 THEN 0 ELSE upTo[k - 1] + s[k] IN upTo[Len(s)]

\* matched: the part of a state that the other side accounts for.
Explained(e) == e.amount - e.left

\* addDecimal and subtractDecimal over the states at a set of positions of s.
TotalAmount(s, J) == Sum([j \in DOMAIN s |-> IF j \in J THEN s[j].amount ELSE 0])
TotalLeft(s, J)   == Sum([j \in DOMAIN s |-> IF j \in J THEN s[j].left ELSE 0])
TotalUsed(s, J)   == Sum([j \in DOMAIN s |-> IF j \in J THEN Explained(s[j]) ELSE 0])

\* The two money states of an edge, and those of a sequence of edges.
Half(e, d) == [addr |-> IF d = "out" THEN e.from ELSE e.to, asset |-> e.asset, dir |-> d,
               amount |-> e.amount, left |-> e.amount, block |-> e.block, tx |-> e.tx, path |-> e.path]
MoneyOf(es) ==
    [k \in 1 .. 2 * Len(es) |-> Half(es[(k + 1) \div 2], IF k % 2 = 1 THEN "out" ELSE "in")]

\* The key of a FIFO queue, and of a ledger line.
SameAccount(e, g) == e.addr = g.addr /\ e.asset = g.asset

Incoming(s, g) == {j \in DOMAIN s : s[j].dir = "in"  /\ SameAccount(s[j], g)}
Outgoing(s, g) == {j \in DOMAIN s : s[j].dir = "out" /\ SameAccount(s[j], g)}

\* The stable sort of the states by entry block, by insertion.  (The code also groups
\* them by account; within an account the order is this one.)
Inserted(s, e) ==
    LET n == Cardinality({j \in DOMAIN s : s[j].block <= e.block})
    IN  SubSeq(s, 1, n) \o <<e>> \o SubSeq(s, n + 1, Len(s))
InBlockOrder(s) ==
    LET upTo[k \in 0 .. Len(s)] == IF k = 0 THEN <<>> ELSE Inserted(upTo[k - 1], s[k])
    IN  upTo[Len(s)]

\* What an outgoing state with so much due takes from one incoming state.
Taken(due, left) == IF due <= 0 THEN 0 ELSE IF due < left THEN due ELSE left

\* Mutant of Drawn: the queue is emptied from its back.
DrawnFromBack(s, i) ==
    LET queue == {j \in Incoming(s, s[i]) : j < i}
    IN  [j \in DOMAIN s |->
            IF j \in queue THEN Taken(s[i].amount - TotalLeft(s, {k \in queue : k > j}), s[j].left) ELSE 0]

\* One outgoing state drains the queue of its account from the front: the
\* incoming states before it, each down to nothing before the next is touched.
Drawn(s, i) ==
    LET queue == {j \in Incoming(s, s[i]) : j < i}
    IN  [j \in DOMAIN s |->
            IF j \in queue THEN Taken(s[i].amount - TotalLeft(s, {k \in queue : k < j}), s[j].left) ELSE 0]

\* It starts from its whole amount, whatever its left was.
Pay(s, i) ==
    LET drawn == Drawn(s, i)
    IN  [j \in DOMAIN s |-> IF j = i THEN [s[j] EXCEPT !.left = s[j].amount - Sum(drawn)]
                            ELSE [s[j] EXCEPT !.left = @ - drawn[j]]]

\* consumeMoneyStates
Consume(states) ==
    LET sorted == InBlockOrder(states)
        upTo[i \in 0 .. Len(sorted)] ==
            IF i = 0 THEN sorted
            ELSE LET t == upTo[i - 1] IN IF t[i].dir = "in" THEN t ELSE Pay(t, i)
    IN  upTo[Len(sorted)]

\* buildLedgers: the line of one account.
LedgerLine(s, g) ==
    LET unexplained == TotalLeft(s, Outgoing(s, g))
    IN  [incoming    |-> TotalAmount(s, Incoming(s, g)),
         outgoing    |-> TotalAmount(s, Outgoing(s, g)),
         explained   |-> TotalUsed(s, Outgoing(s, g)),
         unexplained |-> unexplained,
         status      |-> IF unexplained = 0 THEN "complete" ELSE "partial"]

\* Reconciliation of a result: complete when every line is.
Reconciliation(s) ==
    IF \A j \in DOMAIN s : LedgerLine(s, s[j]).status = "complete" THEN "complete" ELSE "partial"

\* moneyStateKey: neither the amount nor the block is part of it.
MoneyKey(e) == <<e.addr, e.dir, e.asset, e.tx, e.path>>

\* appendUniqueMoneyStates
AppendUnique(current, extra) ==
    LET upTo[i \in 0 .. Len(extra)] ==
            IF i = 0 THEN current
            ELSE LET t == upTo[i - 1]
                 IN  IF \E j \in DOMAIN t : MoneyKey(t[j]) = MoneyKey(extra[i]) THEN t ELSE Append(t, extra[i])
    IN  upTo[Len(extra)]
=============================================================================
