----------------------------- MODULE SwapRoute -----------------------------
(***************************************************************************)
(* What transactionanalysis/service.go concludes from the evidence of one  *)
(* transaction: the route of a swap's output, the RFQ conversion and the   *)
(* payment a THORChain router claims.  All of it is a function of the      *)
(* receipt's transfers and wraps, the internal calls that were read and    *)
(* the pools that could be identified.                                     *)
(*                                                                         *)
(* A transfer is [log, token, from, to, amount], an internal call is       *)
(* [from, to, amount, failed], a swap is [pool, tokenIn, tokenOut, out],   *)
(* a wrap is [account, amount, kind].                                      *)
(***************************************************************************)
EXTENDS Naturals, Sequences, FiniteSets

CONSTANTS
    Nobody,    \* the zero address
    Weth,      \* EthereumWETH
    Official,  \* the addresses of officialContracts
    Executor,  \* KyberSwapExecutor
    Router     \* THORChainRouter

\* No output, or several.
None == "none"
Several == "several"
-----------------------------------------------------------------------------
(* resolveOutput *)

PaidOut(s, transfers) ==
    {t.to : t \in {u \in transfers : u.token = s.tokenOut /\ u.from = s.pool /\ u.amount = s.out}}

Onward(s, transfers, x) ==
    {t.to : t \in {u \in transfers : u.token = s.tokenOut /\ u.from = x /\ u.to \notin {s.pool, Nobody}}}

\* One step on from the holder at: to the only one it passed the output to, if
\* there is one that has not been seen on the way.
Follow(s, transfers, w) ==
    LET next == Onward(s, transfers, w.at)
    IN IF w.at = Several \/ next = {} THEN w
       ELSE IF next \cap w.seen # {} \/ Cardinality(next) > 1 THEN [w EXCEPT !.at = Several]
       ELSE [at |-> CHOOSE x \in next : TRUE, seen |-> w.seen \cup next]

\* The holder reached from the one the pool paid; at most one step for each
\* transfer changes anything.
Walk(s, transfers, first) ==
    LET walk[n \in 0 .. Cardinality(transfers)] ==
            IF n = 0 THEN [at |-> first, seen |-> {first}] ELSE Follow(s, transfers, walk[n - 1])
    IN walk[Cardinality(transfers)].at

ResolveOutput(s, transfers) ==
    LET first == PaidOut(s, transfers)
    IN IF first = {} THEN None
       ELSE IF Cardinality(first) > 1 THEN Several
       ELSE Walk(s, transfers, CHOOSE x \in first : TRUE)
-----------------------------------------------------------------------------
(* finalizeRoute: verified holds the places of the swaps whose pool is known *)

LastOf(verified) == CHOOSE i \in verified : \A j \in verified : j <= i
NextOf(verified, i) == CHOOSE j \in verified : j > i /\ \A k \in verified : k > i => j <= k

\* Mutant of Broken: the hops need not join.
BrokenAllowed(swaps, verified) == FALSE

\* Two hops after each other do not join.
Broken(swaps, verified) ==
    \E i \in verified \ {LastOf(verified)} : swaps[i].tokenOut # swaps[NextOf(verified, i)].tokenIn

\* The holder of the last swap's output, or None when the route is not clear.
FinalOutput(swaps, verified, transfers) ==
    LET output(i) == ResolveOutput(swaps[i], transfers)
    IN IF \/ verified = {}
          \/ \E i \in verified : output(i) = Several
          \/ Broken(swaps, verified)
          \/ verified # DOMAIN swaps
          \/ output(LastOf(verified)) \in Official \cup {None}
       THEN None
       ELSE output(LastOf(verified))
-----------------------------------------------------------------------------
(* finalizeKyberRFQ *)

HasCall(calls, from, to, amount) ==
    \E c \in calls : ~c.failed /\ c.from = from /\ c.to = to /\ c.amount = amount

\* hasWithdrawalFunding: the executor unwrapped the amount, give or take one unit.
Funded(wraps, calls, amount) ==
    \E w \in wraps :
        /\ w.kind = "withdrawal" /\ w.account = Executor
        /\ HasCall(calls, Weth, Executor, w.amount)
        /\ w.amount \in {amount, amount + 1} \/ w.amount + 1 = amount

Recipients(calls, amount) ==
    {c \in calls : ~c.failed /\ c.from = Executor /\ c.amount = amount /\ c.to # Weth}

\* The provider is paid what the initiator paid, and pays wrapped ether that
\* is unwrapped and passed on to one recipient.
Candidates(initiator, transfers, wraps, calls) ==
    {t \in transfers \X transfers \X transfers :
        LET input == t[1] payment == t[2] output == t[3] IN
        /\ input.from = initiator /\ input.to = Executor /\ input.token # Weth
        /\ payment.from = Executor /\ payment.token = input.token /\ payment.amount = input.amount
        /\ output.token = Weth /\ output.from = payment.to /\ output.to = Executor
        /\ Funded(wraps, calls, output.amount)
        /\ Cardinality(Recipients(calls, output.amount)) = 1}

\* The recipient, or None.
RfqRecipient(initiator, transfers, wraps, calls) ==
    LET found == Candidates(initiator, transfers, wraps, calls) IN
    IF (\E c \in calls : c.failed) \/ Cardinality(found) # 1 THEN None
    ELSE LET t == CHOOSE t \in found : TRUE
         IN (CHOOSE c \in Recipients(calls, t[3].amount) : TRUE).to
-----------------------------------------------------------------------------
(* verifiedTHORChainTransferOut: claim is [token, to, amount], the token     *)
(* "eth" for ether, which the receipt does not show.                         *)

Paid(claim, transfers, calls) ==
    IF claim.token = "eth" THEN HasCall(calls, Router, claim.to, claim.amount)
    ELSE \E t \in transfers : /\ t.token = claim.token /\ t.from = Router
                              /\ t.to = claim.to /\ t.amount = claim.amount
-----------------------------------------------------------------------------
(* Reference: where the output of a swap rests, from the transfers alone *)

\* The holders that the output may have come to.
Holders(s, transfers) ==
    LET all == {t.to : t \in transfers}
        closed(H) == PaidOut(s, transfers) \subseteq H
                     /\ \A x \in H : Onward(s, transfers, x) \subseteq H
    IN {x \in all : \A H \in SUBSET all : closed(H) => x \in H}

\* The one of them that passes nothing on.
RestsAt(s, transfers, x) ==
    /\ {h \in Holders(s, transfers) : Onward(s, transfers, h) = {}} = {x}
    /\ \A h \in Holders(s, transfers) : Cardinality(Onward(s, transfers, h)) <= 1
=============================================================================
