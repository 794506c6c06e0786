---------------------------- MODULE IngestProofs ----------------------------
(***************************************************************************)
(* The callers of the explorer's client and the readers of what it brings, *)
(* for every number of callers, page size and number of retries: a caller  *)
(* is in the limiter's queue exactly while it waits for it, and what an    *)
(* analysis says of a transaction rests on its evidence and is true.       *)
(***************************************************************************)
EXTENDS Ingest, SequenceTheorems, FiniteSetTheorems, WellFoundedInduction, TLAPS

(* The limiter's queue *)

Queued(c) == \E i \in DOMAIN queue : queue[i] = c
QueueOK ==
    /\ \A c \in Callers : call[c].at = "queued" <=> Queued(c)
    /\ \A i, j \in DOMAIN queue : queue[i] = queue[j] => i = j

\* Only the request of c changes.
Only(c) == \A d \in Callers \ {c} : call'[d].at = call[d].at

LEMMA Joins ==
    ASSUME queue \in Seq(Callers), QueueOK, NEW c \in Callers, call[c].at # "queued",
           queue' = Append(queue, c), call'[c].at = "queued", Only(c)
    PROVE  queue' \in Seq(Callers) /\ QueueOK'
<1>1. /\ queue' \in Seq(Callers) /\ Len(queue) \in Nat /\ DOMAIN queue = 1 .. Len(queue)
      /\ DOMAIN queue' = 1 .. Len(queue) + 1
      /\ \A i \in DOMAIN queue : queue'[i] = queue[i]
      /\ queue'[Len(queue) + 1] = c
  OBVIOUS
<1>2. ASSUME NEW d \in Callers PROVE call'[d].at = "queued" <=> Queued(d)'
  <2>1. CASE d = c
    BY <1>1, <2>1 DEF Queued
  <2>2. CASE d # c
    <3>1. Queued(d)' <=> Queued(d)
      BY <1>1, <2>2 DEF Queued
    <3> QED  BY <2>2, <3>1 DEF Only, QueueOK
  <2> QED  BY <2>1, <2>2
<1>3. ASSUME NEW i \in DOMAIN queue', NEW j \in DOMAIN queue', queue'[i] = queue'[j] PROVE i = j
  <2>1. ~Queued(c)
    BY DEF QueueOK
  <2> QED  BY <1>1, <1>3, <2>1 DEF Queued, QueueOK
<1> QED  BY <1>1, <1>2, <1>3 DEF QueueOK

LEMMA HeadGoes ==
    ASSUME queue \in Seq(Callers), QueueOK, queue # <<>>,
           queue' = Tail(queue), call'[Head(queue)].at # "queued", Only(Head(queue))
    PROVE  queue' \in Seq(Callers) /\ QueueOK'
<1>1. /\ queue' \in Seq(Callers) /\ Len(queue) \in Nat \ {0} /\ DOMAIN queue = 1 .. Len(queue)
      /\ DOMAIN queue' = 1 .. Len(queue) - 1
      /\ \A i \in DOMAIN queue' : queue'[i] = queue[i + 1]
      /\ Head(queue) = queue[1] /\ Head(queue) \in Callers
  OBVIOUS
<1>2. ASSUME NEW d \in Callers PROVE call'[d].at = "queued" <=> Queued(d)'
  <2>1. CASE d = Head(queue)
    <3>1. ASSUME NEW i \in DOMAIN queue', queue'[i] = d PROVE FALSE
      <4>1. i + 1 \in DOMAIN queue /\ queue[i + 1] = queue[1] /\ 1 \in DOMAIN queue /\ i + 1 # 1
        BY <1>1, <2>1, <3>1
      <4> QED  BY <4>1 DEF QueueOK
    <3> QED  BY <2>1, <3>1 DEF Queued
  <2>2. CASE d # Head(queue)
    <3>1. ASSUME Queued(d) PROVE Queued(d)'
      <4>1. PICK i \in DOMAIN queue : queue[i] = d
        BY <3>1 DEF Queued
      <4>2. i - 1 \in DOMAIN queue' /\ queue'[i - 1] = d
        BY <1>1, <2>2, <4>1
      <4> QED  BY <4>2 DEF Queued
    <3>2. Queued(d)' => Queued(d)
      BY <1>1 DEF Queued
    <3> QED  BY <2>2, <3>1, <3>2 DEF Only, QueueOK
  <2> QED  BY <2>1, <2>2
<1>3. ASSUME NEW i \in DOMAIN queue', NEW j \in DOMAIN queue', queue'[i] = queue'[j] PROVE i = j
  <2>1. i + 1 \in DOMAIN queue /\ j + 1 \in DOMAIN queue /\ queue[i + 1] = queue[j + 1]
    BY <1>1, <1>3
  <2>2. i + 1 = j + 1
    BY <2>1 DEF QueueOK
  <2> QED  BY <1>1, <2>2
<1>4. QueueOK'
  BY <1>2, <1>3 DEF QueueOK
<1> QED  BY <1>1, <1>4

LEMMA GoesAway ==
    ASSUME queue \in Seq(Callers), QueueOK, NEW c \in Callers,
           queue' = Leaves(c), call'[c].at # "queued", Only(c)
    PROVE  queue' \in Seq(Callers) /\ QueueOK'
<1>1. CASE call[c].at # "queued"
  BY <1>1 DEF Leaves, QueueOK, Only, Queued
<1>2. CASE call[c].at = "queued"
  <2> DEFINE at == CHOOSE k \in DOMAIN queue : queue[k] = c
  <2>1. at \in DOMAIN queue /\ queue[at] = c
    BY <1>2 DEF QueueOK, Queued
  <2>2. Len(queue) \in Nat /\ DOMAIN queue = 1 .. Len(queue)
    OBVIOUS
  <2>3. queue' = SubSeq(queue, 1, at - 1) \o SubSeq(queue, at + 1, Len(queue))
    BY <1>2 DEF Leaves
  <2> HIDE DEF at
  <2>4. /\ queue' \in Seq(Callers) /\ DOMAIN queue' = 1 .. Len(queue) - 1
        /\ \A i \in 1 .. at - 1 : queue'[i] = queue[i]
        /\ \A i \in at .. Len(queue) - 1 : queue'[i] = queue[i + 1]
    <3> DEFINE s == SubSeq(queue, 1, at - 1)
               t == SubSeq(queue, at + 1, Len(queue))
    <3>1. s \in Seq(Callers) /\ Len(s) = at - 1 /\ \A i \in 1 .. at - 1 : s[i] = queue[i]
      BY <2>1, <2>2
    <3>2. /\ t \in Seq(Callers) /\ Len(t) = Len(queue) - at
          /\ \A i \in 1 .. Len(queue) - at : t[i] = queue[at + i]
      BY <2>1, <2>2
    <3>3. at \in Nat /\ at >= 1 /\ queue' = s \o t
      BY <2>1, <2>2, <2>3
    <3> HIDE DEF s, t
    <3>4. /\ queue' \in Seq(Callers) /\ Len(queue') = Len(queue) - 1
          /\ \A i \in 1 .. Len(queue) - 1 : queue'[i] = IF i <= at - 1 THEN s[i] ELSE t[i - (at - 1)]
      <4>1. /\ s \o t \in Seq(Callers) /\ Len(s \o t) = Len(s) + Len(t)
            /\ \A i \in 1 .. Len(s) + Len(t) : (s \o t)[i] = IF i <= Len(s) THEN s[i] ELSE t[i - Len(s)]
        BY <3>1, <3>2, ConcatProperties
      <4>2. Len(s) + Len(t) = Len(queue) - 1
        BY <2>2, <3>1, <3>2, <3>3
      <4> QED  BY <3>1, <3>3, <4>1, <4>2
    <3>5. ASSUME NEW i \in at .. Len(queue) - 1 PROVE queue'[i] = queue[i + 1]
      <4>1. i - (at - 1) \in 1 .. Len(queue) - at /\ at + (i - (at - 1)) = i + 1 /\ ~(i <= at - 1)
        BY <2>2, <3>3
      <4>2. t[i - (at - 1)] = queue[i + 1]
        BY <3>2, <4>1
      <4> QED  BY <2>2, <3>3, <3>4, <4>1, <4>2
    <3>6. at \in 1 .. Len(queue)
      BY <2>1, <2>2
    <3>7. ASSUME NEW i \in 1 .. at - 1 PROVE queue'[i] = queue[i]
      <4>1. i \in 1 .. Len(queue) - 1 /\ i <= at - 1
        BY <2>2, <3>6
      <4> QED  BY <3>1, <3>4, <4>1
    <3>8. DOMAIN queue' = 1 .. Len(queue) - 1
      BY <3>4
    <3> QED  BY <3>4, <3>5, <3>7, <3>8
  <2>5. ASSUME NEW i \in DOMAIN queue'
        PROVE  \E k \in DOMAIN queue \ {at} : queue'[i] = queue[k] /\ k = IF i < at THEN i ELSE i + 1
    BY <2>1, <2>2, <2>4
  <2>6. ASSUME NEW k \in DOMAIN queue \ {at} PROVE \E i \in DOMAIN queue' : queue'[i] = queue[k]
    <3>1. CASE k < at
      BY <2>1, <2>2, <2>4, <3>1
    <3>2. CASE k > at
      <4>1. k - 1 \in DOMAIN queue' /\ queue'[k - 1] = queue[k]
        BY <2>1, <2>2, <2>4, <3>2
      <4> QED  BY <4>1
    <3> QED  BY <2>1, <2>2, <3>1, <3>2
  <2>7. ASSUME NEW d \in Callers PROVE call'[d].at = "queued" <=> Queued(d)'
    <3>1. CASE d = c
      <4>1. \A k \in DOMAIN queue \ {at} : queue[k] # c
        BY <2>1 DEF QueueOK
      <4> QED  BY <2>5, <3>1, <4>1 DEF Queued
    <3>2. CASE d # c
      <4>1. Queued(d)' <=> Queued(d)
        BY <2>1, <2>5, <2>6, <3>2 DEF Queued
      <4> QED  BY <3>2, <4>1 DEF Only, QueueOK
    <3> QED  BY <3>1, <3>2
  <2>8. ASSUME NEW i \in DOMAIN queue', NEW j \in DOMAIN queue', queue'[i] = queue'[j] PROVE i = j
    <3>1. PICK k \in DOMAIN queue \ {at} : queue'[i] = queue[k] /\ k = IF i < at THEN i ELSE i + 1
      BY <2>5
    <3>2. PICK m \in DOMAIN queue \ {at} : queue'[j] = queue[m] /\ m = IF j < at THEN j ELSE j + 1
      BY <2>5
    <3>3. k = m
      BY <2>8, <3>1, <3>2 DEF QueueOK
    <3> QED  BY <2>1, <2>2, <2>4, <3>1, <3>2, <3>3
  <2> QED  BY <2>4, <2>7, <2>8 DEF QueueOK
<1> QED  BY <1>1, <1>2

LEMMA StaysAway ==
    ASSUME queue \in Seq(Callers), QueueOK, NEW c \in Callers, call[c].at # "queued",
           UNCHANGED queue, call'[c].at # "queued", Only(c)
    PROVE  queue' \in Seq(Callers) /\ QueueOK'
BY DEF QueueOK, Only, Queued
-----------------------------------------------------------------------------
(* The explorer's listing: the ranks of its rows are 1 .. Cardinality(rows). *)

RowsOK == order \in {"asc", "desc"} /\ rows \subseteq Row /\ IsFiniteSet(rows) /\ Distinct(rows)

LEMMA AheadOrder ==
    ASSUME RowsOK, NEW r \in rows, NEW q \in rows, NEW s \in rows
    PROVE  /\ ~Ahead(r, r)
           /\ Ahead(r, q) /\ Ahead(q, s) => Ahead(r, s)
           /\ r = q \/ Ahead(r, q) \/ Ahead(q, r)
<1>1. /\ r.block \in Nat /\ r.nr \in Nat /\ q.block \in Nat /\ q.nr \in Nat
      /\ s.block \in Nat /\ s.nr \in Nat
  BY DEF RowsOK, Row
<1>2. r.block = q.block /\ r.nr = q.nr => r = q
  BY DEF RowsOK, Distinct
<1> QED  BY <1>1, <1>2 DEF Ahead, Before

InFront(r) == {s \in rows : Ahead(s, r)}

LEMMA RankIs == ASSUME NEW r PROVE Rank(r) = 1 + Cardinality(InFront(r))
<1>1. {s \in rows : Ahead(s, r)} = InFront(r)
  BY Zenon DEF InFront
<1>2. Rank(r) = 1 + Cardinality({s \in rows : Ahead(s, r)})
  BY Zenon DEF Rank
<1> QED  BY <1>1, <1>2, Zenon

LEMMA RankRange ==
    ASSUME RowsOK, NEW r \in rows
    PROVE  Rank(r) \in 1 .. Cardinality(rows) /\ Rank(r) \in Nat /\ Cardinality(rows) \in Nat
<1>1. InFront(r) \subseteq rows \ {r}
  BY AheadOrder DEF InFront
<1>2. /\ IsFiniteSet(rows \ {r}) /\ Cardinality(rows \ {r}) = Cardinality(rows) - 1
      /\ Cardinality(rows) \in Nat
  BY FS_RemoveElement, FS_CardinalityType DEF RowsOK
<1>3. /\ IsFiniteSet(InFront(r)) /\ Cardinality(InFront(r)) <= Cardinality(rows) - 1
      /\ Cardinality(InFront(r)) \in Nat
  BY <1>1, <1>2, FS_Subset, FS_CardinalityType
<1> QED  BY <1>2, <1>3, RankIs

LEMMA RankOrder ==
    ASSUME RowsOK, NEW r \in rows, NEW q \in rows
    PROVE  Ahead(r, q) <=> Rank(r) < Rank(q)
<1>1. ASSUME NEW x \in rows, NEW y \in rows, Ahead(x, y) PROVE Rank(x) < Rank(y)
  <2>1. IsFiniteSet(InFront(x)) /\ IsFiniteSet(InFront(y))
    BY FS_Subset DEF InFront, RowsOK
  <2>2. InFront(x) \cup {x} \subseteq InFront(y) /\ x \notin InFront(x)
    BY <1>1, AheadOrder DEF InFront
  <2>3. Cardinality(InFront(x) \cup {x}) = Cardinality(InFront(x)) + 1
    BY <2>1, <2>2, FS_AddElement
  <2>4. Cardinality(InFront(x) \cup {x}) <= Cardinality(InFront(y))
    BY <2>1, <2>2, FS_Subset
  <2>5. Cardinality(InFront(x)) \in Nat /\ Cardinality(InFront(y)) \in Nat
    BY <2>1, FS_CardinalityType
  <2> QED  BY <2>3, <2>4, <2>5, RankIs
<1>2. Rank(r) \in Nat /\ Rank(q) \in Nat
  BY RankRange
<1> QED  BY <1>1, <1>2, AheadOrder

LEMMA RankInjective ==
    ASSUME RowsOK, NEW r \in rows, NEW q \in rows, Rank(r) = Rank(q)
    PROVE  r = q
BY RankOrder, RankRange, AheadOrder

LEMMA RankOnto ==
    ASSUME RowsOK, NEW n \in 1 .. Cardinality(rows)
    PROVE  \E r \in rows : Rank(r) = n
<1> DEFINE N == Cardinality(rows)
           f == [r \in rows |-> Rank(r)]
<1>1. N \in Nat /\ IsFiniteSet(1 .. N) /\ Cardinality(1 .. N) = N
  BY FS_CardinalityType, FS_Interval DEF RowsOK
<1>2. f \in Injection(rows, 1 .. N)
  BY RankRange, RankInjective DEF Injection, IsInjective
<1>3. f \in Surjection(rows, 1 .. N)
  BY <1>1, <1>2, FS_Injection
<1> QED  BY <1>3 DEF Surjection

\* The rows of a stretch of ranks are as many as the ranks that are taken.
LEMMA Stretch ==
    ASSUME RowsOK, NEW a \in Nat, NEW b \in Nat,
           a <= b, b <= Cardinality(rows)
    PROVE  Cardinality({r \in rows : Rank(r) \in a + 1 .. b}) = b - a
<1> DEFINE S == {r \in rows : Rank(r) \in a + 1 .. b}
           f == [r \in S |-> Rank(r)]
<1>1. f \in Injection(S, a + 1 .. b)
  BY RankInjective DEF Injection, IsInjective
<1>2. ASSUME NEW n \in a + 1 .. b PROVE \E r \in S : f[r] = n
  <2>1. n \in 1 .. Cardinality(rows)
    BY RankRange, FS_CardinalityType DEF RowsOK
  <2>2. PICK r \in rows : Rank(r) = n
    BY <2>1, RankOnto
  <2> QED  BY <2>2
<1>3. f \in Surjection(S, a + 1 .. b)
  BY <1>1, <1>2 DEF Injection, Surjection
<1>4. IsFiniteSet(a + 1 .. b) /\ Cardinality(a + 1 .. b) = b - a
  <2>1. a + 1 \in Int /\ b \in Int
    OBVIOUS
  <2>2. CASE a + 1 > b
    <3>1. Cardinality(a + 1 .. b) = 0 /\ IsFiniteSet(a + 1 .. b)
      BY <2>1, <2>2, FS_Interval
    <3> QED  BY <2>2, <3>1
  <2>3. CASE ~(a + 1 > b)
    <3>1. Cardinality(a + 1 .. b) = b - (a + 1) + 1 /\ IsFiniteSet(a + 1 .. b)
      BY <2>1, <2>3, FS_Interval
    <3> QED  BY <2>3, <3>1
  <2> QED  BY <2>2, <2>3
<1> QED  BY <1>1, <1>3, <1>4, FS_Injection

\* A page holds the rows of its ranks; one that comes short is the last.
LEMMA PageIs ==
    ASSUME RowsOK, NEW p \in Nat \ {0}, NEW n, n = (p - 1) * PageSize
    PROVE  /\ n \in Nat
           /\ PageRows(p) \in Seq(Row) /\ Len(PageRows(p)) \in 0 .. PageSize
           /\ \A i \in 1 .. Len(PageRows(p)) : PageRows(p)[i] \in rows /\ Rank(PageRows(p)[i]) = n + i
           /\ Len(PageRows(p)) < PageSize => Cardinality(rows) <= n + Len(PageRows(p))
<1> DEFINE N == Cardinality(rows)
           S == {r \in rows : Rank(r) \in n + 1 .. n + PageSize}
           m == Cardinality(S)
<1>1. PageSize \in Nat \ {0} /\ n \in Nat /\ N \in Nat
  BY ClientAssumption, FS_CardinalityType DEF RowsOK
<1>2. \A r \in rows : Rank(r) \in 1 .. N /\ Rank(r) \in Nat
  BY RankRange
<1>3. \A b \in Nat : n <= b /\ b <= N => Cardinality({r \in rows : Rank(r) \in n + 1 .. b}) = b - n
  BY <1>1, Stretch
<1>4. PageRows(p) = [i \in 1 .. m |-> CHOOSE r \in rows : Rank(r) = n + i]
  <2> DEFINE Of(k) == [i \in 1 .. Cardinality({r \in rows : Rank(r) \in k + 1 .. k + PageSize}) |->
                         CHOOSE r \in rows : Rank(r) = k + i]
  <2>1. PageRows(p) = Of((p - 1) * PageSize)
    BY Zenon DEF PageRows
  <2> HIDE DEF Of
  <2>2. Of((p - 1) * PageSize) = Of(n)
    OBVIOUS
  <2> QED  BY <2>1, <2>2, Zenon DEF Of
<1>5. m \in 0 .. PageSize /\ (m < PageSize => N <= n + m) /\ (n + m <= N \/ m = 0)
  <2>1. CASE n >= N
    <3>1. S = {}
      BY <1>1, <1>2, <2>1
    <3>2. m = 0
      BY <3>1, FS_EmptySet
    <3> HIDE DEF m, N
    <3> QED  BY <1>1, <2>1, <3>2
  <2>2. CASE n + PageSize <= N
    <3>1. n + PageSize \in Nat /\ n <= n + PageSize
      BY <1>1
    <3>2. m = (n + PageSize) - n
      BY <1>3, <2>2, <3>1
    <3> HIDE DEF m, N
    <3> QED  BY <1>1, <2>2, <3>2
  <2>3. CASE n < N /\ N < n + PageSize
    <3>1. S = {r \in rows : Rank(r) \in n + 1 .. N}
      BY <1>1, <1>2, <2>3
    <3>2. m = N - n
      BY <1>1, <1>3, <2>3, <3>1
    <3> HIDE DEF m, N
    <3> QED  BY <1>1, <2>3, <3>2
  <2> QED  BY <1>1, <2>1, <2>2, <2>3
<1> HIDE DEF m
<1>6. ASSUME NEW i \in 1 .. m
      PROVE  PageRows(p)[i] \in rows /\ Rank(PageRows(p)[i]) = n + i
  <2>1. n + i \in 1 .. N
    BY <1>1, <1>5
  <2>2. \E r \in rows : Rank(r) = n + i
    BY <2>1, RankOnto
  <2>3. PageRows(p)[i] = CHOOSE r \in rows : Rank(r) = n + i
    BY <1>4
  <2> QED  BY <2>2, <2>3
<1>7. PageRows(p) \in Seq(Row) /\ Len(PageRows(p)) = m
  <2>1. m \in Nat /\ \A i \in 1 .. m : PageRows(p)[i] \in Row
    BY <1>5, <1>6 DEF RowsOK
  <2> QED  BY <1>4, <2>1
<1> QED  BY <1>1, <1>5, <1>6, <1>7
-----------------------------------------------------------------------------
(* Induction over the naturals, with a set for the predicate.              *)

LEMMA LeastOf ==
    ASSUME NEW S, S \subseteq Nat, S # {}
    PROVE  \E x \in S : \A y \in S : x <= y
<1>1. \E x \in S : \A y \in S : ~(<<y, x>> \in OpToRel(<, Nat))
  BY NatLessThanWellFounded, WFMin
<1>2. PICK x \in S : \A y \in S : ~(<<y, x>> \in OpToRel(<, Nat))
  BY <1>1
<1>3. ASSUME NEW y \in S PROVE x <= y
  <2>1. x \in Nat /\ y \in Nat
    BY <1>2
  <2>2. y < x => <<y, x>> \in OpToRel(<, Nat)
    BY <2>1 DEF OpToRel
  <2>3. ~(y < x)
    BY <1>2, <2>2, Zenon
  <2> QED  BY <2>1, <2>3
<1> QED  BY <1>3

LEMMA SetInduction ==
    ASSUME NEW S, 0 \in S, \A n \in Nat : n \in S => n + 1 \in S
    PROVE  Nat \subseteq S
<1> DEFINE T == Nat \ S
<1> SUFFICES ASSUME T # {} PROVE FALSE
  OBVIOUS
<1> HIDE DEF T
<1>0. T \subseteq Nat
  BY DEF T
<1>1. PICK x \in T : \A y \in T : x <= y
  BY <1>0, LeastOf
<1>2. x # 0 /\ x - 1 \in T
  BY DEF T
<1> QED  BY <1>0, <1>1, <1>2
-----------------------------------------------------------------------------
(* The route of an output: Walk finds the holder where it rests.           *)

Receivers(T) == {t.to : t \in T}
Closed(s, T, H) == PaidOut(s, T) \subseteq H /\ \A x \in H : Onward(s, T, x) \subseteq H
Chain(T) == IsFiniteSet(T) /\ \A t \in T : t.to \notin {None, Several}

LEMMA ReceiversFew ==
    ASSUME NEW T, Chain(T)
    PROVE  /\ IsFiniteSet(Receivers(T)) /\ Cardinality(Receivers(T)) <= Cardinality(T)
           /\ Cardinality(T) \in Nat /\ Cardinality(Receivers(T)) \in Nat
<1> DEFINE f == [t \in T |-> t.to]
<1>1. f \in Surjection(T, Receivers(T))
  BY DEF Surjection, Receivers
<1> QED  BY <1>1, FS_Surjection, FS_CardinalityType DEF Chain

LEMMA HoldersAre ==
    ASSUME NEW s, NEW T
    PROVE  Holders(s, T) = {x \in Receivers(T) : \A H \in SUBSET Receivers(T) : Closed(s, T, H) => x \in H}
BY Zenon DEF Holders, Closed, Receivers

LEMMA OnwardIs ==
    ASSUME NEW s, NEW T, Chain(T), NEW x
    PROVE  /\ Onward(s, T, x) \subseteq Receivers(T) /\ PaidOut(s, T) \subseteq Receivers(T)
           /\ IsFiniteSet(Onward(s, T, x)) /\ Cardinality(Onward(s, T, x)) \in Nat
           /\ Several \notin Receivers(T) /\ None \notin Receivers(T)
<1>1. Onward(s, T, x) \subseteq Receivers(T) /\ PaidOut(s, T) \subseteq Receivers(T)
  BY DEF Onward, PaidOut, Receivers
<1>2. Several \notin Receivers(T) /\ None \notin Receivers(T)
  BY DEF Receivers, Chain
<1> QED  BY <1>1, <1>2, ReceiversFew, FS_Subset, FS_CardinalityType

LEMMA OnlyOne ==
    ASSUME NEW S, IsFiniteSet(S), S # {}, ~(Cardinality(S) > 1)
    PROVE  Cardinality(S) = 1 /\ \E x : S = {x}
<1>1. Cardinality(S) \in Nat /\ Cardinality(S) # 0
  BY FS_CardinalityType, FS_EmptySet
<1>2. Cardinality(S) = 1
  BY <1>1
<1> QED  BY <1>2, FS_Singleton

\* How far a walk from first is after n steps.
OnTheWay(s, T, first, n, w) ==
    /\ \E at, seen : w = [at |-> at, seen |-> seen]
    /\ w.seen \subseteq Receivers(T) /\ first \in w.seen /\ IsFiniteSet(w.seen)
    /\ \A H \in SUBSET Receivers(T) : Closed(s, T, H) => w.seen \subseteq H
    /\ w.at # Several =>
          /\ w.at \in w.seen
          /\ \A h \in w.seen \ {w.at} : Cardinality(Onward(s, T, h)) = 1 /\ Onward(s, T, h) \subseteq w.seen
          /\ Cardinality(w.seen) = n + 1 \/ Onward(s, T, w.at) = {}
    /\ w.at = Several =>
          \/ \E h \in w.seen : Cardinality(Onward(s, T, h)) > 1
          \/ \A h \in w.seen : Onward(s, T, h) # {} /\ Onward(s, T, h) \subseteq w.seen

LEMMA FollowGoes ==
    ASSUME NEW s, NEW T, Chain(T), NEW first, PaidOut(s, T) = {first}, NEW n \in Nat,
           NEW w, OnTheWay(s, T, first, n, w)
    PROVE  OnTheWay(s, T, first, n + 1, Follow(s, T, w))
<1>0. PICK at, seen : w = [at |-> at, seen |-> seen]
  BY DEF OnTheWay
<1> DEFINE next == Onward(s, T, at)
<1>1. /\ seen \subseteq Receivers(T) /\ first \in seen /\ IsFiniteSet(seen)
      /\ \A H \in SUBSET Receivers(T) : Closed(s, T, H) => seen \subseteq H
      /\ at # Several =>
          /\ at \in seen
          /\ \A h \in seen \ {at} : Cardinality(Onward(s, T, h)) = 1 /\ Onward(s, T, h) \subseteq seen
          /\ Cardinality(seen) = n + 1 \/ Onward(s, T, at) = {}
      /\ at = Several =>
          \/ \E h \in seen : Cardinality(Onward(s, T, h)) > 1
          \/ \A h \in seen : Onward(s, T, h) # {} /\ Onward(s, T, h) \subseteq seen
  BY <1>0 DEF OnTheWay
<1>2. next \subseteq Receivers(T) /\ IsFiniteSet(next) /\ Cardinality(next) \in Nat
  BY OnwardIs
<1>3. Follow(s, T, w) =
        IF at = Several \/ next = {} THEN [at |-> at, seen |-> seen]
        ELSE IF next \cap seen # {} \/ Cardinality(next) > 1 THEN [at |-> Several, seen |-> seen]
        ELSE [at |-> CHOOSE x \in next : TRUE, seen |-> seen \cup next]
  BY <1>0 DEF Follow
<1> HIDE DEF next
<1>4. CASE at = Several \/ next = {}
  <2>1. OnTheWay(s, T, first, n + 1, [at |-> at, seen |-> seen])
    BY <1>1, <1>4 DEF OnTheWay, next
  <2> QED  BY <1>3, <1>4, <2>1
<1>5. CASE at # Several /\ next # {} /\ (next \cap seen # {} \/ Cardinality(next) > 1)
  <2>1. \/ \E h \in seen : Cardinality(Onward(s, T, h)) > 1
        \/ \A h \in seen : Onward(s, T, h) # {} /\ Onward(s, T, h) \subseteq seen
    <3>1. CASE Cardinality(next) > 1
      BY <1>1, <1>5, <3>1 DEF next
    <3>2. CASE ~(Cardinality(next) > 1)
      <4>1. next \subseteq seen
        BY <1>2, <1>5, <3>2, OnlyOne
      <4>2. ASSUME NEW h \in seen PROVE Onward(s, T, h) # {} /\ Onward(s, T, h) \subseteq seen
        <5>1. CASE h = at
          BY <1>5, <4>1, <5>1 DEF next
        <5>2. CASE h # at
          BY <1>1, <1>5, <5>2, FS_EmptySet
        <5> QED  BY <5>1, <5>2
      <4> QED  BY <4>2
    <3> QED  BY <3>1, <3>2
  <2>2. OnTheWay(s, T, first, n + 1, [at |-> Several, seen |-> seen])
    BY <1>1, <2>1 DEF OnTheWay
  <2> QED  BY <1>3, <1>5, <2>2
<1>6. CASE at # Several /\ next # {} /\ next \cap seen = {} /\ ~(Cardinality(next) > 1)
  <2>1. PICK y : next = {y}
    BY <1>2, <1>6, OnlyOne
  <2>2. (CHOOSE x \in next : TRUE) = y
    BY <2>1
  <2> DEFINE e == seen \cup {y}
  <2>3. e \subseteq Receivers(T) /\ first \in e /\ IsFiniteSet(e) /\ y # Several /\ y \in e
    BY <1>1, <1>2, <2>1, FS_AddElement, OnwardIs
  <2>4. ASSUME NEW H \in SUBSET Receivers(T), Closed(s, T, H) PROVE e \subseteq H
    BY <1>1, <1>6, <2>1, <2>4 DEF Closed, next
  <2>5. Cardinality(e) = n + 2
    <3>1. Cardinality(seen) = n + 1
      BY <1>1, <1>6 DEF next
    <3>2. y \notin seen
      BY <1>6, <2>1
    <3>3. Cardinality(e) = Cardinality(seen) + 1
      BY <1>1, <3>2, FS_AddElement
    <3> QED  BY <3>1, <3>3
  <2>6. ASSUME NEW h \in e \ {y} PROVE Cardinality(Onward(s, T, h)) = 1 /\ Onward(s, T, h) \subseteq e
    <3>1. CASE h = at
      <4>1. Onward(s, T, h) = {y} /\ Cardinality({y}) = 1
        BY <2>1, <3>1, FS_Singleton DEF next
      <4> QED  BY <4>1
    <3>2. CASE h # at
      BY <1>1, <1>6, <2>6, <3>2
    <3> QED  BY <3>1, <3>2
  <2> HIDE DEF e
  <2>7. n + 2 = n + 1 + 1
    OBVIOUS
  <2>8. OnTheWay(s, T, first, n + 1, [at |-> y, seen |-> e])
    BY <2>3, <2>4, <2>5, <2>6, <2>7 DEF OnTheWay
  <2>9. Follow(s, T, w) = [at |-> y, seen |-> e]
    BY <1>3, <1>6, <2>1, <2>2 DEF e
  <2> QED  BY <2>8, <2>9
<1> QED  BY <1>4, <1>5, <1>6

LEMMA WalkEnds ==
    ASSUME NEW s, NEW T, Chain(T), NEW first, PaidOut(s, T) = {first}
    PROVE  \E w : Walk(s, T, first) = w.at /\ OnTheWay(s, T, first, Cardinality(T), w)
<1> DEFINE N == Cardinality(T)
           start == [at |-> first, seen |-> {first}]
           Fix(f) == f = [n \in 0 .. N |-> IF n = 0 THEN start ELSE Follow(s, T, f[n - 1])]
           walk == CHOOSE f : Fix(f)
<1>1. N \in Nat
  BY ReceiversFew
<1>2. Walk(s, T, first) = walk[N].at
  BY DEF Walk
<1>3. \E f : Fix(f)
  <2> DEFINE R == Receivers(T)
             V == [at : R \cup {Several}, seen : SUBSET R]
             Upto(f, m) == /\ f \in [0 .. m -> V] /\ f[0] = start
                           /\ \A n \in 1 .. m : f[n] = Follow(s, T, f[n - 1])
             S == {m \in Nat : \E f : Upto(f, m)}
  <2>0. start \in V /\ \A w \in V : Follow(s, T, w) \in V
    <3>1. first \in R
      BY OnwardIs
    <3>2. ASSUME NEW w \in V PROVE Follow(s, T, w) \in V
      <4>1. Onward(s, T, w.at) \subseteq R
        BY OnwardIs
      <4> HIDE DEF R
      <4>2. Onward(s, T, w.at) # {} => (CHOOSE x \in Onward(s, T, w.at) : TRUE) \in R
        BY <4>1
      <4> QED  BY <4>1, <4>2 DEF Follow
    <3> QED  BY <3>1, <3>2
  <2> HIDE DEF V, start
  <2>1. 0 \in S
    <3>1. Upto([n \in 0 .. 0 |-> start], 0)
      BY <2>0
    <3> QED  BY <3>1, Zenon
  <2>2. ASSUME NEW m \in Nat, m \in S PROVE m + 1 \in S
    <3>1. PICK f : Upto(f, m)
      BY <2>2
    <3> DEFINE g == [n \in 0 .. m + 1 |-> IF n <= m THEN f[n] ELSE Follow(s, T, f[m])]
    <3>2. /\ g \in [0 .. m + 1 -> V]
          /\ \A n \in 0 .. m : g[n] = f[n]
          /\ g[0] = f[0] /\ g[m + 1] = Follow(s, T, f[m])
      BY <2>0, <3>1
    <3> HIDE DEF g
    <3>3. ASSUME NEW n \in 1 .. m + 1 PROVE g[n] = Follow(s, T, g[n - 1])
      <4>1. n - 1 \in 0 .. m /\ (n = m + 1 \/ (n \in 1 .. m /\ n \in 0 .. m))
        OBVIOUS
      <4>2. CASE n = m + 1
        <5>1. n - 1 = m
          BY <4>2
        <5> QED  BY <3>2, <4>1, <4>2, <5>1
      <4>3. CASE n \in 1 .. m /\ n \in 0 .. m
        BY <3>1, <3>2, <4>1, <4>3
      <4> QED  BY <4>1, <4>2, <4>3
    <3>4. Upto(g, m + 1)
      BY <3>1, <3>2, <3>3
    <3>5. m + 1 \in Nat
      OBVIOUS
    <3> HIDE DEF Upto
    <3> QED  BY <3>4, <3>5, Zenon
  <2> HIDE DEF S
  <2>3. Nat \subseteq S
    BY <2>1, <2>2, SetInduction
  <2>4. PICK f : Upto(f, N)
    BY <1>1, <2>3 DEF S
  <2>5. Fix(f)
    BY <1>1, <2>4
  <2> QED  BY <2>5
<1>4. walk = [n \in 0 .. N |-> IF n = 0 THEN start ELSE Follow(s, T, walk[n - 1])]
  BY <1>3, Zenon
<1> HIDE DEF walk
<1> DEFINE At(n) == OnTheWay(s, T, first, n, walk[n])
           S == {n \in Nat : n <= N => At(n)}
<1>5. At(0)
  <2>1. first \in Receivers(T) /\ IsFiniteSet({first}) /\ Cardinality({first}) = 1 /\ first # Several
    BY OnwardIs, FS_Singleton
  <2>2. OnTheWay(s, T, first, 0, start)
    BY <2>1 DEF OnTheWay, Closed
  <2>3. walk[0] = start
    BY <1>1, <1>4
  <2> QED  BY <2>2, <2>3
<1>6. ASSUME NEW n \in Nat, n + 1 <= N, At(n) PROVE At(n + 1)
  <2>1. n + 1 \in 0 .. N /\ n + 1 # 0 /\ n + 1 - 1 = n
    BY <1>1, <1>6
  <2>2. walk[n + 1] = Follow(s, T, walk[n])
    <3> DEFINE k == n + 1
    <3>1. walk[k] = IF k = 0 THEN start ELSE Follow(s, T, walk[k - 1])
      BY <1>4, <2>1, Zenon
    <3> QED  BY <2>1, <3>1
  <2>3. OnTheWay(s, T, first, n + 1, Follow(s, T, walk[n]))
    BY <1>6, FollowGoes
  <2> QED  BY <2>2, <2>3
<1> HIDE DEF At, N
<1>7. \A n \in Nat : n \in S => n + 1 \in S
  <2> SUFFICES ASSUME NEW n \in Nat, n \in S, n + 1 <= N PROVE At(n + 1)
    OBVIOUS
  <2>1. n <= N
    BY <1>1
  <2> QED  BY <1>6, <2>1
<1>8. 0 \in S
  BY <1>5
<1> HIDE DEF S
<1>9. N \in S
  BY <1>1, <1>7, <1>8, SetInduction
<1>10. At(N)
  BY <1>1, <1>9 DEF S
<1> QED  BY <1>2, <1>10 DEF N, At

\* The walk ends at the holder where the output rests, when there is one, and
\* says so when there is none.
LEMMA WalkRests ==
    ASSUME NEW s, NEW T, Chain(T), NEW first, PaidOut(s, T) = {first}
    PROVE  LET x == Walk(s, T, first)
           IN /\ x # Several => x \in Receivers(T) /\ RestsAt(s, T, x)
              /\ \A y : RestsAt(s, T, y) => x = y
<1> DEFINE On(h) == Onward(s, T, h)
<1>1. PICK w : Walk(s, T, first) = w.at /\ OnTheWay(s, T, first, Cardinality(T), w)
  BY WalkEnds
<1> DEFINE a == w.at
           seen == w.seen
<1>2. /\ seen \subseteq Receivers(T) /\ first \in seen /\ IsFiniteSet(seen)
      /\ \A H \in SUBSET Receivers(T) : Closed(s, T, H) => seen \subseteq H
      /\ a # Several =>
          /\ a \in seen
          /\ \A h \in seen \ {a} : Cardinality(On(h)) = 1 /\ On(h) \subseteq seen
          /\ Cardinality(seen) = Cardinality(T) + 1 \/ On(a) = {}
      /\ a = Several =>
          \/ \E h \in seen : Cardinality(On(h)) > 1
          \/ \A h \in seen : On(h) # {} /\ On(h) \subseteq seen
  BY <1>1 DEF OnTheWay
<1>0. Walk(s, T, first) = a
  BY <1>1
<1> HIDE DEF a, seen
<1>3. seen \subseteq Holders(s, T)
  BY <1>2, HoldersAre
<1>4. (\A h \in seen : On(h) \subseteq seen) => Holders(s, T) = seen
  <2> SUFFICES ASSUME \A h \in seen : On(h) \subseteq seen PROVE Holders(s, T) \subseteq seen
    BY <1>3
  <2>1. Closed(s, T, seen)
    BY <1>2 DEF Closed
  <2> QED  BY <1>2, <2>1, HoldersAre
<1>5. Cardinality(seen) <= Cardinality(T) /\ Cardinality(T) \in Nat /\ Cardinality(seen) \in Nat
  <2>1. /\ IsFiniteSet(Receivers(T)) /\ Cardinality(Receivers(T)) <= Cardinality(T)
        /\ Cardinality(T) \in Nat /\ Cardinality(Receivers(T)) \in Nat
    BY ReceiversFew
  <2>2. Cardinality(seen) <= Cardinality(Receivers(T)) /\ Cardinality(seen) \in Nat
    BY <1>2, <2>1, FS_Subset, FS_CardinalityType
  <2> QED  BY <2>1, <2>2
<1>6. CASE a # Several
  <2>1. On(a) = {}
    BY <1>2, <1>5, <1>6
  <2>2. Holders(s, T) = seen
    BY <1>2, <1>4, <1>6, <2>1
  <2>3. \A h \in seen \ {a} : Cardinality(On(h)) = 1 /\ On(h) # {}
    BY <1>2, <1>6, FS_EmptySet
  <2>4. Cardinality(On(a)) = 0
    BY <2>1, FS_EmptySet
  <2> HIDE DEF On
  <2>5. {h \in seen : On(h) = {}} = {a} /\ \A h \in seen : Cardinality(On(h)) <= 1
    BY <1>2, <1>6, <2>1, <2>3, <2>4
  <2>6. RestsAt(s, T, a) /\ \A y : RestsAt(s, T, y) => {a} = {y}
    BY <2>2, <2>5 DEF RestsAt, On
  <2> QED  BY <1>0, <1>2, <1>6, <2>6
<1>7. CASE a = Several
  <2> SUFFICES ASSUME NEW y, RestsAt(s, T, y) PROVE FALSE
    BY <1>0, <1>7
  <2>1. /\ {h \in Holders(s, T) : On(h) = {}} = {y}
        /\ \A h \in Holders(s, T) : Cardinality(On(h)) <= 1
    BY DEF RestsAt
  <2>2. \A h \in seen : Cardinality(On(h)) \in Nat /\ ~(Cardinality(On(h)) > 1)
    BY <1>3, <2>1, OnwardIs
  <2>3. \A h \in seen : On(h) # {} /\ On(h) \subseteq seen
    BY <1>2, <1>7, <2>2
  <2> QED  BY <1>4, <2>1, <2>3
<1> QED  BY <1>6, <1>7

\* What resolveOutput returns.
LEMMA ResolveIs ==
    ASSUME NEW s, NEW T, Chain(T), NEW x, x = ResolveOutput(s, T)
    PROVE  /\ x \in Receivers(T) \cup {None, Several}
           /\ x \notin {None, Several} => RestsAt(s, T, x)
           /\ Cardinality(PaidOut(s, T)) = 1 => \A y : RestsAt(s, T, y) => x = y
<1>1. None # Several
  BY DEF None, Several
<1>2. IsFiniteSet(PaidOut(s, T))
  BY OnwardIs, ReceiversFew, FS_Subset
<1>3. CASE PaidOut(s, T) = {}
  <2>1. x = None
    BY <1>3 DEF ResolveOutput
  <2>2. Cardinality(PaidOut(s, T)) = 0
    BY <1>3, FS_EmptySet
  <2> QED  BY <2>1, <2>2
<1>4. CASE PaidOut(s, T) # {} /\ Cardinality(PaidOut(s, T)) > 1
  <2>1. x = Several
    BY <1>4 DEF ResolveOutput
  <2>2. Cardinality(PaidOut(s, T)) # 1
    BY <1>4
  <2> QED  BY <2>1, <2>2
<1>5. CASE PaidOut(s, T) # {} /\ ~(Cardinality(PaidOut(s, T)) > 1)
  <2>1. PICK first : PaidOut(s, T) = {first}
    BY <1>2, <1>5, OnlyOne
  <2>2. x = Walk(s, T, first)
    <3>1. (CHOOSE z \in PaidOut(s, T) : TRUE) = first
      BY <2>1
    <3> QED  BY <1>5, <3>1 DEF ResolveOutput
  <2> QED  BY <2>1, <2>2, WalkRests
<1> QED  BY <1>3, <1>4, <1>5
-----------------------------------------------------------------------------
(* The requests of the callers *)

Underway == {"queued", "sent", "backoff"}

CallOK(k) ==
    /\ k \in Calls
    /\ k.at # "idle" => k.ask \in Asks /\ k.page # 0
    /\ k.at = "done" => k.out \in Results
ClientOK == queue \in Seq(Callers) /\ QueueOK /\ call \in [Callers -> Calls] /\ \A c \in Callers : CallOK(call[c])

\* No request is begun.
NoneBegun == \A c \in Callers : call'[c].at \in Underway => call[c].at \in Underway

LEMMA CallChanges ==
    ASSUME ClientOK, NEW c \in Callers, NEW k, CallOK(k), call' = [call EXCEPT ![c] = k]
    PROVE  /\ call' \in [Callers -> Calls] /\ \A d \in Callers : CallOK(call'[d])
           /\ call'[c] = k /\ Only(c)
           /\ (k.at \in Underway => call[c].at \in Underway) => NoneBegun
<1>1. call \in [Callers -> Calls] /\ \A d \in Callers : CallOK(call[d])
  BY DEF ClientOK
<1>2. call'[c] = k /\ \A d \in Callers \ {c} : call'[d] = call[d]
  BY <1>1
<1>3. call' \in [Callers -> Calls]
  BY <1>1 DEF CallOK
<1> QED  BY <1>1, <1>2, <1>3 DEF Only, NoneBegun

LEMMA IdleOK == CallOK(Idle) /\ Idle.at = "idle"
BY ClientAssumption, EmptySeq DEF CallOK, Calls, Idle, Results

LEMMA AskOK ==
    ASSUME ClientOK, rows \subseteq Row, NEW c \in Callers, NEW ask \in Asks, NEW limit \in Nat,
           call[c].at # "queued", Ask(c, ask, limit)
    PROVE  ClientOK' /\ Only(c)
<1> DEFINE k == [Idle EXCEPT !.at = "queued", !.ask = ask, !.limit = limit, !.page = 1, !.before = rows]
<1>1. CallOK(k) /\ k.at = "queued"
  <2>1. 1 \in 0 .. MaxPages /\ 1 # 0 /\ Idle \in Calls
    BY IdleOK, ClientAssumption DEF CallOK
  <2> QED  BY <2>1 DEF CallOK, Calls
<1>2. call' = [call EXCEPT ![c] = k] /\ queue' = Append(queue, c)
  BY DEF Ask
<1> HIDE DEF k
<1>3. /\ call' \in [Callers -> Calls] /\ \A d \in Callers : CallOK(call'[d])
      /\ call'[c] = k /\ Only(c)
  BY <1>1, <1>2, CallChanges
<1>4. queue' \in Seq(Callers) /\ QueueOK'
  BY <1>1, <1>2, <1>3, Joins DEF ClientOK
<1> QED  BY <1>3, <1>4 DEF ClientOK, CallOK

LEMMA RestedOK ==
    ASSUME ClientOK, NEW c \in Callers, call[c].at # "queued", Rested(c)
    PROVE  ClientOK' /\ Only(c) /\ call'[c].at = "idle"
<1>1. call' = [call EXCEPT ![c] = Idle] /\ UNCHANGED queue
  BY DEF Rested
<1>2. /\ call' \in [Callers -> Calls] /\ \A d \in Callers : CallOK(call'[d])
      /\ call'[c] = Idle /\ Only(c)
  BY <1>1, IdleOK, CallChanges
<1>3. queue' \in Seq(Callers) /\ QueueOK'
  BY <1>1, <1>2, IdleOK, StaysAway DEF ClientOK
<1> QED  BY <1>2, <1>3, IdleOK DEF ClientOK, CallOK

LEMMA GrantOK ==
    ASSUME ClientOK, Grant
    PROVE  ClientOK' /\ NoneBegun
<1> DEFINE c == Head(queue)
           k == [call[c] EXCEPT !.at = "sent"]
<1>1. queue # <<>> /\ c \in Callers /\ Queued(c)
  <2>1. queue # <<>> /\ queue \in Seq(Callers)
    BY DEF Grant, ClientOK
  <2>2. c = queue[1] /\ 1 \in DOMAIN queue
    BY <2>1
  <2> QED  BY <2>1, <2>2 DEF Queued
<1>2. call' = [call EXCEPT ![c] = k] /\ queue' = Tail(queue)
  BY DEF Grant
<1>3. call[c].at = "queued" /\ CallOK(call[c])
  BY <1>1 DEF ClientOK, QueueOK
<1> HIDE DEF c
<1>4. CallOK(k) /\ k.at = "sent"
  BY <1>3 DEF CallOK, Calls
<1> HIDE DEF k
<1>5. /\ call' \in [Callers -> Calls] /\ \A d \in Callers : CallOK(call'[d])
      /\ call'[c] = k /\ Only(c) /\ NoneBegun
  BY <1>1, <1>2, <1>3, <1>4, CallChanges DEF Underway
<1>6. queue' \in Seq(Callers) /\ QueueOK'
  BY <1>1, <1>2, <1>4, <1>5, HeadGoes DEF ClientOK, c
<1> QED  BY <1>5, <1>6 DEF ClientOK, CallOK

\* A request that ends, here with out.
LEMMA EndedOK ==
    ASSUME ClientOK, rows \subseteq Row, NEW c \in Callers, call[c].at \in Underway,
           NEW out \in Results, Ended(c, out), queue' = Leaves(c)
    PROVE  ClientOK' /\ NoneBegun
<1> DEFINE k == [call[c] EXCEPT !.at = "done", !.out = out, !.after = rows]
<1>1. call \in [Callers -> Calls] /\ CallOK(call[c])
  BY DEF ClientOK
<1>2. call' = [call EXCEPT ![c] = k]
  BY <1>1 DEF Ended
<1>3. CallOK(k) /\ k.at = "done"
  BY <1>1 DEF CallOK, Calls, Underway
<1> HIDE DEF k
<1>4. /\ call' \in [Callers -> Calls] /\ \A d \in Callers : CallOK(call'[d])
      /\ call'[c] = k /\ Only(c) /\ NoneBegun
  BY <1>2, <1>3, CallChanges
<1>5. queue' \in Seq(Callers) /\ QueueOK'
  BY <1>3, <1>4, GoesAway DEF ClientOK
<1> QED  BY <1>4, <1>5 DEF ClientOK, CallOK

LEMMA NotQueued ==
    ASSUME NEW c, call[c].at # "queued" PROVE Leaves(c) = queue
BY DEF Leaves

LEMMA CancelOK ==
    ASSUME ClientOK, rows \subseteq Row, NEW c \in Callers, Cancel(c)
    PROVE  ClientOK' /\ NoneBegun
BY EndedOK DEF Cancel, Underway, Results

LEMMA RefuseOK ==
    ASSUME ClientOK, rows \subseteq Row, NEW c \in Callers, Refuse(c)
    PROVE  ClientOK' /\ NoneBegun
<1>1. PICK out \in {"refused", "malformed"} : Ended(c, out)
  BY DEF Refuse
<1> QED  BY <1>1, EndedOK, NotQueued DEF Refuse, Underway, Results

LEMMA AnswerOneOK ==
    ASSUME ClientOK, rows \subseteq Row, NEW c \in Callers, AnswerOne(c)
    PROVE  ClientOK' /\ NoneBegun
<1>1. One(call[c].ask) \in Results
  BY DEF One, Results
<1> QED  BY <1>1, EndedOK, NotQueued DEF AnswerOne, Underway

\* A request that goes on: into the pause, or back to the limiter.
LEMMA GoesOn ==
    ASSUME ClientOK, NEW c \in Callers, call[c].at \in {"sent", "backoff"}, NEW k, CallOK(k),
           call' = [call EXCEPT ![c] = k],
           \/ k.at = "queued" /\ queue' = Append(queue, c)
           \/ k.at \in {"backoff", "done"} /\ queue' = queue
    PROVE  ClientOK' /\ NoneBegun
<1>1. /\ call' \in [Callers -> Calls] /\ \A d \in Callers : CallOK(call'[d])
      /\ call'[c] = k /\ Only(c) /\ NoneBegun
  BY CallChanges DEF Underway
<1>2. queue' \in Seq(Callers) /\ QueueOK'
  BY <1>1, Joins, StaysAway DEF ClientOK
<1> QED  BY <1>1, <1>2 DEF ClientOK, CallOK

LEMMA UnavailableOK ==
    ASSUME ClientOK, rows \subseteq Row, NEW c \in Callers, Unavailable(c)
    PROVE  ClientOK' /\ NoneBegun
<1>1. call \in [Callers -> Calls] /\ CallOK(call[c]) /\ call[c].at = "sent" /\ UNCHANGED queue
  BY DEF ClientOK, Unavailable
<1>2. CASE call[c].tries < MaxRetries
  <2> DEFINE k == [call[c] EXCEPT !.at = "backoff", !.tries = @ + 1]
  <2>1. call' = [call EXCEPT ![c] = k]
    BY <1>1, <1>2 DEF Unavailable, Retry
  <2>2. call[c].tries + 1 \in 0 .. MaxRetries
    BY <1>1, <1>2, ClientAssumption DEF CallOK, Calls
  <2>3. CallOK(k) /\ k.at = "backoff"
    BY <1>1, <2>2 DEF CallOK, Calls
  <2> HIDE DEF k
  <2> QED  BY <1>1, <2>1, <2>3, GoesOn
<1>3. CASE ~(call[c].tries < MaxRetries)
  <2>1. Ended(c, "unavailable") /\ "unavailable" \in Results
    BY <1>3 DEF Unavailable, Retry, Results
  <2> QED  BY <1>1, <2>1, EndedOK, NotQueued DEF Underway
<1> QED  BY <1>2, <1>3

LEMMA WakeUpOK ==
    ASSUME ClientOK, NEW c \in Callers, WakeUp(c)
    PROVE  ClientOK' /\ NoneBegun
<1> DEFINE k == [call[c] EXCEPT !.at = "queued"]
<1>1. call \in [Callers -> Calls] /\ CallOK(call[c]) /\ call[c].at = "backoff"
  BY DEF ClientOK, WakeUp
<1>2. call' = [call EXCEPT ![c] = k] /\ queue' = Append(queue, c)
  BY <1>1 DEF WakeUp
<1>3. CallOK(k) /\ k.at = "queued"
  BY <1>1 DEF CallOK, Calls
<1> HIDE DEF k
<1> QED  BY <1>1, <1>2, <1>3, GoesOn

LEMMA AnswerPageOK ==
    ASSUME ClientOK, RowsOK, NEW c \in Callers, AnswerPage(c)
    PROVE  ClientOK' /\ NoneBegun
<1> DEFINE page == PageRows(call[c].page)
           raw == call[c].raw \o page
           out == PageOutcome(call[c], page, raw)
<1>1. call \in [Callers -> Calls] /\ CallOK(call[c]) /\ call[c].at = "sent"
  BY DEF ClientOK, AnswerPage
<1>2. /\ call[c].raw \in Seq(Row) /\ call[c].page \in Nat \ {0} /\ call[c].page <= MaxPages
      /\ MaxPages \in Nat
  BY <1>1, ClientAssumption DEF CallOK, Calls
<1>3. page \in Seq(Row)
  BY <1>2, PageIs
<1>4. raw \in Seq(Row) /\ rows \subseteq Row
  BY <1>2, <1>3 DEF RowsOK
<1>5. out \in Results \cup {"more"} /\ (out = "more" => call[c].page # MaxPages)
  BY DEF PageOutcome, Results
<1> HIDE DEF page, raw, out
<1>6. CASE out = "more"
  <2> DEFINE k == [call[c] EXCEPT !.at = "queued", !.page = @ + 1, !.tries = 0, !.raw = raw]
  <2>1. call' = [call EXCEPT ![c] = k] /\ queue' = Append(queue, c)
    BY <1>1, <1>6 DEF AnswerPage, page, raw, out
  <2>2. call[c].page + 1 \in 0 .. MaxPages /\ call[c].page + 1 # 0 /\ 0 \in 0 .. MaxRetries
    BY <1>2, <1>5, <1>6, ClientAssumption
  <2>3. CallOK(k) /\ k.at = "queued"
    BY <1>1, <1>4, <2>2 DEF CallOK, Calls
  <2> HIDE DEF k
  <2> QED  BY <1>1, <2>1, <2>3, GoesOn
<1>7. CASE out # "more"
  <2> DEFINE k == [call[c] EXCEPT !.at = "done", !.out = out, !.raw = raw, !.after = rows]
  <2>1. call' = [call EXCEPT ![c] = k] /\ UNCHANGED queue
    BY <1>1, <1>7 DEF AnswerPage, page, raw, out
  <2>2. CallOK(k) /\ k.at = "done"
    BY <1>1, <1>4, <1>5, <1>7 DEF CallOK, Calls
  <2> HIDE DEF k
  <2> QED  BY <1>1, <2>1, <2>2, GoesOn
<1> QED  BY <1>6, <1>7
-----------------------------------------------------------------------------
(* What an analysis concludes from its evidence *)

LEMMA FinalIs ==
    ASSUME NEW S, NEW swaps \in Seq(S), NEW V, V \subseteq DOMAIN swaps, NEW T, Chain(T),
           NEW x, x = FinalOutput(swaps, V, T)
    PROVE  /\ x # None => /\ x \in Receivers(T) /\ x \notin Official /\ V = DOMAIN swaps /\ swaps # <<>>
                          /\ Joined(swaps) /\ Ends(swaps, T, x)
           /\ V = DOMAIN swaps /\ Joined(swaps) /\ Clear(swaps, T) => \E y \in Official \cup {x} : Ends(swaps, T, y)
<1> DEFINE n == Len(swaps)
           out(i) == ResolveOutput(swaps[i], T)
           Unclear == \/ V = {} \/ (\E i \in V : out(i) = Several) \/ Broken(swaps, V)
                      \/ V # DOMAIN swaps \/ out(LastOf(V)) \in Official \cup {None}
<1>1. n \in Nat /\ DOMAIN swaps = 1 .. n
  OBVIOUS
<1>2. x = IF Unclear THEN None ELSE out(LastOf(V))
  BY Zenon DEF FinalOutput
<1>3. ASSUME V = DOMAIN swaps, V # {}
      PROVE  n \in V /\ LastOf(V) = n /\ (Broken(swaps, V) <=> ~Joined(swaps)) /\ swaps # <<>>
  <2>1. n \in V /\ n >= 1 /\ swaps # <<>>
    BY <1>1, <1>3
  <2>2. LastOf(V) = n
    BY <1>1, <1>3, <2>1 DEF LastOf
  <2>3. ASSUME NEW i \in 1 .. n - 1 PROVE NextOf(V, i) = i + 1
    <3>1. i + 1 \in V /\ i + 1 > i /\ \A k \in V : k > i => i + 1 <= k
      BY <1>1, <1>3
    <3>2. \A j \in V : j > i /\ (\A k \in V : k > i => j <= k) => j = i + 1
      BY <1>1, <1>3, <3>1
    <3> QED  BY <3>1, <3>2 DEF NextOf
  <2>4. V \ {n} = 1 .. n - 1
    BY <1>1, <1>3, <2>1
  <2>5. Broken(swaps, V) <=> \E i \in 1 .. n - 1 : swaps[i].tokenOut # swaps[i + 1].tokenIn
    BY <2>2, <2>3, <2>4 DEF Broken
  <2> QED  BY <2>1, <2>2, <2>5 DEF Joined
<1> HIDE DEF Unclear
<1>4. ASSUME x # None
      PROVE  /\ x \in Receivers(T) /\ x \notin Official /\ V = DOMAIN swaps /\ swaps # <<>>
             /\ Joined(swaps) /\ Ends(swaps, T, x)
  <2>1. ~Unclear /\ x = out(LastOf(V))
    BY <1>2, <1>4
  <2>2. V = DOMAIN swaps /\ V # {} /\ ~Broken(swaps, V) /\ x \notin Official /\ \A i \in V : out(i) # Several
    BY <2>1 DEF Unclear
  <2>3. x = ResolveOutput(swaps[n], T) /\ x # Several /\ Joined(swaps) /\ swaps # <<>>
    BY <1>3, <2>1, <2>2
  <2> QED  BY <1>4, <2>2, <2>3, ResolveIs DEF Ends
<1>5. ASSUME V = DOMAIN swaps, Joined(swaps), Clear(swaps, T)
      PROVE  \E y \in Official \cup {x} : Ends(swaps, T, y)
  <2>1. V # {} /\ n \in V /\ LastOf(V) = n /\ ~Broken(swaps, V)
    <3>1. V # {}
      BY <1>1, <1>5 DEF Clear
    <3> QED  BY <1>3, <1>5, <3>1
  <2>2. ASSUME NEW i \in V PROVE out(i) \in Receivers(T) /\ RestsAt(swaps[i], T, out(i))
    <3>1. Cardinality(PaidOut(swaps[i], T)) = 1
      BY <1>5 DEF Clear
    <3>2. PICK y \in Receivers(T) : RestsAt(swaps[i], T, y)
      BY <1>5 DEF Clear, Receivers
    <3>3. out(i) = y
      BY <3>1, <3>2, ResolveIs
    <3> QED  BY <3>2, <3>3
  <2>3. \A i \in V : out(i) # Several /\ out(i) # None
    BY <2>2, OnwardIs
  <2>4. Ends(swaps, T, out(n))
    BY <2>1, <2>2 DEF Ends
  <2>5. CASE out(n) \in Official
    BY <2>4, <2>5
  <2>6. CASE out(n) \notin Official
    <3>1. ~Unclear
      BY <1>5, <2>1, <2>3, <2>6 DEF Unclear
    <3>2. x = out(n)
      BY <1>2, <2>1, <3>1
    <3> QED  BY <2>4, <3>2
  <2> QED  BY <2>5, <2>6
<1> QED  BY <1>4, <1>5

LEMMA RfqIs ==
    ASSUME NEW initiator, NEW T, NEW wraps, NEW C, NEW x, x = RfqRecipient(initiator, T, wraps, C), x # None
    PROVE  Converted(x, T, C) /\ \E c \in C : x = c.to
<1> DEFINE found == Candidates(initiator, T, wraps, C)
           t == CHOOSE u \in found : TRUE
           got == Recipients(C, t[3].amount)
           c == CHOOSE d \in got : TRUE
<1>1. (\A d \in C : ~d.failed) /\ Cardinality(found) = 1 /\ x = c.to
  BY DEF RfqRecipient
<1>2. t \in found
  BY <1>1, FS_EmptySet
<1>3. /\ t[3] \in T /\ t[3].token = Weth /\ t[3].to = Executor /\ Cardinality(got) = 1
  BY <1>2 DEF Candidates
<1>4. c \in got
  <2>1. got # {}
    BY <1>3, FS_EmptySet
  <2> HIDE DEF got
  <2> QED  BY <2>1
<1>5. c \in C /\ ~c.failed /\ c.from = Executor /\ c.amount = t[3].amount
  BY <1>4 DEF Recipients
<1> QED  BY <1>1, <1>3, <1>5 DEF Converted

LEMMA MadeIs ==
    ASSUME NEW claim, NEW T, NEW C, Paid(claim, T, C)
    PROVE  Made(claim, T, C)
BY DEF Paid, Made, HasCall
-----------------------------------------------------------------------------
(* The evidence of one caller *)

JobOK(t, f, r, j) ==
    /\ j \in Jobs /\ Len(j.known) <= Len(t.swaps)
    /\ r = "analyze" => j.step # "code" /\ j.answer \in {NoAnalysis} \cup Analysis
    /\ j.calls = IF j.internals = "found" THEN t.calls ELSE {}
    /\ \A i \in DOMAIN j.known : j.known[i] = "verified" => f[t.swaps[i].pool] = "verified"
    /\ j.step = "read" => Len(j.known) < Len(t.swaps)
    /\ j.step \in {"status", "origin", "save"} /\ t.ok => Len(j.known) = Len(t.swaps)
    /\ j.step = "origin" => t.relay.filled
    /\ j.relay = "verified" => t.relay.filled /\ t.relay.matches /\ t.relay.enough

Ground == tx \in Transaction /\ Chain(tx.transfers) /\ factory \in [Pools -> Factories]

\* What a caller concludes is an analysis, and is true.
LEMMA ConclusionTrue ==
    ASSUME Ground, NEW r, NEW j, JobOK(tx, factory, r, j), j.step = "save"
    PROVE  Conclusion(j) \in Analysis /\ Rests(Conclusion(j)) /\ Claims(Conclusion(j))
<1> DEFINE a == Conclusion(j)
<1>1. /\ tx.ok \in BOOLEAN /\ tx.spoiled \in BOOLEAN /\ tx.locked \in BOOLEAN
      /\ tx.swaps \in Seq([pool : Pools, tokenIn : STRING, tokenOut : STRING, out : Nat])
      /\ tx.transfers \in SUBSET [log : Nat, token : STRING, from : STRING, to : STRING, amount : Nat]
      /\ tx.calls \in SUBSET InternalCall
      /\ Chain(tx.transfers)
  BY DEF Ground, Transaction
<1>2. /\ j \in Jobs /\ Len(j.known) <= Len(tx.swaps)
      /\ j.calls = IF j.internals = "found" THEN tx.calls ELSE {}
      /\ \A i \in DOMAIN j.known : j.known[i] = "verified" => factory[tx.swaps[i].pool] = "verified"
      /\ tx.ok => Len(j.known) = Len(tx.swaps)
      /\ j.relay = "verified" => tx.relay.filled /\ tx.relay.matches /\ tx.relay.enough
  BY DEF JobOK
<1>3. /\ j.internals \in Results \cup {"unread"} /\ j.known \in Seq({"unknown", "verified", "foreign"})
      /\ j.calls \subseteq InternalCall
  BY <1>2 DEF Jobs
<1>4. Rule \in Rules
  BY DEF Ground, Transaction, Rule, Rules
<1> DEFINE recipient == Recipient(j)
<1>5. recipient # None => /\ tx.ok /\ Tolerated(j) /\ Converted(recipient, tx.transfers, tx.calls)
                          /\ recipient \in STRING
  <2> SUFFICES ASSUME recipient # None
               PROVE  /\ tx.ok /\ Tolerated(j) /\ Converted(recipient, tx.transfers, tx.calls)
                      /\ recipient \in STRING
    OBVIOUS
  <2>1. tx.ok /\ Tolerated(j) /\ recipient = RfqRecipient("user", tx.transfers, tx.wraps, j.calls)
    BY DEF Recipient
  <2> HIDE DEF recipient
  <2>2. Converted(recipient, tx.transfers, j.calls) /\ \E c \in j.calls : recipient = c.to
    BY <2>1, RfqIs
  <2>3. j.calls = tx.calls
    BY <1>2, <2>2
  <2>4. recipient \in STRING
    BY <1>3, <2>2 DEF InternalCall
  <2> QED  BY <2>1, <2>2, <2>3, <2>4
<1> DEFINE swaps == IF tx.ok THEN tx.swaps ELSE <<>>
           route == Route(j)
<1>6. /\ route # None => /\ tx.ok /\ route \in STRING /\ route \notin Official
                         /\ \A i \in DOMAIN tx.swaps : factory[tx.swaps[i].pool] = "verified"
                         /\ Joined(tx.swaps) /\ Ends(tx.swaps, tx.transfers, route)
      /\ /\ tx.ok /\ Joined(tx.swaps) /\ Clear(tx.swaps, tx.transfers)
         /\ \A i \in DOMAIN tx.swaps : j.known[i] = "verified"
         => \E x \in Official \cup {route} : Ends(tx.swaps, tx.transfers, x)
  <2>1. CASE ~tx.ok
    <3>1. route = FinalOutput(<<>>, Verified(j), {})
      BY <2>1 DEF Route, Logs
    <3>2. Verified(j) = {} \/ Verified(j) # DOMAIN <<>>
      OBVIOUS
    <3>3. route = None
      BY <3>1, <3>2 DEF FinalOutput
    <3> QED  BY <2>1, <3>3
  <2>2. CASE tx.ok
    <3> DEFINE V == Verified(j)
    <3>1. route = FinalOutput(tx.swaps, V, tx.transfers)
      BY <2>2 DEF Route, Logs
    <3>2. V \subseteq DOMAIN tx.swaps /\ DOMAIN j.known = DOMAIN tx.swaps
      BY <1>1, <1>2, <1>3, <2>2 DEF Verified
    <3> HIDE DEF route
    <3>3. /\ route # None => /\ route \in Receivers(tx.transfers) /\ route \notin Official /\ V = DOMAIN tx.swaps
                             /\ Joined(tx.swaps) /\ Ends(tx.swaps, tx.transfers, route)
          /\ V = DOMAIN tx.swaps /\ Joined(tx.swaps) /\ Clear(tx.swaps, tx.transfers)
             => \E y \in Official \cup {route} : Ends(tx.swaps, tx.transfers, y)
      BY <1>1, <3>1, <3>2, FinalIs
    <3>4. V = DOMAIN tx.swaps <=> \A i \in DOMAIN tx.swaps : j.known[i] = "verified"
      BY <3>2 DEF Verified
    <3>5. V = DOMAIN tx.swaps => \A i \in DOMAIN tx.swaps : factory[tx.swaps[i].pool] = "verified"
      BY <1>2, <3>2, <3>4
    <3>6. Receivers(tx.transfers) \subseteq STRING
      BY <1>1 DEF Receivers
    <3> QED  BY <2>2, <3>3, <3>4, <3>5, <3>6
  <2> QED  BY <1>1, <2>1, <2>2
<1> HIDE DEF recipient, route
<1>7. /\ a.version = Version /\ a.rule = Rule /\ a.complete = Complete(j) /\ a.internals = j.internals
      /\ a.output = CASE Rule = "kyber" -> recipient [] Rule = "route" -> route [] OTHER -> None
      /\ a.known = j.known /\ a.linked = (Rule = "relay" /\ j.relay = "verified")
      /\ a.deposited = (Rule = "bittorrent" /\ tx.input = "deposit" /\ tx.locked)
  BY DEF Conclusion, recipient, route
<1>8. a.output \in STRING \cup {None}
  BY <1>5, <1>6, <1>7
<1>9. Complete(j) \in BOOLEAN
  <2>1. Clean(j) \in BOOLEAN /\ Backed(j) \in BOOLEAN
    BY DEF Clean, Backed
  <2> QED  BY <1>4, <2>1 DEF Complete, Rules
<1>10. a \in Analysis
  <2>1. a = [version |-> a.version, rule |-> a.rule, complete |-> a.complete, output |-> a.output,
             internals |-> a.internals, known |-> a.known, linked |-> a.linked, deposited |-> a.deposited]
    BY Zenon DEF Conclusion
  <2>2. a.linked \in BOOLEAN /\ a.deposited \in BOOLEAN
    BY <1>7
  <2> HIDE DEF a
  <2> QED  BY <1>3, <1>4, <1>7, <1>8, <1>9, <2>1, <2>2 DEF Analysis
<1>11. Complete(j) => /\ tx.ok /\ Tolerated(j)
                      /\ Rule # "kyber" => Clean(j)
                      /\ Rule = "kyber" => recipient # None
                      /\ Rule = "route" => route # None
                      /\ Rule = "thorchain" => Backed(j)
  BY <1>4, <1>5 DEF Complete, Clean, Rules, recipient, route
<1> HIDE DEF a
<1>12. Rests(a)
  BY <1>7, <1>11 DEF Rests, Tolerated, Clean
<1>13. Claims(a)
  <2>1. ASSUME a.complete, a.rule = "thorchain", tx.input = "out" PROVE Made(tx.claim, tx.transfers, tx.calls)
    <3>1. Paid(tx.claim, tx.transfers, j.calls)
      BY <1>7, <1>11, <2>1 DEF Backed
    <3>2. Made(tx.claim, tx.transfers, j.calls) /\ j.calls \subseteq tx.calls
      BY <1>2, <3>1, MadeIs
    <3> QED  BY <3>2 DEF Made
  <2>2. a.rule = "kyber" /\ a.output # None => Converted(a.output, tx.transfers, tx.calls)
    BY <1>5, <1>7
  <2>3. a.linked => tx.relay.filled /\ tx.relay.matches /\ tx.relay.enough
    BY <1>2, <1>7
  <2>4. a.rule = "route" => a.output = route
    BY <1>7
  <2> QED  BY <1>6, <1>7, <2>1, <2>2, <2>3, <2>4 DEF Claims
<1> QED  BY <1>10, <1>12, <1>13 DEF a
-----------------------------------------------------------------------------
(* The callers and what they share *)

Waiting == {"tx", "receipt", "internals", "read", "code", "list"}
AllPlaced == \A c \in Callers : call[c].at \in Underway => job[c].step \in Waiting

JobsOK   == job \in [Callers -> Jobs] /\ \A c \in Callers : JobOK(tx, factory, role[c], job[c])
CacheOK  == /\ saved \in {NoAnalysis, Old} \cup Analysis
            /\ pools \in [Pools -> {"none", "verified", "foreign"}] /\ PoolsTrue
Explored == /\ order \in {"asc", "desc"} /\ rows \cup late \subseteq Row
            /\ IsFiniteSet(rows \cup late) /\ Distinct(rows \cup late)
Here     == Ground /\ role \in [Callers -> Roles] /\ subject \in STRING
Core     == Explored /\ Here /\ ClientOK /\ JobsOK /\ AllPlaced /\ CacheOK /\ CompleteRests /\ ClaimsTrue

LEMMA CoreRows == ASSUME Explored PROVE RowsOK /\ rows \subseteq Row
<1>1. IsFiniteSet(rows) /\ Distinct(rows)
  BY FS_Subset DEF Explored, Distinct
<1> QED  BY <1>1 DEF Explored, RowsOK

LEMMA JobChanges ==
    ASSUME JobsOK, NEW c \in Callers, NEW j, JobOK(tx, factory, role[c], j),
           job' = [job EXCEPT ![c] = j], UNCHANGED <<tx, factory, role>>
    PROVE  JobsOK' /\ job'[c] = j /\ \A d \in Callers \ {c} : job'[d] = job[d]
<1>1. job' \in [Callers -> Jobs] /\ job'[c] = j /\ \A d \in Callers \ {c} : job'[d] = job[d]
  BY DEF JobsOK, JobOK
<1>2. \A d \in Callers : JobOK(tx', factory', role'[d], job'[d])
  BY <1>1 DEF JobsOK
<1> QED  BY <1>1, <1>2 DEF JobsOK

\* Answers that are new are true ones.
LEMMA AnswersStep ==
    ASSUME CompleteRests, ClaimsTrue, UNCHANGED <<tx, factory, role>>,
           NEW X, \A x \in X : x.version = Version /\ Rests(x) /\ Claims(x),
           saved' \in {saved} \cup X,
           \A d \in Callers : role[d] = "analyze" => job'[d].answer \in {job[d].answer, NoAnalysis} \cup X
    PROVE  (CompleteRests /\ ClaimsTrue)'
<1>1. \A a \in Answers' : a \in Answers \cup X
  BY DEF Answers
<1>2. \A a \in Analyses' : a \in Analyses \cup X
  BY <1>1 DEF Analyses
<1>3. \A a \in Answers' : a.version = Version
  BY <1>1 DEF CompleteRests
<1>4. ASSUME NEW a \in Analyses' PROVE Rests(a) /\ Claims(a)
  BY <1>2 DEF CompleteRests, ClaimsTrue
<1>5. ASSUME NEW a \in Analyses' PROVE Rests(a)'
  BY <1>4 DEF Rests
<1>6. ASSUME NEW a \in Analyses' PROVE Claims(a)'
  <2>1. Claims(a)
    BY <1>4
  <2> QED  BY <2>1 DEF Claims
<1> QED  BY <1>3, <1>5, <1>6 DEF CompleteRests, ClaimsTrue

\* A step of one caller.
LEMMA CoreStep ==
    ASSUME Core, NEW c \in Callers, NEW j, JobOK(tx, factory, role[c], j), job' = [job EXCEPT ![c] = j],
           UNCHANGED <<explorerVars, world>>, ClientOK', Only(c), CacheOK',
           call'[c].at \in Underway => j.step \in Waiting,
           NEW X, \A x \in X : x.version = Version /\ Rests(x) /\ Claims(x),
           saved' \in {saved} \cup X,
           role[c] = "analyze" => j.answer \in {job[c].answer, NoAnalysis} \cup X
    PROVE  Core'
<1>1. /\ UNCHANGED <<tx, factory, role>> /\ JobsOK /\ CompleteRests /\ ClaimsTrue /\ AllPlaced
      /\ Explored' /\ Here'
  BY DEF Core, explorerVars, world, Explored, Here, Ground
<1>2. JobsOK' /\ job'[c] = j /\ \A d \in Callers \ {c} : job'[d] = job[d]
  BY <1>1, JobChanges
<1>3. AllPlaced'
  BY <1>1, <1>2 DEF AllPlaced, Only
<1>4. \A d \in Callers : role[d] = "analyze" => job'[d].answer \in {job[d].answer, NoAnalysis} \cup X
  BY <1>2
<1>5. (CompleteRests /\ ClaimsTrue)'
  BY <1>1, <1>4, AnswersStep
<1> QED  BY <1>1, <1>2, <1>3, <1>5 DEF Core

\* The same, when no answer is new.
LEMMA CorePlain ==
    ASSUME Core, NEW c \in Callers, NEW j, JobOK(tx, factory, role[c], j), job' = [job EXCEPT ![c] = j],
           UNCHANGED <<explorerVars, world, saved>>, ClientOK', Only(c), CacheOK',
           call'[c].at \in Underway => j.step \in Waiting,
           role[c] = "analyze" => j.answer \in {job[c].answer, NoAnalysis}
    PROVE  Core'
<1> DEFINE X == {}
<1>1. /\ \A x \in X : x.version = Version /\ Rests(x) /\ Claims(x)
      /\ saved' \in {saved} \cup X
      /\ role[c] = "analyze" => j.answer \in {job[c].answer, NoAnalysis} \cup X
  OBVIOUS
<1> HIDE DEF X
<1> QED  BY <1>1, CoreStep

LEMMA ClientSame ==
    ASSUME ClientOK, UNCHANGED clientVars PROVE ClientOK' /\ NoneBegun /\ \A c \in Callers : Only(c)
BY DEF ClientOK, clientVars, QueueOK, Queued, CallOK, Only, NoneBegun

LEMMA CacheSame ==
    ASSUME CacheOK, UNCHANGED <<cache, factory>> PROVE CacheOK'
BY DEF CacheOK, cache, PoolsTrue

LEMMA CoreParts ==
    ASSUME Core, NEW c \in Callers
    PROVE  /\ ClientOK /\ rows \subseteq Row /\ RowsOK /\ CacheOK /\ Ground /\ CallOK(call[c])
           /\ job \in [Callers -> Jobs] /\ job[c] \in Jobs /\ JobOK(tx, factory, role[c], job[c])
           /\ role[c] \in Roles /\ subject \in STRING
           /\ job[c].step \notin Waiting => call[c].at # "queued"
<1>1. \A d \in Callers : CallOK(call[d])
  BY DEF Core, ClientOK
<1> QED  BY <1>1, CoreRows DEF Core, JobsOK, Here, AllPlaced, Underway

\* The plain steps: the caller goes on, or its analysis fails.
LEMMA GoesCore ==
    ASSUME Core, NEW c \in Callers, NEW step \in Steps, Goes(c, step), UNCHANGED <<explorerVars, world, cache>>,
           ClientOK', Only(c), call'[c].at \in Underway => step \in Waiting,
           step = "code" => role[c] # "analyze",
           step = "read" => Len(job[c].known) < Len(tx.swaps),
           step \in {"status", "origin", "save"} /\ tx.ok => Len(job[c].known) = Len(tx.swaps),
           step = "origin" => tx.relay.filled
    PROVE  Core'
<1> DEFINE j == [job[c] EXCEPT !.step = step]
<1>1. /\ job \in [Callers -> Jobs] /\ job[c] \in Jobs /\ JobOK(tx, factory, role[c], job[c]) /\ CacheOK
  BY CoreParts
<1>2. job' = [job EXCEPT ![c] = j]
  BY <1>1 DEF Goes
<1>3. /\ j \in Jobs /\ j.known = job[c].known /\ j.calls = job[c].calls /\ j.internals = job[c].internals
      /\ j.relay = job[c].relay /\ j.answer = job[c].answer /\ j.step = step
  BY <1>1 DEF Jobs
<1> HIDE DEF j
<1>4. JobOK(tx, factory, role[c], j)
  BY <1>1, <1>3 DEF JobOK
<1>5. CacheOK'
  BY <1>1, CacheSame DEF world
<1> QED  BY <1>2, <1>3, <1>4, <1>5, CorePlain DEF cache

LEMMA AnswerCore ==
    ASSUME Core, NEW c \in Callers, NEW a, Answer(c, a), UNCHANGED <<explorerVars, world, pools>>,
           ClientOK', Only(c), call'[c].at \notin Underway,
           a \in {NoAnalysis} \cup Analysis \cup Inspection,
           role[c] = "analyze" => a \in {NoAnalysis} \cup Analysis,
           NEW X, \A x \in X : x.version = Version /\ Rests(x) /\ Claims(x), X \subseteq Analysis,
           saved' \in {saved} \cup X,
           role[c] = "analyze" => a \in {NoAnalysis} \cup X
    PROVE  Core'
<1> DEFINE j == [job[c] EXCEPT !.step = "end", !.answer = a]
<1>1. /\ job \in [Callers -> Jobs] /\ job[c] \in Jobs /\ JobOK(tx, factory, role[c], job[c]) /\ CacheOK
  BY CoreParts
<1>2. job' = [job EXCEPT ![c] = j]
  BY <1>1 DEF Answer
<1>3. /\ j \in Jobs /\ j.known = job[c].known /\ j.calls = job[c].calls /\ j.internals = job[c].internals
      /\ j.relay = job[c].relay /\ j.answer = a /\ j.step = "end"
  BY <1>1 DEF Jobs, Steps
<1> HIDE DEF j
<1>4. JobOK(tx, factory, role[c], j)
  BY <1>1, <1>3 DEF JobOK
<1>5. CacheOK'
  BY <1>1 DEF CacheOK, PoolsTrue, world
<1> QED  BY <1>2, <1>3, <1>4, <1>5, CoreStep

LEMMA FailedCore ==
    ASSUME Core, NEW c \in Callers, Failed(c), UNCHANGED <<explorerVars, world>>,
           ClientOK', Only(c), call'[c].at \notin Underway
    PROVE  Core'
<1> DEFINE X == {}
<1>1. /\ Answer(c, NoAnalysis) /\ UNCHANGED pools /\ saved' \in {saved} \cup X /\ X \subseteq Analysis
      /\ \A x \in X : x.version = Version /\ Rests(x) /\ Claims(x)
  BY DEF Failed, cache
<1> HIDE DEF X
<1> QED  BY <1>1, AnswerCore

\* A verdict on the pool of the next swap.
LEMMA JudgedCore ==
    ASSUME Core, NEW c \in Callers, NEW verdict \in {"unknown", "verified", "foreign"}, Judged(c, verdict),
           Len(job[c].known) < Len(tx.swaps),
           verdict = "verified" => factory[tx.swaps[Len(job[c].known) + 1].pool] = "verified",
           UNCHANGED <<explorerVars, world, saved>>, CacheOK', ClientOK', Only(c), call'[c].at \notin Underway
    PROVE  Core'
<1> DEFINE known == Append(job[c].known, verdict)
           j == [job[c] EXCEPT !.known = known, !.step = "logs", !.reads = 0]
<1>1. /\ job \in [Callers -> Jobs] /\ job[c] \in Jobs /\ JobOK(tx, factory, role[c], job[c])
  BY CoreParts
<1>2. job' = [job EXCEPT ![c] = j]
  BY <1>1 DEF Judged
<1>3. /\ job[c].known \in Seq({"unknown", "verified", "foreign"}) /\ Len(job[c].known) \in Nat
  BY <1>1 DEF Jobs
<1>8. known \in Seq({"unknown", "verified", "foreign"})
  BY <1>3
<1> HIDE DEF known
<1>4. /\ j \in Jobs /\ j.known = known /\ j.calls = job[c].calls
      /\ j.internals = job[c].internals /\ j.relay = job[c].relay /\ j.answer = job[c].answer /\ j.step = "logs"
  <2> DEFINE k == [job[c] EXCEPT !.known = known]
             l == [k EXCEPT !.step = "logs"]
  <2>1. /\ k \in Jobs /\ k.known = known /\ k.calls = job[c].calls /\ k.internals = job[c].internals
        /\ k.relay = job[c].relay /\ k.answer = job[c].answer
    BY <1>1, <1>8 DEF Jobs
  <2>2. l \in Jobs /\ l.known = known /\ l.calls = job[c].calls /\ l.internals = job[c].internals
        /\ l.relay = job[c].relay /\ l.answer = job[c].answer /\ l.step = "logs"
    <3> HIDE DEF k
    <3> QED  BY <2>1 DEF Jobs, Steps
  <2>3. j = [l EXCEPT !.reads = 0]
    OBVIOUS
  <2> HIDE DEF l, j
  <2>4. 0 \in 0 .. 3
    OBVIOUS
  <2> QED  BY <2>2, <2>3, <2>4 DEF Jobs
<1> HIDE DEF j
<1> USE DEF known
<1>5. Len(j.known) <= Len(tx.swaps)
  <2>1. tx.swaps \in Seq([pool : Pools, tokenIn : STRING, tokenOut : STRING, out : Nat])
    BY CoreParts DEF Ground, Transaction
  <2>2. Len(tx.swaps) \in Nat
    BY <2>1
  <2> QED  BY <1>3, <1>4, <2>2
<1>6. ASSUME NEW i \in DOMAIN j.known, j.known[i] = "verified" PROVE factory[tx.swaps[i].pool] = "verified"
  <2>1. CASE i = Len(job[c].known) + 1
    BY <1>3, <1>4, <1>6, <2>1
  <2>2. CASE i # Len(job[c].known) + 1
    <3>1. i \in DOMAIN job[c].known /\ job[c].known[i] = "verified"
      BY <1>3, <1>4, <1>6, <2>2
    <3> QED  BY <1>1, <3>1 DEF JobOK
  <2> QED  BY <2>1, <2>2
<1>7. JobOK(tx, factory, role[c], j)
  BY <1>1, <1>4, <1>5, <1>6 DEF JobOK
<1> QED  BY <1>2, <1>4, <1>7, CorePlain
-----------------------------------------------------------------------------
(* The steps of an analysis and of an inspection *)

LEMMA LookupCore ==
    ASSUME Core, NEW c \in Callers, Lookup(c) PROVE Core'
<1>1. /\ role[c] = "analyze" /\ job[c].step = "start" /\ UNCHANGED <<explorerVars, world>>
  BY DEF Lookup
<1>2. call[c].at # "queued" /\ call[c].at \notin Underway /\ ClientOK /\ rows \subseteq Row /\ CacheOK
  BY <1>1, CoreParts DEF Core, AllPlaced, Waiting
<1>3. CASE Failed(c) /\ UNCHANGED clientVars
  BY <1>1, <1>2, <1>3, FailedCore, ClientSame DEF clientVars
<1>4. CASE Current /\ Answer(c, saved) /\ UNCHANGED <<cache, clientVars>>
  <2> DEFINE X == {saved}
  <2>1. saved \in Analysis /\ saved # NoAnalysis /\ saved # Old
    BY <1>2, <1>4 DEF Current, CacheOK, Version, NoAnalysis, Old
  <2>2. saved \in Analyses /\ saved.version = Version
    BY <1>4, <2>1 DEF Analyses, Current
  <2>3. \A x \in X : x.version = Version /\ Rests(x) /\ Claims(x)
    BY <2>2 DEF Core, CompleteRests, ClaimsTrue
  <2>4. X \subseteq Analysis /\ saved' \in {saved} \cup X /\ saved \in {NoAnalysis} \cup X
    BY <1>4, <2>1 DEF cache
  <2>5. UNCHANGED <<explorerVars, world, pools>> /\ ClientOK' /\ Only(c) /\ call'[c].at \notin Underway
    BY <1>1, <1>2, <1>4, ClientSame DEF cache, clientVars
  <2> HIDE DEF X
  <2> QED  BY <1>4, <2>1, <2>3, <2>4, <2>5, AnswerCore
<1>5. CASE ~Current /\ Goes(c, "tx") /\ Ask(c, "tx", 0) /\ UNCHANGED cache
  <2>1. ClientOK' /\ Only(c)
    BY <1>2, <1>5, AskOK DEF Asks
  <2> QED  BY <1>1, <1>5, <2>1, GoesCore DEF Steps, Waiting
<1> QED  BY <1>3, <1>4, <1>5 DEF Lookup

\* An answer has come that the caller asks the next question with, or fails.
LEMMA TookCore ==
    ASSUME Core, NEW c \in Callers, Got(c, job[c].step), UNCHANGED <<explorerVars, world>>,
           \/ \E step \in {"receipt", "internals"} : Goes(c, step) /\ Ask(c, step, 0) /\ UNCHANGED cache
           \/ Failed(c) /\ Rested(c)
    PROVE  Core'
<1>1. call[c].at = "done" /\ ClientOK /\ rows \subseteq Row
  BY CoreParts DEF Got
<1>2. ASSUME NEW step \in {"receipt", "internals"}, Goes(c, step), Ask(c, step, 0), UNCHANGED cache PROVE Core'
  <2>1. ClientOK' /\ Only(c)
    BY <1>1, <1>2, AskOK DEF Asks
  <2> QED  BY <1>2, <2>1, GoesCore DEF Steps, Waiting
<1>3. CASE Failed(c) /\ Rested(c)
  <2>1. ClientOK' /\ Only(c) /\ call'[c].at = "idle"
    BY <1>1, <1>3, RestedOK
  <2> QED  BY <1>3, <2>1, FailedCore DEF Underway
<1> QED  BY <1>2, <1>3

LEMMA TakeTransactionCore ==
    ASSUME Core, NEW c \in Callers, TakeTransaction(c) PROVE Core'
BY TookCore DEF TakeTransaction, Got

LEMMA TakeReceiptCore ==
    ASSUME Core, NEW c \in Callers, TakeReceipt(c) PROVE Core'
BY TookCore DEF TakeReceipt, Got

LEMMA TakeInternalsCore ==
    ASSUME Core, NEW c \in Callers, TakeInternals(c) PROVE Core'
<1>1. /\ Got(c, "internals") /\ UNCHANGED <<explorerVars, world>> /\ Rested(c)
  BY DEF TakeInternals
<1>2. /\ ClientOK /\ CacheOK /\ call[c].at = "done" /\ Out(c) \in Results /\ Ground
      /\ job \in [Callers -> Jobs] /\ job[c] \in Jobs /\ JobOK(tx, factory, role[c], job[c])
  BY <1>1, CoreParts DEF Got, CallOK, Out
<1>3. ClientOK' /\ Only(c) /\ call'[c].at = "idle"
  BY <1>1, <1>2, RestedOK
<1>4. CASE tx.readable
  <2> DEFINE step == IF tx.ok THEN "logs" ELSE "save"
             calls == IF Out(c) = "found" THEN tx.calls ELSE {}
             j == [job[c] EXCEPT !.step = step, !.internals = Out(c), !.calls = calls]
  <2>1. job' = [job EXCEPT ![c] = j] /\ UNCHANGED cache
    BY <1>2, <1>4 DEF TakeInternals
  <2>2. calls \subseteq InternalCall
    BY <1>2 DEF Ground, Transaction
  <2>3. step \in {"logs", "save"} /\ (tx.ok => step = "logs")
    OBVIOUS
  <2> HIDE DEF step, calls
  <2>4. /\ j \in Jobs /\ j.step = step /\ j.internals = Out(c) /\ j.calls = calls /\ j.known = job[c].known
        /\ j.relay = job[c].relay /\ j.answer = job[c].answer
    BY <1>2, <2>2, <2>3 DEF Jobs, Steps
  <2> HIDE DEF j
  <2>5. JobOK(tx, factory, role[c], j)
    BY <1>2, <2>3, <2>4 DEF JobOK, calls
  <2>6. CacheOK'
    BY <1>1, <1>2, <2>1, CacheSame DEF world
  <2> QED  BY <1>1, <1>3, <2>1, <2>4, <2>5, <2>6, CorePlain DEF cache, Underway
<1>5. CASE ~tx.readable
  BY <1>1, <1>3, <1>5, FailedCore DEF TakeInternals, Underway
<1> QED  BY <1>4, <1>5

LEMMA PoolOfNext ==
    ASSUME Ground, NEW n \in Nat, n < Len(tx.swaps)
    PROVE  tx.swaps[n + 1].pool \in Pools /\ factory[tx.swaps[n + 1].pool] \in Factories
<1> DEFINE S == [pool : Pools, tokenIn : STRING, tokenOut : STRING, out : Nat]
           i == n + 1
<1>1. tx.swaps \in Seq(S)
  BY DEF Ground, Transaction
<1>2. \A s \in S : s.pool \in Pools
  OBVIOUS
<1> HIDE DEF S
<1>3. i \in 1 .. Len(tx.swaps)
  BY <1>1
<1> HIDE DEF i
<1>4. tx.swaps[i] \in S
  BY <1>1, <1>3
<1>5. factory \in [Pools -> Factories]
  BY DEF Ground
<1> QED  BY <1>2, <1>4, <1>5 DEF i

LEMMA LookupPoolCore ==
    ASSUME Core, NEW c \in Callers, LookupPool(c) PROVE Core'
<1> DEFINE n == Len(job[c].known)
           p == tx.swaps[n + 1].pool
<1>1. /\ job[c].step = "logs" /\ n + 1 <= Len(tx.swaps) /\ UNCHANGED <<explorerVars, world, cache>>
      /\ \/ Judged(c, "unknown") /\ UNCHANGED clientVars
         \/ pools[p] # "none" /\ Judged(c, pools[p]) /\ UNCHANGED clientVars
         \/ pools[p] = "none" /\ Goes(c, "read") /\ Ask(c, "call", 0)
  BY DEF LookupPool
<1>2. /\ ClientOK /\ CacheOK /\ Ground /\ job[c] \in Jobs /\ rows \subseteq Row /\ call[c].at # "queued"
      /\ call[c].at \notin Underway
  BY <1>1, CoreParts DEF Core, AllPlaced, Waiting
<1>3. n \in Nat /\ Len(tx.swaps) \in Nat /\ n < Len(tx.swaps)
  <2>1. job[c].known \in Seq({"unknown", "verified", "foreign"})
    BY <1>2 DEF Jobs
  <2>2. tx.swaps \in Seq([pool : Pools, tokenIn : STRING, tokenOut : STRING, out : Nat])
    BY <1>2 DEF Ground, Transaction
  <2>3. n \in Nat /\ Len(tx.swaps) \in Nat
    BY <2>1, <2>2
  <2> QED  BY <1>1, <2>3
<1> HIDE DEF n
<1>4. p \in Pools /\ pools[p] \in {"none", "verified", "foreign"} /\ (pools[p] # "none" => pools[p] = factory[p])
  BY <1>2, <1>3, PoolOfNext DEF CacheOK, PoolsTrue
<1>5. CacheOK'
  BY <1>1, <1>2, CacheSame DEF world
<1>6. UNCHANGED clientVars => ClientOK' /\ Only(c) /\ call'[c].at \notin Underway
  BY <1>2, ClientSame DEF clientVars
<1>7. CASE Judged(c, "unknown") /\ UNCHANGED clientVars
  BY <1>1, <1>3, <1>5, <1>6, <1>7, JudgedCore DEF n, cache
<1>8. CASE pools[p] # "none" /\ Judged(c, pools[p]) /\ UNCHANGED clientVars
  BY <1>1, <1>3, <1>4, <1>5, <1>6, <1>8, JudgedCore DEF n, cache
<1>9. CASE Goes(c, "read") /\ Ask(c, "call", 0)
  <2>1. ClientOK' /\ Only(c)
    BY <1>2, <1>9, AskOK DEF Asks
  <2> QED  BY <1>1, <1>3, <1>9, <2>1, GoesCore DEF Steps, Waiting, n
<1> QED  BY <1>1, <1>7, <1>8, <1>9

LEMMA TakeReadCore ==
    ASSUME Core, NEW c \in Callers, TakeRead(c) PROVE Core'
<1> DEFINE n == Len(job[c].known)
           p == tx.swaps[n + 1].pool
<1>1. /\ Got(c, "read") /\ UNCHANGED <<explorerVars, world, saved>>
      /\ \/ ReadFails(c, p) /\ Rested(c)
         \/ /\ job[c].reads < 3 /\ job' = [job EXCEPT ![c].reads = @ + 1] /\ Ask(c, "call", 0)
            /\ UNCHANGED pools
         \/ /\ \/ Judged(c, "unknown") /\ UNCHANGED pools
               \/ factory[p] # "odd" /\ pools' = [pools EXCEPT ![p] = factory[p]] /\ Judged(c, factory[p])
            /\ Rested(c)
  BY DEF TakeRead
<1>2. /\ ClientOK /\ CacheOK /\ Ground /\ job \in [Callers -> Jobs] /\ job[c] \in Jobs /\ rows \subseteq Row
      /\ call[c].at = "done" /\ job[c].step = "read" /\ JobOK(tx, factory, role[c], job[c])
  BY <1>1, CoreParts DEF Got
<1>3. n \in Nat /\ n < Len(tx.swaps)
  <2>1. job[c].known \in Seq({"unknown", "verified", "foreign"})
    BY <1>2 DEF Jobs
  <2> QED  BY <1>2, <2>1 DEF JobOK
<1> HIDE DEF n
<1>4. p \in Pools /\ factory[p] \in Factories
  BY <1>2, <1>3, PoolOfNext
<1>5. UNCHANGED pools => CacheOK'
  BY <1>1, <1>2 DEF CacheOK, PoolsTrue, world
<1>6. Rested(c) => ClientOK' /\ Only(c) /\ call'[c].at \notin Underway
  BY <1>2, RestedOK DEF Underway
<1>7. CASE Judged(c, "unknown") /\ UNCHANGED pools /\ Rested(c)
  BY <1>1, <1>3, <1>5, <1>6, <1>7, JudgedCore DEF n
<1>8. CASE job[c].reads < 3 /\ job' = [job EXCEPT ![c].reads = @ + 1] /\ Ask(c, "call", 0) /\ UNCHANGED pools
  <2> DEFINE j == [job[c] EXCEPT !.reads = @ + 1]
  <2>1. job' = [job EXCEPT ![c] = j]
    BY <1>2, <1>8
  <2>2. job[c].reads + 1 \in 0 .. 3
    BY <1>2, <1>8 DEF Jobs
  <2>3. /\ j \in Jobs /\ j.step = "read" /\ j.internals = job[c].internals /\ j.calls = job[c].calls
        /\ j.known = job[c].known /\ j.relay = job[c].relay /\ j.answer = job[c].answer
    BY <1>2, <2>2 DEF Jobs
  <2> HIDE DEF j
  <2>4. JobOK(tx, factory, role[c], j)
    BY <1>2, <2>3 DEF JobOK
  <2>5. ClientOK' /\ Only(c)
    BY <1>2, <1>8, AskOK DEF Asks
  <2> QED  BY <1>1, <1>5, <1>8, <2>1, <2>3, <2>4, <2>5, CorePlain DEF Waiting
<1>9. CASE /\ factory[p] # "odd" /\ pools' = [pools EXCEPT ![p] = factory[p]] /\ Judged(c, factory[p])
           /\ Rested(c)
  <2>1. factory[p] \in {"verified", "foreign"}
    BY <1>4, <1>9 DEF Factories
  <2>2. CacheOK'
    BY <1>1, <1>2, <1>4, <1>9, <2>1 DEF CacheOK, PoolsTrue, world
  <2> QED  BY <1>1, <1>3, <1>6, <1>9, <2>1, <2>2, JudgedCore DEF n
<1> QED  BY <1>1, <1>7, <1>8, <1>9 DEF ReadFails

LEMMA ParseLogsCore ==
    ASSUME Core, NEW c \in Callers, ParseLogs(c) PROVE Core'
<1>1. /\ job[c].step = "logs" /\ Len(job[c].known) = Len(tx.swaps)
      /\ \E step \in {"status", "save"} : Goes(c, step)
      /\ UNCHANGED <<explorerVars, clientVars, world, cache>>
  BY DEF ParseLogs
<1>2. call[c].at \notin Underway /\ ClientOK
  BY <1>1, CoreParts DEF Core, AllPlaced, Waiting
<1>3. ClientOK' /\ Only(c) /\ call'[c].at \notin Underway
  BY <1>1, <1>2, ClientSame DEF clientVars
<1> QED  BY <1>1, <1>3, GoesCore DEF Steps

LEMMA VerifyRelayCore ==
    ASSUME Core, NEW c \in Callers, VerifyRelay(c) PROVE Core'
<1>1. job[c].step \in {"status", "origin"} /\ UNCHANGED <<explorerVars, clientVars, world, cache>>
  BY DEF VerifyRelay
<1>2. /\ call[c].at \notin Underway /\ ClientOK /\ CacheOK /\ job \in [Callers -> Jobs] /\ job[c] \in Jobs
      /\ JobOK(tx, factory, role[c], job[c]) /\ Ground
  BY <1>1, CoreParts DEF Core, AllPlaced, Waiting
<1>3. ClientOK' /\ Only(c) /\ call'[c].at \notin Underway
  BY <1>1, <1>2, ClientSame DEF clientVars
<1>4. CASE job[c].step = "status" /\ tx.relay.filled /\ Goes(c, "origin")
  <2>1. tx.ok => Len(job[c].known) = Len(tx.swaps)
    BY <1>2, <1>4 DEF JobOK
  <2> QED  BY <1>1, <1>3, <1>4, <2>1, GoesCore DEF Steps
<1>5. ASSUME NEW relay \in {"failed", "refused", "verified"},
             job' = [job EXCEPT ![c].step = "save", ![c].relay = relay],
             relay = "verified" => OriginHolds /\ job[c].step = "origin"
      PROVE  Core'
  <2> DEFINE j == [job[c] EXCEPT !.step = "save", !.relay = relay]
  <2>1. job' = [job EXCEPT ![c] = j]
    BY <1>2, <1>5
  <2>2. /\ j \in Jobs /\ j.step = "save" /\ j.internals = job[c].internals /\ j.calls = job[c].calls
        /\ j.known = job[c].known /\ j.relay = relay /\ j.answer = job[c].answer
    BY <1>2 DEF Jobs, Steps
  <2> HIDE DEF j
  <2>3. JobOK(tx, factory, role[c], j)
    BY <1>1, <1>2, <1>5, <2>2 DEF JobOK, OriginHolds
  <2>4. CacheOK'
    BY <1>1, <1>2, CacheSame DEF world
  <2> QED  BY <1>1, <1>3, <2>1, <2>2, <2>3, <2>4, CorePlain DEF cache
<1>6. CASE job[c].step = "origin" /\ job' = [job EXCEPT ![c].step = "save",
                                                ![c].relay = IF OriginHolds THEN "verified" ELSE "refused"]
  <2>1. CASE OriginHolds
    BY <1>5, <1>6, <2>1
  <2>2. CASE ~OriginHolds
    BY <1>5, <1>6, <2>2
  <2> QED  BY <2>1, <2>2
<1> QED  BY <1>4, <1>5, <1>6 DEF VerifyRelay

LEMMA SaveCore ==
    ASSUME Core, NEW c \in Callers, Save(c) PROVE Core'
<1>1. job[c].step = "save" /\ UNCHANGED <<explorerVars, clientVars, world>>
  BY DEF Save
<1>2. call[c].at \notin Underway /\ ClientOK /\ JobOK(tx, factory, role[c], job[c]) /\ Ground
  BY <1>1, CoreParts DEF Core, AllPlaced, Waiting
<1>3. ClientOK' /\ Only(c) /\ call'[c].at \notin Underway
  BY <1>1, <1>2, ClientSame DEF clientVars
<1>4. CASE Failed(c)
  BY <1>1, <1>3, <1>4, FailedCore
<1>5. CASE saved' = Conclusion(job[c]) /\ Answer(c, Conclusion(job[c])) /\ UNCHANGED pools
  <2> DEFINE a == Conclusion(job[c])
             X == {a}
  <2>1. a \in Analysis /\ Rests(a) /\ Claims(a) /\ a.version = Version
    BY <1>1, <1>2, ConclusionTrue DEF Conclusion
  <2> HIDE DEF a
  <2>2. /\ X \subseteq Analysis /\ \A x \in X : x.version = Version /\ Rests(x) /\ Claims(x)
        /\ saved' \in {saved} \cup X /\ a \in {NoAnalysis} \cup X /\ Answer(c, a)
    BY <1>5, <2>1 DEF a
  <2> HIDE DEF X
  <2> QED  BY <1>1, <1>3, <1>5, <2>1, <2>2, AnswerCore
<1> QED  BY <1>4, <1>5 DEF Save

LEMMA InspectCore ==
    ASSUME Core, NEW c \in Callers, Inspect(c) PROVE Core'
<1>1. /\ role[c] = "inspect" /\ job[c].step = "start" /\ UNCHANGED <<explorerVars, world, cache>>
      /\ \/ Goes(c, "end") /\ UNCHANGED clientVars
         \/ Goes(c, "code") /\ Ask(c, "code", 0)
  BY DEF Inspect
<1>2. call[c].at # "queued" /\ call[c].at \notin Underway /\ ClientOK /\ rows \subseteq Row
  BY <1>1, CoreParts DEF Core, AllPlaced, Waiting
<1>3. CASE Goes(c, "end") /\ UNCHANGED clientVars
  <2>1. ClientOK' /\ Only(c) /\ call'[c].at \notin Underway
    BY <1>2, <1>3, ClientSame DEF clientVars
  <2> QED  BY <1>1, <1>3, <2>1, GoesCore DEF Steps
<1>4. CASE Goes(c, "code") /\ Ask(c, "code", 0)
  <2>1. ClientOK' /\ Only(c)
    BY <1>2, <1>4, AskOK DEF Asks
  <2> QED  BY <1>1, <1>4, <2>1, GoesCore DEF Steps, Waiting
<1> QED  BY <1>1, <1>3, <1>4

LEMMA TakeCodeCore ==
    ASSUME Core, NEW c \in Callers, TakeCode(c) PROVE Core'
<1>1. Got(c, "code") /\ Rested(c) /\ UNCHANGED <<explorerVars, world>>
  BY DEF TakeCode
<1>2. /\ ClientOK /\ call[c].at = "done" /\ JobOK(tx, factory, role[c], job[c]) /\ job[c].step = "code"
      /\ subject \in STRING
  BY <1>1, CoreParts DEF Got
<1>3. ClientOK' /\ Only(c) /\ call'[c].at \notin Underway
  BY <1>1, <1>2, RestedOK DEF Underway
<1>4. role[c] # "analyze"
  BY <1>2 DEF JobOK
<1>5. CASE Failed(c)
  BY <1>1, <1>3, <1>5, FailedCore
<1>6. ASSUME NEW a \in {NoAnalysis} \cup Inspection, Answer(c, a), UNCHANGED cache PROVE Core'
  <2> DEFINE X == {}
  <2>1. /\ X \subseteq Analysis /\ \A x \in X : x.version = Version /\ Rests(x) /\ Claims(x)
        /\ saved' \in {saved} \cup X /\ UNCHANGED pools
    BY <1>6 DEF cache
  <2> HIDE DEF X
  <2> QED  BY <1>1, <1>3, <1>4, <1>6, <2>1, AnswerCore
<1>7. [version |-> Version,
       identity |-> IF subject \in Pools
                    THEN IF pools[subject] = "verified" THEN "pool" ELSE "contract"
                    ELSE subject] \in Inspection
  BY <1>2 DEF Inspection
<1> QED  BY <1>5, <1>6, <1>7 DEF TakeCode

LEMMA ServeCore ==
    ASSUME Core, NEW c \in Callers, Serve(c) PROVE Core'
BY LookupCore, TakeTransactionCore, TakeReceiptCore, TakeInternalsCore, LookupPoolCore, TakeReadCore,
   ParseLogsCore, VerifyRelayCore, SaveCore, InspectCore, TakeCodeCore DEF Serve
-----------------------------------------------------------------------------
(* The explorer's steps, and those of the client by itself *)

\* The world moves on: rows and stages of the transaction, but nothing that an
\* answer was about.
CoreKept(t, u) ==
    /\ u.ok = t.ok /\ u.spoiled = t.spoiled /\ u.input = t.input /\ u.swaps = t.swaps
    /\ u.transfers = t.transfers /\ u.calls = t.calls /\ u.claim = t.claim
    /\ u.relay.matches = t.relay.matches /\ u.relay.enough = t.relay.enough
    /\ t.relay.filled => u.relay.filled

LEMMA WorldGoesOn ==
    ASSUME Core, tx' \in Transaction, CoreKept(tx, tx'), Explored', UNCHANGED <<world, clientVars, cache, job>>
    PROVE  Core'
<1>1. /\ UNCHANGED <<role, factory, subject, saved, pools, job>> /\ Here /\ JobsOK /\ CacheOK /\ AllPlaced
      /\ CompleteRests /\ ClaimsTrue /\ ClientOK
  BY DEF world, cache, Core
<1>2. Here' /\ CacheOK' /\ ClientOK'
  BY <1>1, ClientSame, CacheSame DEF Here, Ground, CoreKept, cache
<1>3. ASSUME NEW c \in Callers PROVE JobOK(tx', factory', role'[c], job'[c])
  <2>1. JobOK(tx, factory, role[c], job[c])
    BY <1>1 DEF JobsOK
  <2> QED  BY <1>1, <2>1 DEF JobOK, CoreKept
<1>4. JobsOK' /\ AllPlaced'
  BY <1>1, <1>3 DEF JobsOK, AllPlaced, clientVars
<1>5. Answers' = Answers /\ Analyses' = Analyses
  BY <1>1 DEF Answers, Analyses
<1>6. ASSUME NEW a \in Analyses PROVE Rests(a)' /\ Claims(a)'
  <2>1. Rests(a) /\ Claims(a)
    BY <1>1 DEF CompleteRests, ClaimsTrue
  <2>2. Rests(a)'
    BY <2>1 DEF Rests, CoreKept
  <2>3. Claims(a)'
    BY <1>1, <2>1 DEF Claims, CoreKept
  <2> QED  BY <2>2, <2>3
<1>7. CompleteRests' /\ ClaimsTrue'
  BY <1>1, <1>5, <1>6 DEF CompleteRests, ClaimsTrue
<1> QED  BY <1>2, <1>4, <1>7 DEF Core

LEMMA IndexRowCore ==
    ASSUME Core, Client(IndexRow) PROVE Core'
<1>1. PICK r \in late : rows' = rows \cup {r} /\ late' = late \ {r}
  BY DEF Client, IndexRow
<1>2. rows' \cup late' = rows \cup late
  BY <1>1
<1>3. UNCHANGED <<order, tx, world, clientVars, cache, job>> /\ Explored /\ tx \in Transaction
  BY DEF Client, IndexRow, Core, Here, Ground
<1>4. Explored'
  BY <1>2, <1>3 DEF Explored, Distinct
<1>5. CoreKept(tx, tx') /\ tx' \in Transaction
  BY <1>3 DEF CoreKept
<1> QED  BY <1>3, <1>4, <1>5, WorldGoesOn

LEMMA IndexTransactionCore ==
    ASSUME Core, Client(IndexTransaction) PROVE Core'
<1>1. PICK stage \in Stages : tx' = [tx EXCEPT !.stage = stage]
  BY DEF Client, IndexTransaction, Stages
<1>2. UNCHANGED <<order, rows, late, world, clientVars, cache, job>> /\ Explored /\ tx \in Transaction
  BY DEF Client, IndexTransaction, Core, Here, Ground
<1>3. Explored'
  BY <1>2 DEF Explored, Distinct
<1>4. CoreKept(tx, tx') /\ tx' \in Transaction
  BY <1>1, <1>2 DEF CoreKept, Transaction
<1> QED  BY <1>2, <1>3, <1>4, WorldGoesOn

LEMMA RelayFillsCore ==
    ASSUME Core, RelayFills PROVE Core'
<1>1. tx' = [tx EXCEPT !.relay.filled = TRUE]
  BY DEF RelayFills
<1>2. UNCHANGED <<order, rows, late, world, clientVars, cache, job>> /\ Explored /\ tx \in Transaction
  BY DEF RelayFills, Core, Here, Ground
<1>3. Explored'
  BY <1>2 DEF Explored, Distinct
<1>4. tx.relay \in [filled : BOOLEAN, matches : BOOLEAN, enough : BOOLEAN]
  BY <1>2 DEF Transaction
<1> DEFINE relay == [tx.relay EXCEPT !.filled = TRUE]
<1>5. tx' = [tx EXCEPT !.relay = relay]
  BY <1>1, <1>2 DEF Transaction
<1>6. /\ relay \in [filled : BOOLEAN, matches : BOOLEAN, enough : BOOLEAN] /\ relay.filled
      /\ relay.matches = tx.relay.matches /\ relay.enough = tx.relay.enough
  BY <1>4
<1> HIDE DEF relay
<1>7. CoreKept(tx, tx') /\ tx' \in Transaction
  BY <1>2, <1>5, <1>6 DEF CoreKept, Transaction
<1> QED  BY <1>2, <1>3, <1>7, WorldGoesOn

\* A step of the client that begins no request.
LEMMA ClientCore ==
    ASSUME Core, ClientOK', NoneBegun, UNCHANGED <<explorerVars, world, cache, job>>
    PROVE  Core'
<1>1. /\ UNCHANGED <<order, rows, late, tx, role, factory, subject, saved, pools, job>>
      /\ Explored /\ Here /\ JobsOK /\ CacheOK /\ AllPlaced /\ CompleteRests /\ ClaimsTrue
  BY DEF explorerVars, world, cache, Core
<1>2. Explored' /\ Here' /\ CacheOK'
  BY <1>1 DEF Explored, Here, Ground, CacheOK, PoolsTrue, Distinct
<1>3. JobsOK' /\ AllPlaced'
  BY <1>1 DEF JobsOK, AllPlaced, NoneBegun
<1> DEFINE X == {}
<1>4. /\ \A x \in X : x.version = Version /\ Rests(x) /\ Claims(x)
      /\ saved' \in {saved} \cup X
      /\ \A d \in Callers : role[d] = "analyze" => job'[d].answer \in {job[d].answer, NoAnalysis} \cup X
  BY <1>1
<1> HIDE DEF X
<1>5. (CompleteRests /\ ClaimsTrue)'
  BY <1>1, <1>4, AnswersStep
<1> QED  BY <1>2, <1>3, <1>5 DEF Core

LEMMA GrantCore ==
    ASSUME Core, GrantNext PROVE Core'
<1>1. Grant /\ UNCHANGED <<explorerVars, world, cache, job>>
  BY DEF GrantNext, Client, Grant
<1> QED  BY <1>1, GrantOK, ClientCore DEF Core

LEMMA WaitsCore ==
    ASSUME Core, NEW c \in Callers, Waits(c) \/ Gives(c) PROVE Core'
<1>1. Reply(c) \/ WakeUp(c) \/ Cancel(c)
  BY DEF Waits, Gives, Client
<1>2. UNCHANGED <<explorerVars, world, cache, job>>
  BY DEF Waits, Gives, Client, Reply, WakeUp, Cancel, Unavailable, Refuse, AnswerPage, AnswerOne
<1>3. ClientOK /\ rows \subseteq Row /\ RowsOK
  BY CoreParts
<1>4. ClientOK' /\ NoneBegun
  BY <1>1, <1>3, UnavailableOK, RefuseOK, AnswerPageOK, AnswerOneOK, WakeUpOK, CancelOK DEF Reply
<1> QED  BY <1>2, <1>4, ClientCore
-----------------------------------------------------------------------------
(* The synchronisation of an address *)

LEMMA ListCore ==
    ASSUME Core, NEW c \in Callers, ListAddress(c) PROVE Core'
<1>1. UNCHANGED <<explorerVars, world, cache>>
  BY DEF ListAddress, BeginList, TakeList, Write, Claim
<1>2. ClientOK /\ rows \subseteq Row
  BY CoreParts
<1>3. CASE UNCHANGED clientVars /\ job[c].step \in {"start", "write"} /\ \E step \in {"end", "write"} : Goes(c, step)
  <2>1. ClientOK' /\ Only(c) /\ call'[c].at \notin Underway
    BY <1>2, <1>3, ClientSame DEF Core, AllPlaced, Waiting, clientVars
  <2> QED  BY <1>1, <1>3, <2>1, GoesCore DEF Steps
<1>4. CASE UNCHANGED clientVars /\ call[c].at = "done" /\ \E step \in {"end", "write"} : Goes(c, step)
  <2>1. ClientOK' /\ Only(c) /\ call'[c].at \notin Underway
    BY <1>2, <1>4, ClientSame DEF clientVars, Underway
  <2> QED  BY <1>1, <1>4, <2>1, GoesCore DEF Steps
<1>5. CASE job[c].step = "start" /\ Goes(c, "list") /\ \E limit \in Limits : Ask(c, "list", limit)
  <2>1. PICK limit \in Limits : Ask(c, "list", limit)
    BY <1>5
  <2>2. limit \in Nat
    BY <2>1, IngestAssumption DEF Limits
  <2>3. call[c].at # "queued"
    BY <1>5, CoreParts DEF Waiting
  <2>4. ClientOK' /\ Only(c)
    BY <1>2, <2>1, <2>2, <2>3, AskOK DEF Asks
  <2> QED  BY <1>1, <1>5, <2>4, GoesCore DEF Steps, Waiting
<1>6. CASE UNCHANGED <<clientVars, job>>
  <2>1. ClientOK' /\ NoneBegun
    BY <1>2, <1>6, ClientSame
  <2> QED  BY <1>1, <1>6, <2>1, ClientCore
<1>7. CASE BeginList(c)
  BY <1>3, <1>5, <1>7 DEF BeginList, Fail
<1>8. CASE TakeList(c)
  BY <1>4, <1>8 DEF TakeList, Fail, Got
<1>9. CASE Write(c)
  BY <1>3, <1>6, <1>9 DEF Write, Fail
<1>10. CASE Claim(c)
  BY <1>3, <1>10 DEF Claim, Fail, Stored
<1> QED  BY <1>7, <1>8, <1>9, <1>10 DEF ListAddress
-----------------------------------------------------------------------------
(* The store, and those who read it *)

LeftOK  == /\ left \in [Callers -> SUBSET Document]
           /\ \A c \in Callers : left[c] # {} => job[c].step = "write"
ReadOK  == read \in [Callers -> Reader]
StoreOK == StoreTypeOK /\ ReadOK /\ LeftOK

LEMMA ServeLeft ==
    ASSUME job \in [Callers -> Jobs], LeftOK, NEW c \in Callers, Serve(c), UNCHANGED left PROVE LeftOK'
<1>1. \A d \in Callers \ {c} : job'[d] = job[d]
  <2>1. \E j : job' = [job EXCEPT ![c] = j]
    <3>1. CASE Lookup(c) \/ TakeTransaction(c) \/ TakeReceipt(c)
      BY <3>1 DEF Lookup, TakeTransaction, TakeReceipt, Failed, Answer, Goes
    <3>2. CASE TakeInternals(c)
      BY <3>2 DEF TakeInternals, Failed, Answer
    <3>3. CASE LookupPool(c)
      BY <3>3 DEF LookupPool, Judged, Goes
    <3>4. CASE TakeRead(c)
      BY <3>4 DEF TakeRead, ReadFails, Judged
    <3>5. CASE ParseLogs(c) \/ VerifyRelay(c) \/ Save(c)
      BY <3>5 DEF ParseLogs, VerifyRelay, Save, Failed, Answer, Goes
    <3>6. CASE Inspect(c) \/ TakeCode(c)
      BY <3>6 DEF Inspect, TakeCode, Failed, Answer, Goes
    <3> QED  BY <3>1, <3>2, <3>3, <3>4, <3>5, <3>6 DEF Serve
  <2> QED  BY <2>1
<1>2. job[c].step # "write"
  BY DEF Serve, Lookup, TakeTransaction, TakeReceipt, TakeInternals, LookupPool, TakeRead, ParseLogs,
         VerifyRelay, Save, Inspect, TakeCode, Got
<1> QED  BY <1>1, <1>2 DEF LeftOK

LEMMA GoesTo ==
    ASSUME job \in [Callers -> Jobs], NEW c \in Callers, NEW step, Goes(c, step)
    PROVE  job'[c].step = step /\ \A d \in Callers \ {c} : job'[d] = job[d]
<1>1. job[c] \in Jobs
  OBVIOUS
<1>2. job'[c] = [job[c] EXCEPT !.step = step] /\ \A d \in Callers \ {c} : job'[d] = job[d]
  BY DEF Goes
<1> QED  BY <1>1, <1>2 DEF Jobs

LEMMA DocumentsOf ==
    ASSUME NEW k, k.raw \in Seq(Row)
    PROVE  Documents(k) \subseteq Document
<1> DEFINE raw == k.raw
<1>1. Returned(k) \subseteq DOMAIN raw /\ DOMAIN raw = 1 .. Len(raw)
  BY DEF Returned, Places
<1>2. ASSUME NEW i \in Returned(k)
      PROVE  [block |-> k.raw[i].block, key |-> k.raw[i].key, log |-> Identity(k.raw, i).log,
              peer |-> k.raw[i].peer, amount |-> k.raw[i].amount] \in Document
  <2>1. raw[i] \in Row /\ i \in 1 .. Len(raw)
    BY <1>1, <1>2
  <2>2. raw[i].block \in Nat /\ raw[i].key \in Nat /\ raw[i].nr \in Nat /\ raw[i].peer \in Nat /\ raw[i].amount \in Nat
    BY <2>1 DEF Row
  <2>3. Cardinality(Counted(raw, i)) \in Nat
    <3>1. IsFiniteSet(1 .. i - 1)
      BY <2>1, FS_Interval
    <3> QED  BY <3>1, FS_Subset, FS_CardinalityType DEF Counted
  <2>4. Identity(raw, i).log \in Int
    BY <2>2, <2>3 DEF Identity
  <2> HIDE DEF raw
  <2> QED  BY <2>2, <2>4 DEF Document, raw
<1> QED  BY <1>2 DEF Documents

LEMMA UpsertOK ==
    ASSUME docs \subseteq Document, IsFiniteSet(docs), Unique(docs), NEW d \in Document, Upsert(d)
    PROVE  (docs \subseteq Document /\ IsFiniteSet(docs) /\ Unique(docs))'
<1>1. docs' = {e \in docs : e.key # d.key \/ e.log # d.log} \cup {d}
  BY DEF Upsert
<1>2. IsFiniteSet({e \in docs : e.key # d.key \/ e.log # d.log})
  BY FS_Subset
<1>3. IsFiniteSet(docs')
  BY <1>1, <1>2, FS_AddElement
<1> QED  BY <1>1, <1>3 DEF Unique

LEMMA FailStore ==
    ASSUME job \in [Callers -> Jobs], StoreOK, NEW c \in Callers, Fail(c), UNCHANGED <<profiles, read>>
    PROVE  StoreOK'
<1>1. LeftOK'
  BY GoesTo DEF Fail, StoreOK, LeftOK
<1>2. addr' \in Address
  BY DEF Fail, StoreOK, StoreTypeOK, Address
<1> QED  BY <1>1, <1>2 DEF Fail, StoreOK, StoreTypeOK, ReadOK

LEMMA ListStore ==
    ASSUME Core, StoreOK, NEW c \in Callers, ListAddress(c)
    PROVE  StoreOK'
<1>1. job \in [Callers -> Jobs] /\ UNCHANGED <<profiles, read>> /\ addr \in Address /\ call[c].raw \in Seq(Row)
  BY CoreParts DEF ListAddress, BeginList, TakeList, Write, Claim, StoreOK, StoreTypeOK, CallOK, Calls
<1>2. CASE Fail(c)
  BY <1>1, <1>2, FailStore
<1>3. CASE /\ job[c].step = "start" /\ Goes(c, "list") /\ addr' = [addr EXCEPT !.status = "running"]
           /\ UNCHANGED <<docs, left>>
  <2>1. LeftOK'
    BY <1>1, <1>3, GoesTo DEF StoreOK, LeftOK
  <2>2. addr' \in Address
    BY <1>1, <1>3 DEF Address
  <2> QED  BY <1>1, <1>3, <2>1, <2>2 DEF StoreOK, StoreTypeOK, ReadOK
<1>4. CASE Goes(c, "write") /\ left' = [left EXCEPT ![c] = Documents(call[c])] /\ UNCHANGED <<docs, addr>>
  <2>1. Documents(call[c]) \in SUBSET Document
    BY <1>1, DocumentsOf
  <2>2. LeftOK'
    BY <1>1, <1>4, <2>1, GoesTo DEF StoreOK, LeftOK
  <2> QED  BY <1>1, <1>4, <2>2 DEF StoreOK, StoreTypeOK, ReadOK
<1>5. ASSUME NEW d \in left[c], Upsert(d), left' = [left EXCEPT ![c] = @ \ {d}], UNCHANGED <<addr, job>>
      PROVE  StoreOK'
  <2>1. d \in Document
    BY <1>5 DEF StoreOK, LeftOK
  <2>2. (docs \subseteq Document /\ IsFiniteSet(docs) /\ Unique(docs))'
    BY <1>5, <2>1, UpsertOK DEF StoreOK, StoreTypeOK
  <2>3. LeftOK'
    BY <1>5 DEF StoreOK, LeftOK
  <2> QED  BY <1>1, <1>5, <2>2, <2>3 DEF StoreOK, StoreTypeOK, ReadOK
<1>6. CASE /\ left[c] = {} /\ Goes(c, "end") /\ UNCHANGED <<docs, left>>
           /\ addr' = IF Out(c) = "whole" THEN [status |-> "synced", ever |-> TRUE, lo |-> 0, hi |-> SafeHead]
                      ELSE [addr EXCEPT !.status = "partial", !.ever = TRUE]
  <2>1. LeftOK'
    BY <1>1, <1>6, GoesTo DEF StoreOK, LeftOK
  <2>2. addr' \in Address
    <3>1. CASE Out(c) = "whole"
      BY <1>6, <3>1, IngestAssumption DEF Address
    <3>2. CASE Out(c) # "whole"
      BY <1>1, <1>6, <3>2 DEF Address
    <3> QED  BY <3>1, <3>2
  <2> QED  BY <1>1, <1>6, <2>1, <2>2 DEF StoreOK, StoreTypeOK, ReadOK
<1>7. CASE BeginList(c)
  BY <1>2, <1>3, <1>7 DEF BeginList
<1>8. CASE TakeList(c)
  BY <1>2, <1>4, <1>8 DEF TakeList
<1>9. CASE Write(c)
  BY <1>2, <1>5, <1>9 DEF Write
<1>10. CASE Claim(c)
  BY <1>2, <1>6, <1>10 DEF Claim, Stored
<1> QED  BY <1>7, <1>8, <1>9, <1>10 DEF ListAddress

\* A finite collection has a latest document.
LEMMA LatestOf ==
    ASSUME NEW D, D \subseteq Document, IsFiniteSet(D), D # {}
    PROVE  \E d \in D : \A e \in D : e.block <= d.block
<1> DEFINE Has(E) == \E d \in E : \A e \in E : e.block <= d.block
           S == {n \in Nat : \A E \in SUBSET D : E # {} /\ Cardinality(E) = n => Has(E)}
<1>0. \A d \in D : d.block \in Nat
  BY DEF Document
<1>1. ASSUME NEW E \in SUBSET D PROVE IsFiniteSet(E) /\ Cardinality(E) \in Nat /\ (E # {} => Cardinality(E) # 0)
  BY FS_Subset, FS_CardinalityType, FS_EmptySet
<1>2. 0 \in S
  BY <1>1
<1>3. ASSUME NEW n \in Nat, n \in S PROVE n + 1 \in S
  <2> SUFFICES ASSUME NEW E \in SUBSET D, E # {}, Cardinality(E) = n + 1 PROVE Has(E)
    OBVIOUS
  <2>1. PICK x \in E : TRUE
    OBVIOUS
  <2> DEFINE F == E \ {x}
             k == Cardinality(F)
  <2>0. IsFiniteSet(E)
    BY <1>1
  <2>a. k = Cardinality(E) - 1
    BY <2>0, <2>1, FS_RemoveElement
  <2>b. F \in SUBSET D
    OBVIOUS
  <2>c. k \in Nat
    BY <1>1, <2>b
  <2> HIDE DEF k
  <2>d. k = n
    BY <2>a, <2>c
  <2>2. Cardinality(E \ {x}) = n
    BY <2>d DEF k
  <2>3. CASE E \ {x} = {}
    BY <1>0, <2>1, <2>3
  <2>4. CASE E \ {x} # {}
    <3>1. Has(E \ {x})
      BY <1>3, <2>2, <2>4
    <3>2. PICK y \in E \ {x} : \A e \in E \ {x} : e.block <= y.block
      BY <3>1
    <3>3. x.block \in Nat /\ y.block \in Nat /\ \A e \in E : e.block \in Nat
      BY <1>0
    <3>4. CASE x.block <= y.block
      BY <3>2, <3>4
    <3>5. CASE ~(x.block <= y.block)
      BY <3>2, <3>3, <3>5
    <3> QED  BY <3>4, <3>5
  <2> QED  BY <2>3, <2>4
<1> HIDE DEF S
<1>4. Cardinality(D) \in S
  BY <1>1, <1>2, <1>3, SetInduction
<1> QED  BY <1>4 DEF S

LEMMA ReadChanges ==
    ASSUME ReadOK, NEW c \in Callers, NEW r \in Reader, read' = [read EXCEPT ![c] = r] PROVE ReadOK'
BY DEF ReadOK

LEMMA StopsOK ==
    ASSUME ReadOK, NEW c \in Callers, Stops(c) PROVE ReadOK'
<1>1. read[c] \in Reader /\ read' = [read EXCEPT ![c] = [read[c] EXCEPT !.step = "end"]]
  BY DEF ReadOK, Stops
<1>2. [read[c] EXCEPT !.step = "end"] \in Reader
  BY <1>1 DEF Reader
<1> QED  BY <1>1, <1>2, ReadChanges

LEMMA OpenOK ==
    ASSUME StoreOK, NEW c \in Callers, NEW step \in {"query", "find"}, Open(c, step) PROVE ReadOK'
<1>1. ReadOK /\ read[c] \in Reader /\ addr.lo \in Nat /\ addr.hi \in Int /\ docs \in SUBSET Document
  BY DEF StoreOK, StoreTypeOK, ReadOK, Address
<1>2. CASE Stops(c)
  BY <1>1, <1>2, StopsOK
<1>3. CASE read' = [read EXCEPT ![c].step = step, ![c].lo = addr.lo, ![c].hi = addr.hi,
                                ![c].before = IF read[c].step = "start" THEN docs ELSE @]
  <2> DEFINE before == IF read[c].step = "start" THEN docs ELSE read[c].before
             r == [read[c] EXCEPT !.step = step, !.lo = addr.lo, !.hi = addr.hi, !.before = before]
  <2>1. before \in SUBSET Document
    BY <1>1 DEF Reader
  <2>2. read' = [read EXCEPT ![c] = r]
    BY <1>1, <1>3 DEF ReadOK
  <2> HIDE DEF before
  <2>3. r \in Reader
    BY <1>1, <2>1 DEF Reader
  <2> HIDE DEF r
  <2> QED  BY <1>1, <2>2, <2>3, ReadChanges
<1> QED  BY <1>2, <1>3 DEF Open

LEMMA QueryOK ==
    ASSUME StoreOK, NEW c \in Callers, QueryPage(c) PROVE ReadOK'
<1> DEFINE found == First({d \in docs : Positive(d) /\ Beyond(d, read[c].after)}, PageLimit + 1)
           items == First(found, PageLimit)
           more  == Cardinality(found) > PageLimit
           step  == IF more THEN "next" ELSE "end"
           after == IF more THEN LastIn(items) ELSE read[c].after
           page  == [items |-> items, beyond |-> read[c].after, more |-> more, lo |-> read[c].lo, hi |-> read[c].hi]
           pages == Append(read[c].pages, page)
           r     == [read[c] EXCEPT !.step = step, !.after = after, !.pages = pages]
<1>1. ReadOK /\ read[c] \in Reader /\ docs \in SUBSET Document
  BY DEF StoreOK, StoreTypeOK, ReadOK
<1>2. read' = [read EXCEPT ![c] = r]
  BY <1>1 DEF QueryPage, ReadOK
<1>3. /\ read[c].after \in SUBSET Document /\ read[c].pages \in Seq(Page)
      /\ read[c].lo \in Nat /\ read[c].hi \in Int
  BY <1>1 DEF Reader
<1>4. items \in SUBSET Document /\ LastIn(items) \in SUBSET Document
  BY <1>1 DEF First, LastIn
<1>5. after \in SUBSET Document /\ step \in {"next", "end"} /\ more \in BOOLEAN
  BY <1>3, <1>4
<1> HIDE DEF items, more, after, step
<1>6. page \in Page
  BY <1>3, <1>4, <1>5 DEF Page
<1> HIDE DEF page
<1>7. pages \in Seq(Page)
  BY <1>3, <1>6
<1> HIDE DEF pages
<1>8. r \in Reader
  BY <1>1, <1>5, <1>7 DEF Reader
<1> HIDE DEF r
<1> QED  BY <1>1, <1>2, <1>8, ReadChanges

LEMMA ProfileOK ==
    ASSUME StoreOK, NEW c \in Callers, FindProfile(c) \/ Lifetime(c) \/ WindowCount(c) \/ SaveProfile(c)
    PROVE  ReadOK' /\ profiles' \subseteq Profile
<1>1. /\ ReadOK /\ read[c] \in Reader /\ read \in [Callers -> Reader] /\ docs \subseteq Document
      /\ IsFiniteSet(docs) /\ profiles \subseteq Profile
  BY DEF StoreOK, StoreTypeOK, ReadOK
<1>2. \A D \in SUBSET docs : IsFiniteSet(D) /\ Cardinality(D) \in Nat
  BY <1>1, FS_Subset, FS_CardinalityType
<1>3. CASE FindProfile(c)
  <2>1. UNCHANGED profiles
    BY <1>3 DEF FindProfile
  <2>2. CASE Stops(c)
    BY <1>1, <2>1, <2>2, StopsOK
  <2>3. ASSUME NEW p \in Snapshot(read[c].hi), read' = [read EXCEPT ![c].step = "end", ![c].profile = {p}]
        PROVE  ReadOK'
    <3> DEFINE r == [read[c] EXCEPT !.step = "end", !.profile = {p}]
    <3>1. read' = [read EXCEPT ![c] = r]
      BY <1>1, <2>3
    <3>2. {p} \subseteq Profile
      BY <1>1, <2>3 DEF Snapshot
    <3>3. r \in Reader
      BY <1>1, <3>2 DEF Reader
    <3> QED  BY <1>1, <3>1, <3>3, ReadChanges
  <2>4. CASE read' = [read EXCEPT ![c].step = "lifetime"]
    <3> DEFINE r == [read[c] EXCEPT !.step = "lifetime"]
    <3>1. read' = [read EXCEPT ![c] = r]
      BY <1>1, <2>4
    <3>2. r \in Reader
      BY <1>1 DEF Reader
    <3> HIDE DEF r
    <3> QED  BY <1>1, <2>1, <3>1, <3>2, ReadChanges
  <2> QED  BY <1>1, <1>3, <2>1, <2>2, <2>3, <2>4 DEF FindProfile
<1>4. CASE Lifetime(c)
  <2> DEFINE all == {d \in docs : Positive(d)}
             last == CHOOSE d \in all : \A e \in all : e.block <= d.block
  <2>1. UNCHANGED profiles
    BY <1>4 DEF Lifetime
  <2>2. CASE Stops(c)
    BY <1>1, <2>1, <2>2, StopsOK
  <2>3. CASE read' = [read EXCEPT ![c].step = "save"]
    <3> DEFINE r == [read[c] EXCEPT !.step = "save"]
    <3>1. read' = [read EXCEPT ![c] = r] /\ r \in Reader
      BY <1>1, <2>3 DEF Reader
    <3> QED  BY <1>1, <2>1, <3>1, ReadChanges
  <2>4. CASE all # {} /\ read' = [read EXCEPT ![c].step = "window", ![c].total = Cardinality(all), ![c].latest = last.block]
    <3> DEFINE total == Cardinality(all)
               latest == last.block
               r == [read[c] EXCEPT !.step = "window", !.total = total, !.latest = latest]
    <3>1. all \subseteq Document /\ IsFiniteSet(all) /\ total \in Nat
      BY <1>1, <1>2
    <3>2. last \in all
      <4> HIDE DEF all
      <4>1. \E d \in all : \A e \in all : e.block <= d.block
        BY <2>4, <3>1, LatestOf
      <4> QED  BY <4>1
    <3>3. latest \in Nat
      BY <3>1, <3>2 DEF Document
    <3>a. read' = [read EXCEPT ![c].step = "window", ![c].total = total, ![c].latest = latest]
      BY <2>4, Zenon
    <3> HIDE DEF total, latest
    <3>4. read' = [read EXCEPT ![c] = r]
      BY <1>1, <3>a
    <3>5. r \in Reader
      BY <1>1, <3>1, <3>3 DEF Reader
    <3> HIDE DEF r
    <3> QED  BY <1>1, <2>1, <3>4, <3>5, ReadChanges
  <2> QED  BY <1>4, <2>2, <2>3, <2>4 DEF Lifetime
<1>5. CASE WindowCount(c)
  <2>1. UNCHANGED profiles
    BY <1>5 DEF WindowCount
  <2>2. CASE Stops(c)
    BY <1>1, <2>1, <2>2, StopsOK
  <2>3. CASE ~Stops(c)
    <3> DEFINE recent == Cardinality({d \in docs : Positive(d) /\ d.block \in read[c].latest - Recent .. read[c].latest})
               r == [read[c] EXCEPT !.step = "save", !.recent = recent]
    <3>1. recent \in Nat
      BY <1>2
    <3>2. read' = [read EXCEPT ![c] = r]
      BY <1>1, <1>5, <2>3 DEF WindowCount
    <3> HIDE DEF recent
    <3>3. r \in Reader
      BY <1>1, <3>1 DEF Reader
    <3> HIDE DEF r
    <3> QED  BY <1>1, <2>1, <3>2, <3>3, ReadChanges
  <2> QED  BY <2>2, <2>3
<1>6. CASE SaveProfile(c)
  <2> DEFINE p == [hi |-> read[c].hi, lo |-> read[c].lo, total |-> read[c].total,
                   latest |-> read[c].latest, recent |-> read[c].recent]
             r == [read[c] EXCEPT !.step = "end", !.profile = {p}]
  <2>1. p \in Profile
    BY <1>1 DEF Reader, Profile
  <2>2. CASE Stops(c) /\ UNCHANGED profiles
    BY <1>1, <2>2, StopsOK
  <2>3. CASE /\ profiles' = {q \in profiles : q.hi # p.hi} \cup {p}
             /\ read' = [read EXCEPT ![c].step = "end", ![c].profile = {p}]
    <3>1. profiles' \subseteq Profile
      BY <1>1, <2>1, <2>3
    <3>2. read' = [read EXCEPT ![c] = r]
      BY <1>1, <2>3
    <3> HIDE DEF p
    <3>3. r \in Reader
      BY <1>1, <2>1 DEF Reader
    <3> HIDE DEF r
    <3> QED  BY <1>1, <3>1, <3>2, <3>3, ReadChanges
  <2> QED  BY <1>6, <2>2, <2>3 DEF SaveProfile
<1> QED  BY <1>3, <1>4, <1>5, <1>6

LEMMA ReadStore ==
    ASSUME StoreOK, NEW c \in Callers, ReadAddress(c), UNCHANGED <<analysisVars, left>>
    PROVE  StoreOK'
<1>1. UNCHANGED <<docs, addr>>
  BY DEF ReadAddress, OpenPage, OpenProfile, Open, QueryPage, FindProfile, Lifetime, WindowCount, SaveProfile
<1>2. ReadOK' /\ profiles' \subseteq Profile
  <2>1. CASE OpenPage(c) \/ OpenProfile(c)
    <3>1. UNCHANGED profiles /\ \E step \in {"query", "find"} : Open(c, step)
      BY <2>1 DEF OpenPage, OpenProfile, Open
    <3> QED  BY <3>1, OpenOK DEF StoreOK, StoreTypeOK
  <2>2. CASE QueryPage(c)
    BY <2>2, QueryOK DEF QueryPage, StoreOK, StoreTypeOK
  <2>3. CASE FindProfile(c) \/ Lifetime(c) \/ WindowCount(c) \/ SaveProfile(c)
    BY <2>3, ProfileOK
  <2> QED  BY <2>1, <2>2, <2>3 DEF ReadAddress
<1>3. LeftOK'
  BY DEF StoreOK, LeftOK, analysisVars
<1> QED  BY <1>1, <1>2, <1>3 DEF StoreOK, StoreTypeOK
-----------------------------------------------------------------------------
(* Listings *)

LEMMA NumbersTaken ==
    ASSUME NEW T, IsFiniteSet(T), NEW f \in Injection(T, 1 .. Cardinality(T))
    PROVE  \A m \in 1 .. Cardinality(T) : \E t \in T : f[t] = m
<1> DEFINE N == Cardinality(T)
<1>1. N \in Nat /\ IsFiniteSet(1 .. N) /\ Cardinality(1 .. N) = N
  BY FS_CardinalityType, FS_Interval
<1>2. f \in Surjection(T, 1 .. N)
  BY <1>1, FS_Injection
<1> QED  BY <1>2 DEF Surjection

\* The members of a finite set whose number is at most n.
LEMMA FirstFew ==
    ASSUME NEW T, IsFiniteSet(T), NEW f \in Injection(T, 1 .. Cardinality(T)),
           NEW n \in Nat, n <= Cardinality(T)
    PROVE  Cardinality({t \in T : f[t] <= n}) = n
<1> DEFINE N == Cardinality(T)
           U == {t \in T : f[t] <= n}
           g == [t \in U |-> f[t]]
<1>1. N \in Nat
  BY FS_CardinalityType
<1>2. \A m \in 1 .. N : \E t \in T : f[t] = m
  BY NumbersTaken
<1>3. (\A t \in T : f[t] \in 1 .. N) /\ \A t, u \in T : f[t] = f[u] => t = u
  BY DEF Injection, IsInjective
<1> HIDE DEF N
<1>4. g \in Injection(U, 1 .. n)
  BY <1>1, <1>3 DEF Injection, IsInjective
<1>5. \A m \in 1 .. n : \E t \in U : g[t] = m
  BY <1>1, <1>2, <1>3 DEF N
<1>6. g \in Surjection(U, 1 .. n)
  BY <1>4, <1>5 DEF Injection, Surjection
<1>7. IsFiniteSet(1 .. n) /\ Cardinality(1 .. n) = n
  BY FS_Interval
<1> QED  BY <1>4, <1>6, <1>7, FS_Injection

Upto(T, i) == {j \in T : j <= i}

\* Numbers have a place among each other.
LEMMA Numbering ==
    ASSUME NEW T, T \subseteq Nat, IsFiniteSet(T)
    PROVE  /\ \A i \in T : Cardinality(Upto(T, i)) \in 1 .. Cardinality(T)
           /\ \A i, j \in T : i < j => Cardinality(Upto(T, i)) < Cardinality(Upto(T, j))
           /\ [i \in T |-> Cardinality(Upto(T, i))] \in Injection(T, 1 .. Cardinality(T))
<1> DEFINE f == [i \in T |-> Cardinality(Upto(T, i))]
<1>1. Cardinality(T) \in Nat
  BY FS_CardinalityType
<1>2. ASSUME NEW i \in T
      PROVE  /\ IsFiniteSet(Upto(T, i)) /\ Cardinality(Upto(T, i)) \in Nat
             /\ Cardinality(Upto(T, i)) <= Cardinality(T) /\ Cardinality(Upto(T, i)) # 0
  <2>1. Upto(T, i) \subseteq T /\ i \in Upto(T, i)
    BY DEF Upto
  <2> QED  BY <2>1, FS_Subset, FS_CardinalityType, FS_EmptySet
<1>3. \A i \in T : Cardinality(Upto(T, i)) \in 1 .. Cardinality(T)
  BY <1>1, <1>2
<1>4. ASSUME NEW i \in T, NEW j \in T, i < j
      PROVE  Cardinality(Upto(T, i)) < Cardinality(Upto(T, j))
  <2>0. (\A x \in T : x <= i => x <= j) /\ ~(j <= i) /\ j <= j
    BY <1>4
  <2>1. Upto(T, i) \cup {j} \subseteq Upto(T, j) /\ j \notin Upto(T, i)
    BY <2>0, Zenon DEF Upto
  <2>2. Cardinality(Upto(T, i) \cup {j}) = Cardinality(Upto(T, i)) + 1
    BY <1>2, <2>1, FS_AddElement
  <2>3. Cardinality(Upto(T, i) \cup {j}) <= Cardinality(Upto(T, j))
    BY <1>2, <2>1, FS_Subset
  <2> QED  BY <1>2, <2>2, <2>3
<1>5. \A i, j \in T : f[i] = f[j] => i = j
  <2> SUFFICES ASSUME NEW i \in T, NEW j \in T, f[i] = f[j], i # j PROVE FALSE
    OBVIOUS
  <2>1. f[i] \in Nat /\ f[j] \in Nat /\ i \in Nat /\ j \in Nat
    BY <1>2
  <2>2. (i < j => f[i] < f[j]) /\ (j < i => f[j] < f[i])
    BY <1>4
  <2> HIDE DEF f
  <2> QED  BY <2>1, <2>2
<1>6. f \in Injection(T, 1 .. Cardinality(T))
  BY <1>3, <1>5 DEF Injection, IsInjective
<1> QED  BY <1>3, <1>4, <1>6

LEMMA NumberedBy ==
    ASSUME NEW T, T \subseteq Nat, IsFiniteSet(T), NEW n \in 1 .. Cardinality(T)
    PROVE  \E i \in T : Cardinality(Upto(T, i)) = n
<1> DEFINE f == [i \in T |-> Cardinality(Upto(T, i))]
<1>1. f \in Injection(T, 1 .. Cardinality(T))
  BY Numbering
<1> HIDE DEF f
<1>2. PICK i \in T : f[i] = n
  BY <1>1, NumbersTaken
<1> QED  BY <1>2 DEF f

\* The first n numbers of a set are n, and before the others.
LEMMA FirstOf ==
    ASSUME NEW T, T \subseteq Nat, IsFiniteSet(T), NEW n \in Nat, n <= Cardinality(T)
    PROVE  /\ Cardinality({i \in T : Cardinality(Upto(T, i)) <= n}) = n
           /\ \A i, j \in T : Cardinality(Upto(T, i)) <= n /\ ~(Cardinality(Upto(T, j)) <= n) => i < j
<1> DEFINE f == [i \in T |-> Cardinality(Upto(T, i))]
<1>1. f \in Injection(T, 1 .. Cardinality(T)) /\ Cardinality(T) \in Nat
  BY Numbering, FS_CardinalityType
<1>2. {i \in T : Cardinality(Upto(T, i)) <= n} = {i \in T : f[i] <= n}
  OBVIOUS
<1> HIDE DEF f
<1>3. Cardinality({i \in T : f[i] <= n}) = n
  BY <1>1, FirstFew
<1>4. ASSUME NEW i \in T, NEW j \in T, Cardinality(Upto(T, i)) <= n, ~(Cardinality(Upto(T, j)) <= n)
      PROVE  i < j
  <2> DEFINE a == Cardinality(Upto(T, i))
             b == Cardinality(Upto(T, j))
  <2>a. a \in 1 .. Cardinality(T) /\ b \in 1 .. Cardinality(T)
    BY Numbering
  <2>b. j < i => b < a
    BY Numbering
  <2>c. i \in Nat /\ j \in Nat
    OBVIOUS
  <2>1. a \in Nat /\ b \in Nat
    BY <1>1, <2>a
  <2>2. i = j => a = b
    OBVIOUS
  <2>3. a <= n /\ ~(b <= n)
    BY <1>4
  <2> HIDE DEF a, b
  <2> QED  BY <2>1, <2>2, <2>3, <2>b, <2>c
<1> QED  BY <1>2, <1>3, <1>4

\* What the invariant says of one request, for rows R in the order o.
InOrder(o, r, s) == IF o = "asc" THEN Before(r, s) ELSE Before(s, r)
Place(R, o, r) == 1 + Cardinality({s \in R : InOrder(o, s, r)})
Records(k) == {k.raw[i] : i \in Returned(k)}

Going(k, R, o) ==
    k.ask = "list" /\ k.at \in Underway =>
        /\ k.before \cup Seen(k) \subseteq R
        /\ Len(k.raw) = (k.page - 1) * PageSize
        /\ \A r \in k.before \ Seen(k) : Place(R, o, r) > Len(k.raw) /\ \A s \in Seen(k) : InOrder(o, s, r)
        /\ \A r \in k.before \cap Seen(k) :
              \E i \in DOMAIN k.raw : k.raw[i] = r /\ \A j \in 1 .. i - 1 : InOrder(o, k.raw[j], r)
        /\ k.before = R => \A i \in DOMAIN k.raw : Place(R, o, k.raw[i]) = i

Due(k) == {r \in k.before : Retained(r)}

Honest(k, o) ==
    k.at = "done" /\ k.ask = "list" =>
        /\ k.out = "whole" => Due(k) \subseteq Records(k)
        /\ k.out = "page_limit" =>
              {r \in Due(k) : IF o = "asc" THEN r.block < k.raw[Len(k.raw)].block
                              ELSE r.block > k.raw[Len(k.raw)].block} \subseteq Records(k)
        /\ k.out = "record_limit" =>
              /\ Cardinality(Returned(k)) = k.limit
              /\ \A r \in Due(k) \ Records(k) : \A s \in Records(k) : InOrder(o, s, r)

Stable(k) ==
    k.at = "done" /\ k.ask = "list" /\ k.before = k.after =>
        {Identity(k.raw, i) : i \in Returned(k)} = Reference(Records(k))

Listing(k, R, o) == Going(k, R, o) /\ Honest(k, o) /\ Stable(k)

LEMMA ListingParts == ListsInv <=> \A c \in Callers : Listing(call[c], rows, order)
<1>1. \A r, s : Ahead(r, s) <=> InOrder(order, r, s)
  BY DEF Ahead, InOrder
<1>2. \A r : Rank(r) = Place(rows, order, r)
  BY <1>1, Zenon DEF Rank, Place, Ahead, InOrder
<1>3. \A c : Kept(c) = Records(call[c])
  BY Zenon DEF Kept, Records
<1>4. ListingsGoOn <=> \A c \in Callers : Going(call[c], rows, order)
  BY <1>1, <1>2 DEF ListingsGoOn, Going, Underway
<1>5. ListingHonest <=> \A c \in Callers : Honest(call[c], order)
  BY <1>1, <1>3 DEF ListingHonest, Honest, Lists, Due
<1>6. IdentitiesStable <=> \A c \in Callers : Stable(call[c])
  BY <1>3 DEF IdentitiesStable, Stable, Lists
<1> QED  BY <1>4, <1>5, <1>6 DEF ListsInv, Listing

\* One more page: what there was is seen up to its last rank, and in order.
PageRead(k, raw, page) ==
    /\ raw \in Seq(Row) /\ Len(raw) = Len(k.raw) + Len(page)
    /\ k.before \subseteq rows /\ \A i \in DOMAIN raw : raw[i] \in rows
    /\ \A r \in k.before : (\A i \in DOMAIN raw : raw[i] # r) =>
          /\ Len(page) = PageSize /\ Rank(r) > Len(raw)
          /\ \A i \in DOMAIN raw : Ahead(raw[i], r)
    /\ \A r \in k.before : (\E i \in DOMAIN raw : raw[i] = r) =>
          \E i \in DOMAIN raw : raw[i] = r /\ \A j \in 1 .. i - 1 : Ahead(raw[j], r)
    /\ k.before = rows => \A i \in DOMAIN raw : Rank(raw[i]) = i

LEMMA PageIsRead ==
    ASSUME RowsOK, NEW k, CallOK(k), k.ask = "list", k.at \in Underway, Going(k, rows, order)
    PROVE  PageRead(k, k.raw \o PageRows(k.page), PageRows(k.page)) /\ PageRows(k.page) \in Seq(Row)
<1> DEFINE page == PageRows(k.page)
           raw == k.raw \o page
           n == (k.page - 1) * PageSize
           m == Len(page)
           N == Cardinality(rows)
<1>1. k.raw \in Seq(Row) /\ k.page \in Nat \ {0} /\ k.before \subseteq Row
  BY ClientAssumption DEF CallOK, Calls, Underway
<1>2. /\ n \in Nat /\ page \in Seq(Row) /\ m \in 0 .. PageSize
      /\ \A i \in 1 .. m : page[i] \in rows /\ Rank(page[i]) = n + i
      /\ m < PageSize => N <= n + m
  BY <1>1, PageIs
<1>3. /\ Len(k.raw) = n /\ k.before \subseteq rows /\ \A i \in DOMAIN k.raw : k.raw[i] \in rows
      /\ \A r \in k.before : (\A i \in DOMAIN k.raw : k.raw[i] # r) =>
            Rank(r) > n /\ \A i \in DOMAIN k.raw : Ahead(k.raw[i], r)
      /\ \A r \in k.before : (\E i \in DOMAIN k.raw : k.raw[i] = r) =>
            \E i \in DOMAIN k.raw : k.raw[i] = r /\ \A j \in 1 .. i - 1 : Ahead(k.raw[j], r)
      /\ k.before = rows => \A i \in DOMAIN k.raw : Rank(k.raw[i]) = i
  <2>1. \A r, s : Ahead(r, s) <=> InOrder(order, r, s)
    BY DEF Ahead, InOrder
  <2>2. \A r : Rank(r) = Place(rows, order, r)
    BY <2>1, Zenon DEF Rank, Place, Ahead, InOrder
  <2> HIDE DEF n
  <2>3. Len(k.raw) = n
    BY DEF Going, n
  <2> QED  BY <2>1, <2>2, <2>3 DEF Going, Seen
<1>4. /\ raw \in Seq(Row) /\ Len(raw) = n + m /\ DOMAIN raw = 1 .. n + m /\ n + m \in Nat
      /\ \A i \in 1 .. n : raw[i] = k.raw[i]
      /\ \A i \in n + 1 .. n + m : raw[i] = page[i - n]
  <2> DEFINE a == k.raw
  <2>1. a \in Seq(Row) /\ page \in Seq(Row) /\ Len(a) = n /\ Len(page) = m /\ n \in Nat /\ m \in Nat
    BY <1>1, <1>2, <1>3
  <2> HIDE DEF a, page, n, m
  <2>2. a \o page \in Seq(Row) /\ Len(a \o page) = n + m
    BY <2>1
  <2>3. \A i \in 1 .. n : (a \o page)[i] = a[i]
    BY <2>1
  <2>4. \A i \in n + 1 .. n + m : (a \o page)[i] = page[i - n]
    BY <2>1
  <2>5. DOMAIN (a \o page) = 1 .. n + m /\ n + m \in Nat
    BY <2>1, <2>2
  <2> QED  BY <2>2, <2>3, <2>4, <2>5 DEF a
<1>5. DOMAIN k.raw = 1 .. n /\ m \in Nat /\ PageSize \in Nat \ {0}
  <2> HIDE DEF page, n
  <2> QED  BY <1>1, <1>2, <1>3, ClientAssumption
<1> HIDE DEF page, raw, n, m, N
<1>6. \A i \in n + 1 .. n + m : raw[i] \in rows /\ Rank(raw[i]) = i
  <2> SUFFICES ASSUME NEW i \in n + 1 .. n + m PROVE raw[i] \in rows /\ Rank(raw[i]) = i
    OBVIOUS
  <2> DEFINE j == i - n
  <2>1. j \in 1 .. m /\ n + j = i /\ raw[i] = page[j]
    BY <1>2, <1>4, <1>5
  <2> HIDE DEF j
  <2> QED  BY <1>2, <2>1
<1>7. \A i \in DOMAIN raw : raw[i] \in rows
  BY <1>2, <1>3, <1>4, <1>5, <1>6
<1>8. ASSUME NEW r \in k.before, \A i \in DOMAIN k.raw : k.raw[i] # r
      PROVE  /\ r \in rows /\ Rank(r) \in Nat /\ Rank(r) > n
             /\ \A i \in 1 .. n : Ahead(raw[i], r)
             /\ \/ Rank(r) <= n + m /\ raw[Rank(r)] = r
                \/ Rank(r) > n + m /\ m = PageSize
  <2>1. r \in rows /\ Rank(r) \in Nat /\ Rank(r) > n /\ \A i \in 1 .. n : Ahead(raw[i], r)
    BY <1>3, <1>4, <1>5, <1>8, RankRange
  <2>2. CASE Rank(r) <= n + m
    <3>1. Rank(r) \in n + 1 .. n + m
      BY <1>2, <1>5, <2>1, <2>2
    <3>2. raw[Rank(r)] \in rows /\ Rank(raw[Rank(r)]) = Rank(r)
      BY <1>6, <3>1
    <3> QED  BY <2>1, <2>2, <3>2, RankInjective
  <2>3. CASE ~(Rank(r) <= n + m)
    <3>1. Rank(r) <= N /\ N \in Nat
      BY <2>1, RankRange DEF N
    <3> QED  BY <1>2, <1>5, <2>1, <2>3, <3>1
  <2> QED  BY <2>1, <2>2, <2>3
<1>9. ASSUME NEW r \in k.before, \A i \in DOMAIN raw : raw[i] # r
      PROVE  m = PageSize /\ Rank(r) > Len(raw) /\ \A i \in DOMAIN raw : Ahead(raw[i], r)
  <2>1. \A i \in DOMAIN k.raw : k.raw[i] # r
    BY <1>2, <1>4, <1>5, <1>9
  <2>2. r \in rows /\ Rank(r) \in Nat /\ Rank(r) > n /\ \A i \in 1 .. n : Ahead(raw[i], r)
    BY <1>8, <2>1
  <2>3. Rank(r) > n + m /\ m = PageSize
    <3>1. Rank(r) <= n + m => Rank(r) \in DOMAIN raw
      BY <1>2, <1>4, <2>2
    <3> QED  BY <1>8, <1>9, <2>1, <3>1
  <2>4. \A i \in n + 1 .. n + m : Ahead(raw[i], r)
    BY <1>2, <1>5, <1>6, <2>2, <2>3, RankOrder
  <2> QED  BY <1>2, <1>4, <1>5, <2>2, <2>3, <2>4
<1>10. ASSUME NEW r \in k.before, \E i \in DOMAIN raw : raw[i] = r
       PROVE  \E i \in DOMAIN raw : raw[i] = r /\ \A j \in 1 .. i - 1 : Ahead(raw[j], r)
  <2>1. CASE \E i \in DOMAIN k.raw : k.raw[i] = r
    <3>1. PICK i \in DOMAIN k.raw : k.raw[i] = r /\ \A j \in 1 .. i - 1 : Ahead(k.raw[j], r)
      BY <1>3, <2>1
    <3> QED  BY <1>2, <1>4, <1>5, <3>1
  <2>2. CASE \A i \in DOMAIN k.raw : k.raw[i] # r
    <3>1. /\ r \in rows /\ Rank(r) \in Nat /\ Rank(r) > n /\ \A i \in 1 .. n : Ahead(raw[i], r)
          /\ Rank(r) <= n + m /\ raw[Rank(r)] = r
      <4>1. /\ r \in rows /\ Rank(r) \in Nat /\ Rank(r) > n /\ \A i \in 1 .. n : Ahead(raw[i], r)
            /\ \/ Rank(r) <= n + m /\ raw[Rank(r)] = r
               \/ Rank(r) > n + m
        BY <1>8, <2>2
      <4>2. PICK i \in DOMAIN raw : raw[i] = r
        BY <1>10
      <4>3. i \in n + 1 .. n + m
        BY <1>2, <1>4, <1>5, <2>2, <4>2
      <4>4. Rank(r) = i
        BY <1>6, <4>2, <4>3
      <4> QED  BY <1>2, <1>5, <4>1, <4>3, <4>4
    <3>2. \A j \in n + 1 .. Rank(r) - 1 : Ahead(raw[j], r)
      BY <1>2, <1>5, <1>6, <3>1, RankOrder
    <3>3. Rank(r) \in DOMAIN raw /\ \A j \in 1 .. Rank(r) - 1 : Ahead(raw[j], r)
      BY <1>2, <1>4, <1>5, <3>1, <3>2
    <3> QED  BY <3>1, <3>3
  <2> QED  BY <2>1, <2>2
<1>11. k.before = rows => \A i \in DOMAIN raw : Rank(raw[i]) = i
  BY <1>2, <1>3, <1>4, <1>5, <1>6
<1>12. PageRead(k, raw, page)
  BY <1>3, <1>4, <1>7, <1>9, <1>10, <1>11 DEF PageRead, m
<1> QED  BY <1>2, <1>12 DEF page, raw

LEMMA PlacesAre ==
    ASSUME NEW raw \in Seq(Row)
    PROVE  /\ Places(raw) \subseteq 1 .. Len(raw) /\ Places(raw) \subseteq Nat /\ IsFiniteSet(Places(raw))
           /\ Cardinality(Places(raw)) \in Nat
           /\ \A i \in DOMAIN raw : Retained(raw[i]) => i \in Places(raw)
<1>1. DOMAIN raw = 1 .. Len(raw) /\ Len(raw) \in Nat
  OBVIOUS
<1>2. Places(raw) \subseteq 1 .. Len(raw)
  BY <1>1 DEF Places
<1>3. IsFiniteSet(1 .. Len(raw))
  BY <1>1, FS_Interval
<1>4. IsFiniteSet(Places(raw)) /\ Cardinality(Places(raw)) \in Nat
  BY <1>2, <1>3, FS_Subset, FS_CardinalityType
<1> QED  BY <1>1, <1>2, <1>4 DEF Places

\* What is returned of a listing that has ended.
LEMMA ReturnedIs ==
    ASSUME NEW k, k \in Calls
    PROVE  /\ Returned(k) \subseteq Places(k.raw)
           /\ k.out \in {"whole", "page_limit"} => Returned(k) = Places(k.raw)
           /\ k.out = "record_limit" =>
                 Returned(k) = {i \in Places(k.raw) : Cardinality(Upto(Places(k.raw), i)) <= k.limit}
           /\ k.out \notin {"whole", "page_limit", "record_limit"} => Returned(k) = {}
           /\ \A i \in Returned(k), j \in Places(k.raw) : j < i => j \in Returned(k)
<1> DEFINE T == Places(k.raw)
           n == k.limit
<1>1. T \subseteq Nat /\ IsFiniteSet(T) /\ n \in Nat
  BY PlacesAre DEF Calls
<1>2. k.out \in {"whole", "page_limit"} => Returned(k) = T
  BY DEF Returned
<1>3. k.out = "record_limit" => Returned(k) = {i \in T : Cardinality(Upto(T, i)) <= n}
  BY Zenon DEF Returned, Upto
<1>4. k.out \notin {"whole", "page_limit", "record_limit"} => Returned(k) = {}
  BY DEF Returned
<1> HIDE DEF T, n
<1>5. Returned(k) \subseteq T
  BY <1>2, <1>3, <1>4
<1>6. ASSUME NEW i \in Returned(k), NEW j \in T, j < i PROVE j \in Returned(k)
  <2>1. CASE k.out = "record_limit"
    <3> DEFINE a == Cardinality(Upto(T, j))
               b == Cardinality(Upto(T, i))
    <3>1. i \in T /\ b <= n
      BY <1>3, <2>1
    <3>2. a < b
      BY <1>1, <1>6, <3>1, Numbering
    <3>3. a \in 1 .. Cardinality(T) /\ b \in 1 .. Cardinality(T)
      BY <1>1, <3>1, Numbering
    <3>4. a \in Nat /\ b \in Nat
      BY <1>1, <3>3, FS_CardinalityType
    <3> HIDE DEF a, b
    <3>5. a <= n
      BY <1>1, <3>1, <3>2, <3>4
    <3> QED  BY <1>3, <2>1, <3>5 DEF a
  <2> QED  BY <1>2, <1>4, <2>1
<1> QED  BY <1>2, <1>3, <1>4, <1>5, <1>6 DEF T, n

\* A listing that ends with a page is what it says.
LEMMA EndIsHonest ==
    ASSUME RowsOK, NEW k, CallOK(k), NEW page \in Seq(Row), NEW raw, PageRead(k, raw, page),
           NEW out, out = PageOutcome(k, page, raw),
           NEW e, e = [k EXCEPT !.at = "done", !.out = out, !.raw = raw, !.after = rows], e \in Calls
    PROVE  Honest(e, order)
<1> DEFINE T == Places(raw)
           n == k.limit
<1>1. k \in Calls /\ n \in Nat /\ raw \in Seq(Row)
  BY DEF CallOK, Calls, PageRead
<1>2. e.raw = raw /\ e.out = out /\ e.limit = n /\ e.before = k.before
  BY <1>1 DEF Calls
<1>3. /\ T \subseteq Nat /\ IsFiniteSet(T) /\ Cardinality(T) \in Nat
      /\ \A i \in DOMAIN raw : Retained(raw[i]) => i \in T
  BY <1>1, PlacesAre
<1>4. /\ out \in {"whole", "page_limit"} => Returned(e) = T
      /\ out = "record_limit" => Returned(e) = {i \in T : Cardinality(Upto(T, i)) <= n}
      /\ Returned(e) \subseteq T
  BY <1>2, ReturnedIs
<1>5. /\ out = "whole" => Short(page)
      /\ out = "page_limit" => ~Short(page)
      /\ out = "record_limit" => n <= Cardinality(T)
  <2>1. Cardinality(Places(raw)) \in Nat
    BY <1>3
  <2> QED  BY <1>1, <2>1 DEF PageOutcome, AtLimit
<1> HIDE DEF T, n
<1>6. Len(page) \in Nat /\ PageSize \in Nat \ {0} /\ Len(raw) \in Nat /\ DOMAIN raw = 1 .. Len(raw)
  BY <1>1, ClientAssumption
<1>7. /\ Len(raw) = Len(k.raw) + Len(page) /\ Len(k.raw) \in Nat
      /\ k.before \subseteq rows /\ \A i \in DOMAIN raw : raw[i] \in rows
      /\ \A r \in k.before : (\A i \in DOMAIN raw : raw[i] # r) =>
          Len(page) = PageSize /\ \A i \in DOMAIN raw : Ahead(raw[i], r)
      /\ \A r \in k.before : (\E i \in DOMAIN raw : raw[i] = r) =>
          \E i \in DOMAIN raw : raw[i] = r /\ \A j \in 1 .. i - 1 : Ahead(raw[j], r)
  BY <1>1 DEF PageRead, Calls
<1>8. \A r, s : Ahead(r, s) <=> InOrder(order, r, s)
  BY DEF Ahead, InOrder
<1>9. Records(e) = {raw[i] : i \in Returned(e)}
  BY <1>2 DEF Records
<1>10. Due(e) = {r \in k.before : Retained(r)}
  BY <1>2 DEF Due
<1>11. ASSUME out \in {"whole", "page_limit"}, NEW r \in Due(e), r \notin Records(e)
       PROVE  \A i \in DOMAIN raw : raw[i] # r
  BY <1>3, <1>4, <1>9, <1>10, <1>11
<1>12. CASE out = "whole"
  <2>1. Len(page) < PageSize
    BY <1>5, <1>12 DEF Short
  <2>2. Due(e) \subseteq Records(e)
    BY <1>6, <1>7, <1>10, <1>11, <1>12, <2>1
  <2> QED  BY <1>2, <1>12, <2>2 DEF Honest
<1>13. CASE out = "page_limit"
  <2> DEFINE last == raw[Len(raw)]
  <2>1. Len(page) >= PageSize
    BY <1>5, <1>6, <1>13 DEF Short
  <2>2. Len(raw) \in DOMAIN raw
    BY <1>6, <1>7, <2>1
  <2>3. last \in Row
    BY <1>7, <2>2 DEF RowsOK
  <2>4. ASSUME NEW r \in Due(e), r \notin Records(e),
               IF order = "asc" THEN r.block < last.block ELSE r.block > last.block
        PROVE  FALSE
    <3>1. Ahead(last, r) /\ r \in Row
      BY <1>7, <1>10, <1>11, <1>13, <2>2, <2>4 DEF RowsOK
    <3>2. r.block \in Nat /\ last.block \in Nat
      BY <2>3, <3>1 DEF Row
    <3> HIDE DEF last
    <3> QED  BY <2>4, <3>1, <3>2 DEF Ahead, Before
  <2> QED  BY <1>2, <1>13, <2>4 DEF Honest
<1>14. CASE out = "record_limit"
  <2>1. Returned(e) = {i \in T : Cardinality(Upto(T, i)) <= n} /\ n <= Cardinality(T)
    BY <1>4, <1>5, <1>14
  <2>2. /\ Cardinality(Returned(e)) = n
        /\ \A i, j \in T : Cardinality(Upto(T, i)) <= n /\ ~(Cardinality(Upto(T, j)) <= n) => i < j
    BY <1>1, <1>3, <2>1, FirstOf
  <2>3. ASSUME NEW r \in Due(e), r \notin Records(e), NEW s \in Records(e) PROVE Ahead(s, r)
    <3>1. PICK j \in Returned(e) : raw[j] = s
      BY <1>9
    <3>2. j \in DOMAIN raw /\ j \in T /\ Cardinality(Upto(T, j)) <= n
      BY <2>1, <3>1 DEF T, Places
    <3>3. CASE \A i \in DOMAIN raw : raw[i] # r
      BY <1>7, <1>10, <3>1, <3>2, <3>3
    <3>4. CASE \E i \in DOMAIN raw : raw[i] = r
      <4>1. PICK i \in DOMAIN raw : raw[i] = r /\ \A x \in 1 .. i - 1 : Ahead(raw[x], r)
        BY <1>7, <1>10, <3>4
      <4>2. i \in T /\ i \notin Returned(e)
        BY <1>3, <1>9, <1>10, <2>3, <4>1
      <4>3. j < i
        BY <2>1, <2>2, <3>2, <4>2
      <4>4. j \in 1 .. i - 1
        BY <1>6, <3>2, <4>3
      <4> QED  BY <3>1, <4>1, <4>4
    <3> QED  BY <3>3, <3>4
  <2> QED  BY <1>2, <1>8, <1>14, <2>2, <2>3 DEF Honest
<1> QED  BY <1>2, <1>12, <1>13, <1>14 DEF Honest

\* The identities of rows that were read once each.
LEMMA IdentitiesAre ==
    ASSUME NEW raw \in Seq(Row), \A i, j \in DOMAIN raw : raw[i] = raw[j] => i = j,
           NEW P, P \subseteq Places(raw), \A i \in P, j \in Places(raw) : j < i => j \in P
    PROVE  {Identity(raw, i) : i \in P} = Reference({raw[i] : i \in P})
<1> DEFINE K == {raw[i] : i \in P}
           bare == {s \in K : s.sort = "bare"}
           Of(q) == {s \in bare : s.key = q}
           B(q) == {i \in P : raw[i].sort = "bare" /\ raw[i].key = q}
<1>1. /\ P \subseteq DOMAIN raw /\ P \subseteq Nat /\ IsFiniteSet(P) /\ DOMAIN raw \subseteq Nat
      /\ \A i \in P : raw[i] \in Row /\ Retained(raw[i])
      /\ \A i \in DOMAIN raw : raw[i].sort = "bare" => i \in Places(raw)
  <2>1. Places(raw) \subseteq 1 .. Len(raw) /\ IsFiniteSet(Places(raw)) /\ DOMAIN raw = 1 .. Len(raw)
    BY PlacesAre
  <2> QED  BY <2>1, FS_Subset DEF Places, Retained
<1>2. ASSUME NEW q
      PROVE  /\ B(q) \subseteq Nat /\ IsFiniteSet(B(q)) /\ Cardinality(Of(q)) = Cardinality(B(q))
             /\ Cardinality(B(q)) \in Nat
  <2> DEFINE f == [i \in B(q) |-> raw[i]]
  <2>1. B(q) \subseteq P
    OBVIOUS
  <2>2. f \in Injection(B(q), Of(q))
    BY <1>1 DEF Injection, IsInjective
  <2>3. \A s \in Of(q) : \E i \in B(q) : f[i] = s
    OBVIOUS
  <2>4. f \in Surjection(B(q), Of(q))
    BY <2>2, <2>3 DEF Injection, Surjection
  <2>5. IsFiniteSet(B(q)) /\ B(q) \subseteq Nat
    BY <1>1, <2>1, FS_Subset
  <2> HIDE DEF f
  <2>7. Cardinality(Of(q)) = Cardinality(B(q))
    BY <2>2, <2>4, <2>5, FS_Surjection
  <2> QED  BY <2>5, <2>7, FS_CardinalityType
<1>3. ASSUME NEW i \in P, raw[i].sort = "bare"
      PROVE  /\ i \in B(raw[i].key)
             /\ Identity(raw, i) = [key |-> raw[i].key, log |-> -Cardinality(Upto(B(raw[i].key), i))]
             /\ Cardinality(Upto(B(raw[i].key), i)) \in 1 .. Cardinality(B(raw[i].key))
  <2> DEFINE q == raw[i].key
             C == Counted(raw, i)
             U == Upto(B(q), i)
  <2>1. i \in B(q)
    BY <1>3
  <2>2. C = {j \in B(q) : j < i}
    <3>1. ASSUME NEW j \in 1 .. i - 1, raw[j].sort = "bare" PROVE j \in P
      <4>1. j \in DOMAIN raw /\ j < i
        BY <1>1
      <4> QED  BY <1>1, <3>1, <4>1
    <3>2. \A j \in P : j < i => j \in 1 .. i - 1
      BY <1>1, PlacesAre
    <3>3. \A j \in 1 .. i - 1 : j < i
      BY <1>1
    <3>4. C = {j \in 1 .. i - 1 : raw[j].sort = "bare" /\ raw[j].key = q}
      BY Zenon DEF Counted
    <3> HIDE DEF C, q
    <3> QED  BY <3>1, <3>2, <3>3, <3>4
  <2>3. U = C \cup {i} /\ i \notin C /\ IsFiniteSet(C)
    <3>1. \A j \in B(q) : j <= i <=> j < i \/ j = i
      BY <1>1
    <3>2. C \subseteq P /\ ~(i < i)
      BY <1>1, <2>2
    <3>3. IsFiniteSet(C)
      BY <1>1, <3>2, FS_Subset
    <3>4. i \notin C
      BY <2>2, <3>2
    <3>5. U = {j \in B(q) : j <= i}
      BY Zenon DEF Upto
    <3> HIDE DEF C, U, q
    <3>6. U = C \cup {i}
      BY <2>1, <2>2, <3>1, <3>5
    <3> QED  BY <3>3, <3>4, <3>6
  <2>4. Cardinality(U) = Cardinality(C) + 1 /\ Cardinality(C) \in Nat
    BY <2>3, FS_AddElement, FS_CardinalityType
  <2>5. Cardinality(U) \in 1 .. Cardinality(B(q))
    <3> DEFINE D == B(q)
    <3>1. D \subseteq Nat /\ IsFiniteSet(D) /\ i \in D
      BY <1>2, <2>1
    <3> HIDE DEF D
    <3>2. Cardinality(Upto(D, i)) \in 1 .. Cardinality(D)
      BY <3>1, Numbering
    <3> QED  BY <3>2 DEF D
  <2>6. Identity(raw, i) = [key |-> q, log |-> -1 - Cardinality(C)]
    BY <1>3 DEF Identity
  <2> HIDE DEF C, U
  <2>7. -1 - Cardinality(C) = -Cardinality(U)
    BY <2>4
  <2> QED  BY <2>1, <2>5, <2>6, <2>7 DEF U
<1>4. ASSUME NEW i \in P, raw[i].sort # "bare"
      PROVE  Identity(raw, i) = [key |-> raw[i].key, log |-> raw[i].nr]
  BY <1>4 DEF Identity
<1>5. Reference(K) = {[key |-> r.key, log |-> r.nr] : r \in K \ bare} \cup
          UNION {{[key |-> r.key, log |-> -n] : n \in 1 .. Cardinality(Of(r.key))} : r \in bare}
  BY Zenon DEF Reference
<1>6. ASSUME NEW i \in P PROVE Identity(raw, i) \in Reference(K)
  <2>1. raw[i] \in K
    OBVIOUS
  <2>2. CASE raw[i].sort # "bare"
    BY <1>4, <1>5, <2>1, <2>2
  <2>3. CASE raw[i].sort = "bare"
    <3> DEFINE q == raw[i].key
               n == Cardinality(Upto(B(q), i))
    <3>1. raw[i] \in bare
      BY <2>1, <2>3
    <3>2. n \in 1 .. Cardinality(Of(q)) /\ Identity(raw, i) = [key |-> q, log |-> -n]
      BY <1>2, <1>3, <2>3
    <3> HIDE DEF n, bare, Of, K
    <3>3. Identity(raw, i) \in {[key |-> q, log |-> -x] : x \in 1 .. Cardinality(Of(q))}
      BY <3>2
    <3> QED  BY <1>5, <3>1, <3>3
  <2> QED  BY <2>2, <2>3
<1>7. ASSUME NEW x \in Reference(K) PROVE \E i \in P : Identity(raw, i) = x
  <2>1. CASE \E r \in K \ bare : x = [key |-> r.key, log |-> r.nr]
    <3>1. PICK i \in P : raw[i] \notin bare /\ x = [key |-> raw[i].key, log |-> raw[i].nr]
      BY <2>1
    <3>2. raw[i].sort # "bare"
      BY <3>1
    <3> QED  BY <1>4, <3>1, <3>2
  <2>2. CASE \E r \in bare : \E n \in 1 .. Cardinality(Of(r.key)) : x = [key |-> r.key, log |-> -n]
    <3>1. PICK r \in bare : \E n \in 1 .. Cardinality(Of(r.key)) : x = [key |-> r.key, log |-> -n]
      BY <2>2
    <3> DEFINE q == r.key
               D == B(q)
    <3>2. PICK n \in 1 .. Cardinality(Of(q)) : x = [key |-> q, log |-> -n]
      BY <3>1
    <3>3. /\ D \subseteq Nat /\ IsFiniteSet(D) /\ n \in 1 .. Cardinality(D) /\ Cardinality(D) \in Nat
      BY <1>2, <3>2
    <3>4. \A i \in D : i \in P /\ raw[i].sort = "bare" /\ raw[i].key = q
      OBVIOUS
    <3> HIDE DEF D, q
    <3>5. PICK i \in D : n = Cardinality(Upto(D, i))
      BY <3>3, NumberedBy
    <3>8. D = B(raw[i].key)
      BY <3>4 DEF D
    <3> QED  BY <1>3, <3>2, <3>4, <3>5, <3>8
  <2> HIDE DEF K, bare, Of
  <2> QED  BY <1>5, <2>1, <2>2
<1> QED  BY <1>6, <1>7

LEMMA EndIsStable ==
    ASSUME RowsOK, NEW k, CallOK(k), NEW page \in Seq(Row), NEW raw, PageRead(k, raw, page), NEW out,
           NEW e, e = [k EXCEPT !.at = "done", !.out = out, !.raw = raw, !.after = rows], e \in Calls
    PROVE  Stable(e)
<1>1. k \in Calls /\ raw \in Seq(Row)
  BY DEF CallOK, PageRead
<1>2. e.raw = raw /\ e.before = k.before /\ e.after = rows
  BY <1>1 DEF Calls
<1> SUFFICES ASSUME k.before = rows
             PROVE  {Identity(raw, i) : i \in Returned(e)} = Reference({raw[i] : i \in Returned(e)})
  BY <1>2 DEF Stable, Records
<1>3. \A i, j \in DOMAIN raw : raw[i] = raw[j] => i = j
  BY DEF PageRead
<1>4. Returned(e) \subseteq Places(raw) /\ \A i \in Returned(e), j \in Places(raw) : j < i => j \in Returned(e)
  BY <1>2, ReturnedIs
<1> QED  BY <1>1, <1>3, <1>4, IdentitiesAre

(* The steps of listings *)

ListsOK == \A c \in Callers : Listing(call[c], rows, order)

LEMMA NoListing ==
    ASSUME NEW k, k.ask # "list", NEW R, NEW o PROVE Listing(k, R, o)
BY DEF Listing, Going, Honest, Stable

LEMMA OneListing ==
    ASSUME ClientOK, ListsOK, NEW c \in Callers, NEW k, call' = [call EXCEPT ![c] = k],
           Listing(k, rows, order), UNCHANGED <<rows, order>>
    PROVE  ListsOK'
<1>1. \A d \in Callers : call'[d] \in {k, call[d]}
  BY DEF ClientOK
<1> QED  BY <1>1 DEF ListsOK

LEMMA SameListings ==
    ASSUME ListsOK, UNCHANGED <<call, rows, order>> PROVE ListsOK'
BY DEF ListsOK

LEMMA PlaceIs == \A r : Rank(r) = Place(rows, order, r)
<1>1. \A r, s : Ahead(r, s) <=> InOrder(order, r, s)
  BY DEF Ahead, InOrder
<1> QED  BY <1>1, Zenon DEF Rank, Place, Ahead, InOrder

LEMMA BegunListing ==
    ASSUME ClientOK, ListsOK, RowsOK, NEW c \in Callers, NEW ask, NEW limit, Ask(c, ask, limit),
           UNCHANGED <<rows, order>>
    PROVE  ListsOK'
<1> DEFINE k == [Idle EXCEPT !.at = "queued", !.ask = ask, !.limit = limit, !.page = 1, !.before = rows]
<1>1. call' = [call EXCEPT ![c] = k]
  BY DEF Ask
<1>2. /\ k.at = "queued" /\ k.ask = ask /\ k.page = 1 /\ k.before = rows /\ k.raw = <<>>
  BY DEF Idle
<1> HIDE DEF k
<1>3. Going(k, rows, order)
  <2>1. \A r \in rows : Place(rows, order, r) > 0
    BY RankRange, PlaceIs
  <2>2. Seen(k) = {} /\ Len(k.raw) = 0 /\ DOMAIN k.raw = {} /\ (k.page - 1) * PageSize = 0
    <3>1. DOMAIN <<>> = {} /\ Len(<<>>) = 0 /\ (1 - 1) * PageSize = 0
      BY ClientAssumption
    <3> QED  BY <1>2, <3>1 DEF Seen
  <2> QED  BY <1>2, <2>1, <2>2 DEF Going
<1>4. Listing(k, rows, order)
  BY <1>2, <1>3 DEF Listing, Honest, Stable
<1> QED  BY <1>1, <1>4, OneListing

LEMMA WaitingListing ==
    ASSUME NEW k, NEW e, NEW R, NEW o, Listing(k, R, o), k.at \in Underway, e.at \in Underway,
           e.ask = k.ask, e.raw = k.raw, e.page = k.page, e.before = k.before
    PROVE  Listing(e, R, o)
<1>1. Going(e, R, o)
  BY DEF Listing, Going, Seen
<1> QED  BY <1>1 DEF Listing, Honest, Stable, Underway

\* A request that failed returns nothing.
LEMMA FailedListing ==
    ASSUME NEW e, e.at = "done", e.out \notin {"whole", "page_limit", "record_limit"}, NEW R, NEW o
    PROVE  Listing(e, R, o)
<1>1. Returned(e) = {} /\ Records(e) = {}
  BY DEF Returned, Records
<1>2. Reference({}) = {}
  BY DEF Reference
<1>3. Stable(e)
  BY <1>1, <1>2 DEF Stable
<1> QED  BY <1>3 DEF Listing, Going, Honest, Underway

LEMMA EndedListing ==
    ASSUME ClientOK, ListsOK, NEW c \in Callers, NEW out, out \notin {"whole", "page_limit", "record_limit"},
           Ended(c, out), UNCHANGED <<rows, order>>
    PROVE  ListsOK'
<1> DEFINE e == [call[c] EXCEPT !.at = "done", !.out = out, !.after = rows]
<1>1. call \in [Callers -> Calls] /\ call[c] \in Calls
  BY DEF ClientOK
<1>2. call' = [call EXCEPT ![c] = e]
  BY <1>1 DEF Ended
<1>3. e.at = "done" /\ e.out = out
  BY <1>1 DEF Calls
<1> HIDE DEF e
<1> QED  BY <1>2, <1>3, FailedListing, OneListing

\* The explorer indexes another row while the pages are read.
LEMMA RowsGrow ==
    ASSUME ClientOK, RowsOK, RowsOK', ListsOK, rows \subseteq rows', UNCHANGED <<order, call>>
    PROVE  ListsOK'
<1>1. ASSUME NEW r \in rows PROVE Place(rows, order, r) \in Nat /\ Place(rows', order, r) \in Nat
                                  /\ Place(rows, order, r) <= Place(rows', order, r)
  <2> DEFINE S == {s \in rows : InOrder(order, s, r)}
             T == {s \in rows' : InOrder(order, s, r)}
  <2>1. S \subseteq T /\ T \subseteq rows' /\ IsFiniteSet(rows')
    BY DEF RowsOK
  <2>2. IsFiniteSet(T) /\ IsFiniteSet(S) /\ Cardinality(S) <= Cardinality(T)
    BY <2>1, FS_Subset
  <2>3. Cardinality(S) \in Nat /\ Cardinality(T) \in Nat
    BY <2>2, FS_CardinalityType
  <2>4. Place(rows, order, r) = 1 + Cardinality(S) /\ Place(rows', order, r) = 1 + Cardinality(T)
    BY Zenon DEF Place
  <2> HIDE DEF S, T
  <2> QED  BY <2>2, <2>3, <2>4
<1>2. ASSUME NEW c \in Callers PROVE Going(call[c], rows', order)
  <2> DEFINE k == call[c]
  <2> SUFFICES ASSUME k.ask = "list", k.at \in Underway PROVE Going(k, rows', order)
    BY DEF Going
  <2>1. /\ k.before \cup Seen(k) \subseteq rows
        /\ Len(k.raw) = (k.page - 1) * PageSize
        /\ \A r \in k.before \ Seen(k) : Place(rows, order, r) > Len(k.raw) /\ \A s \in Seen(k) : InOrder(order, s, r)
        /\ \A r \in k.before \cap Seen(k) :
              \E i \in DOMAIN k.raw : k.raw[i] = r /\ \A j \in 1 .. i - 1 : InOrder(order, k.raw[j], r)
        /\ k.before = rows => \A i \in DOMAIN k.raw : Place(rows, order, k.raw[i]) = i
    BY DEF ListsOK, Listing, Going
  <2>0. Len(k.raw) \in Nat
    BY DEF ClientOK, CallOK, Calls
  <2> HIDE DEF k
  <2>2. k.before = rows' => rows' = rows
    BY <2>1
  <2>3. ASSUME NEW r \in k.before \ Seen(k) PROVE Place(rows', order, r) > Len(k.raw)
    <3> DEFINE n == Len(k.raw)
               a == Place(rows, order, r)
               b == Place(rows', order, r)
    <3>1. a > n /\ a \in Nat /\ b \in Nat /\ a <= b
      BY <1>1, <2>1
    <3>2. n \in Nat
      BY <2>0
    <3> HIDE DEF n, a, b
    <3>3. b > n
      BY <3>1, <3>2
    <3> QED  BY <3>3 DEF n, b
  <2>4. k.before \cup Seen(k) \subseteq rows'
    BY <2>1
  <2>5. k.before = rows' => \A i \in DOMAIN k.raw : Place(rows', order, k.raw[i]) = i
    BY <2>1, <2>2
  <2> QED  BY <2>1, <2>3, <2>4, <2>5 DEF Going
<1> QED  BY <1>2 DEF ListsOK, Listing

\* One request goes on without a page: it waits again, or failed.
LEMMA UnavailableListing ==
    ASSUME ClientOK, ListsOK, NEW c \in Callers, Unavailable(c) PROVE ListsOK'
<1>1. call \in [Callers -> Calls] /\ call[c] \in Calls /\ call[c].at = "sent" /\ UNCHANGED <<rows, order>>
  BY DEF ClientOK, Unavailable, explorerVars
<1>2. CASE call[c].tries < MaxRetries
  <2> DEFINE k == [call[c] EXCEPT !.at = "backoff", !.tries = @ + 1]
  <2>1. call' = [call EXCEPT ![c] = k]
    BY <1>1, <1>2 DEF Unavailable, Retry
  <2>2. /\ k.at = "backoff" /\ k.ask = call[c].ask /\ k.raw = call[c].raw /\ k.page = call[c].page
        /\ k.before = call[c].before
    BY <1>1 DEF Calls
  <2> HIDE DEF k
  <2>3. Listing(k, rows, order)
    BY <1>1, <2>2, WaitingListing DEF ListsOK, Underway
  <2> QED  BY <1>1, <2>1, <2>3, OneListing
<1>3. CASE ~(call[c].tries < MaxRetries)
  <2>1. Ended(c, "unavailable")
    BY <1>3 DEF Unavailable, Retry
  <2> QED  BY <1>1, <2>1, EndedListing
<1> QED  BY <1>2, <1>3

LEMMA PausedListing ==
    ASSUME ClientOK, ListsOK, NEW c \in Callers, NEW at \in Underway, call[c].at \in Underway,
           call' = [call EXCEPT ![c].at = at], UNCHANGED <<rows, order>>
    PROVE  ListsOK'
<1> DEFINE k == [call[c] EXCEPT !.at = at]
<1>1. call \in [Callers -> Calls] /\ call[c] \in Calls
  BY DEF ClientOK
<1>2. call' = [call EXCEPT ![c] = k]
  BY <1>1
<1>3. /\ k.at = at /\ k.ask = call[c].ask /\ k.raw = call[c].raw /\ k.page = call[c].page
      /\ k.before = call[c].before
  BY <1>1 DEF Calls
<1> HIDE DEF k
<1>4. Listing(k, rows, order)
  BY <1>3, WaitingListing DEF ListsOK
<1> QED  BY <1>2, <1>4, OneListing

LEMMA PageListing ==
    ASSUME ClientOK, ListsOK, RowsOK, NEW c \in Callers, AnswerPage(c) PROVE ListsOK'
<1> DEFINE k == call[c]
           page == PageRows(k.page)
           raw == k.raw \o page
           out == PageOutcome(k, page, raw)
<1>1. /\ call \in [Callers -> Calls] /\ CallOK(k) /\ k \in Calls /\ k.at \in Underway /\ k.ask = "list"
      /\ UNCHANGED <<rows, order>> /\ Going(k, rows, order)
  BY DEF ClientOK, AnswerPage, CallOK, Underway, explorerVars, ListsOK, Listing
<1>2. PageRead(k, raw, page) /\ page \in Seq(Row)
  BY <1>1, PageIsRead
<1>3. k.page \in Nat \ {0} /\ k.raw \in Seq(Row) /\ PageSize \in Nat \ {0}
  BY <1>1, ClientAssumption DEF CallOK, Calls, Underway
<1>4. Len(page) \in 0 .. PageSize
  BY <1>3, PageIs
<1>5. \/ out = "more" /\ call' = [call EXCEPT ![c].at = "queued", ![c].page = @ + 1, ![c].tries = 0, ![c].raw = raw]
      \/ out # "more" /\ call' = [call EXCEPT ![c].at = "done", ![c].out = out, ![c].raw = raw, ![c].after = rows]
  BY DEF AnswerPage
<1>6. out \in Results \cup {"more"} /\ (out = "more" => ~Short(page))
  BY DEF PageOutcome, Results
<1>7. out = PageOutcome(k, page, raw)
  OBVIOUS
<1> HIDE DEF page, raw, out, k
<1>8. CASE out = "more"
  <2> DEFINE e == [k EXCEPT !.at = "queued", !.page = @ + 1, !.tries = 0, !.raw = raw]
             n == Len(raw)
  <2>1. call' = [call EXCEPT ![c] = e]
    BY <1>1, <1>5, <1>8 DEF k
  <2>2. /\ e.at = "queued" /\ e.ask = "list" /\ e.raw = raw /\ e.page = k.page + 1 /\ e.before = k.before
    BY <1>1 DEF Calls
  <2> HIDE DEF e
  <2>3. n = (e.page - 1) * PageSize
    <3>1. Len(page) = PageSize
      BY <1>3, <1>4, <1>6, <1>8 DEF Short
    <3>2. n = (k.page - 1) * PageSize + PageSize
      BY <1>1, <1>2, <3>1 DEF Going, PageRead
    <3>3. (k.page - 1) * PageSize + PageSize = k.page * PageSize
      BY <1>3
    <3>4. e.page - 1 = k.page
      BY <1>3, <2>2
    <3> QED  BY <3>2, <3>3, <3>4
  <2>4. Seen(e) = {raw[i] : i \in DOMAIN raw}
    BY <2>2 DEF Seen
  <2>5. Going(e, rows, order)
    <3>1. \A r : Rank(r) = Place(rows, order, r)
      BY PlaceIs
    <3>2. \A r, s : Ahead(r, s) <=> InOrder(order, r, s)
      BY DEF Ahead, InOrder
    <3>3. e.before \cup Seen(e) \subseteq rows
      BY <1>2, <2>2, <2>4 DEF PageRead
    <3>4. \A r \in e.before \ Seen(e) : Place(rows, order, r) > n /\ \A s \in Seen(e) : InOrder(order, s, r)
      BY <1>2, <2>2, <2>4, <3>1, <3>2 DEF PageRead
    <3>5. \A r \in e.before \cap Seen(e) :
              \E i \in DOMAIN raw : raw[i] = r /\ \A j \in 1 .. i - 1 : InOrder(order, raw[j], r)
      <4> SUFFICES ASSUME NEW r \in k.before, NEW p \in DOMAIN raw, raw[p] = r
                   PROVE  \E i \in DOMAIN raw : raw[i] = r /\ \A j \in 1 .. i - 1 : InOrder(order, raw[j], r)
        BY <2>2, <2>4
      <4>1. \E i \in DOMAIN raw : raw[i] = r /\ \A j \in 1 .. i - 1 : Ahead(raw[j], r)
        BY <1>2, Zenon DEF PageRead
      <4>2. PICK i \in DOMAIN raw : raw[i] = r /\ \A j \in 1 .. i - 1 : Ahead(raw[j], r)
        BY <4>1
      <4>3. \A j \in 1 .. i - 1 : InOrder(order, raw[j], r)
        BY <3>2, <4>2, Zenon
      <4> QED  BY <4>2, <4>3, Zenon
    <3>6. e.before = rows => \A i \in DOMAIN raw : Place(rows, order, raw[i]) = i
      BY <1>2, <2>2, <3>1 DEF PageRead
    <3> QED  BY <2>2, <2>3, <3>3, <3>4, <3>5, <3>6 DEF Going
  <2>6. Listing(e, rows, order)
    BY <2>2, <2>5 DEF Listing, Honest, Stable
  <2> QED  BY <1>1, <2>1, <2>6, OneListing
<1>9. CASE out # "more"
  <2> DEFINE e == [k EXCEPT !.at = "done", !.out = out, !.raw = raw, !.after = rows]
  <2>1. call' = [call EXCEPT ![c] = e]
    BY <1>1, <1>5, <1>9 DEF k
  <2>2. e \in Calls
    BY <1>1, <1>2, <1>6, <1>9 DEF Calls, PageRead, RowsOK
  <2>3. Honest(e, order)
    BY <1>1, <1>2, <1>7, <2>2, EndIsHonest
  <2>4. Stable(e)
    BY <1>1, <1>2, <2>2, EndIsStable
  <2>5. e.at = "done"
    BY <1>1 DEF Calls
  <2> HIDE DEF e
  <2>6. Listing(e, rows, order)
    BY <2>3, <2>4, <2>5 DEF Listing, Going, Underway
  <2> QED  BY <1>1, <2>1, <2>6, OneListing
<1> QED  BY <1>8, <1>9

LEMMA ServeListing ==
    ASSUME ClientOK, ListsOK, RowsOK, NEW c \in Callers, Serve(c) PROVE ListsOK'
<1>1. UNCHANGED <<rows, order>>
  BY DEF Serve, Lookup, TakeTransaction, TakeReceipt, TakeInternals, LookupPool, TakeRead, ParseLogs,
         VerifyRelay, Save, Inspect, TakeCode, explorerVars
<1>2. \/ UNCHANGED clientVars \/ Rested(c) \/ \E ask \in Asks : Ask(c, ask, 0)
  <2>1. CASE Lookup(c) \/ TakeTransaction(c) \/ TakeReceipt(c)
    BY <2>1 DEF Lookup, TakeTransaction, TakeReceipt, Asks
  <2>2. CASE TakeInternals(c) \/ LookupPool(c) \/ TakeRead(c)
    BY <2>2 DEF TakeInternals, LookupPool, TakeRead, Asks
  <2>3. CASE ParseLogs(c) \/ VerifyRelay(c) \/ Save(c)
    BY <2>3 DEF ParseLogs, VerifyRelay, Save
  <2>4. CASE Inspect(c) \/ TakeCode(c)
    BY <2>4 DEF Inspect, TakeCode, Asks
  <2> QED  BY <2>1, <2>2, <2>3, <2>4 DEF Serve
<1>3. CASE UNCHANGED clientVars
  BY <1>1, <1>3, SameListings DEF clientVars
<1>4. CASE Rested(c)
  <2>1. call' = [call EXCEPT ![c] = Idle] /\ Listing(Idle, rows, order)
    BY <1>4, NoListing DEF Rested, Idle
  <2> QED  BY <1>1, <2>1, OneListing
<1>5. CASE \E ask \in Asks : Ask(c, ask, 0)
  BY <1>1, <1>5, BegunListing
<1> QED  BY <1>2, <1>3, <1>4, <1>5

LEMMA RowsStay == Core => RowsOK
BY CoreRows DEF Core

LEMMA ListsNext == Core /\ ListsOK /\ [Next]_vars => ListsOK'
<1> SUFFICES ASSUME Core, ListsOK, [Next]_vars PROVE ListsOK'
  OBVIOUS
<1>0. ClientOK /\ RowsOK
  BY RowsStay DEF Core
<1>1. CASE UNCHANGED <<call, rows, order>>
  BY <1>1, SameListings
<1>2. CASE Client(IndexRow)
  <2>1. rows \subseteq rows' /\ UNCHANGED <<order, call>>
    BY <1>2 DEF Client, IndexRow, clientVars
  <2>2. RowsOK'
    <3>1. Core'
      BY <1>2, IndexRowCore
    <3>2. Core' => RowsOK'
      BY RowsStay, PTL
    <3> QED  BY <3>1, <3>2
  <2> QED  BY <1>0, <2>1, <2>2, RowsGrow
<1>3. CASE GrantNext
  <2> DEFINE c == Head(queue)
  <2>1. c \in Callers /\ call[c].at \in Underway
    <3>1. queue # <<>> /\ queue \in Seq(Callers)
      BY <1>0, <1>3 DEF GrantNext, Client, Grant, ClientOK
    <3>2. c = queue[1] /\ 1 \in DOMAIN queue /\ c \in Callers
      BY <3>1
    <3> QED  BY <1>0, <3>2 DEF ClientOK, QueueOK, Queued, Underway
  <2>2. call' = [call EXCEPT ![c].at = "sent"] /\ UNCHANGED <<rows, order>>
    BY <1>3 DEF GrantNext, Client, Grant, explorerVars
  <2> HIDE DEF c
  <2> QED  BY <1>0, <2>1, <2>2, PausedListing DEF Underway
<1>4. ASSUME NEW c \in Callers, Waits(c) \/ Gives(c) PROVE ListsOK'
  <2>1. Reply(c) \/ WakeUp(c) \/ Cancel(c)
    BY <1>4 DEF Waits, Gives, Client
  <2>2. CASE Unavailable(c)
    BY <1>0, <2>2, UnavailableListing
  <2>3. CASE Refuse(c)
    BY <1>0, <2>3, EndedListing DEF Refuse, explorerVars
  <2>4. CASE AnswerPage(c)
    BY <1>0, <2>4, PageListing
  <2>5. CASE AnswerOne(c)
    <3>1. One(call[c].ask) \notin {"whole", "page_limit", "record_limit"}
      BY DEF One
    <3> QED  BY <1>0, <2>5, <3>1, EndedListing DEF AnswerOne, explorerVars
  <2>6. CASE WakeUp(c)
    BY <1>0, <2>6, PausedListing DEF WakeUp, Underway, explorerVars
  <2>7. CASE Cancel(c)
    BY <1>0, <2>7, EndedListing DEF Cancel, explorerVars
  <2> QED  BY <2>1, <2>2, <2>3, <2>4, <2>5, <2>6, <2>7 DEF Reply
<1>5. ASSUME NEW c \in Callers, Works(c) PROVE ListsOK'
  <2>1. CASE Serve(c)
    BY <1>0, <2>1, ServeListing
  <2>2. CASE ListAddress(c)
    <3>1. UNCHANGED <<rows, order>>
      BY <2>2 DEF ListAddress, BeginList, TakeList, Write, Claim, explorerVars
    <3>2. UNCHANGED clientVars \/ \E limit \in Limits : Ask(c, "list", limit)
      BY <2>2 DEF ListAddress, BeginList, TakeList, Write, Claim
    <3>3. CASE UNCHANGED clientVars
      BY <3>1, <3>3, SameListings DEF clientVars
    <3>4. CASE \E limit \in Limits : Ask(c, "list", limit)
      BY <1>0, <3>1, <3>4, BegunListing
    <3> QED  BY <3>2, <3>3, <3>4
  <2>3. CASE UNCHANGED analysisVars
    BY <1>1, <2>3 DEF analysisVars, explorerVars, clientVars
  <2> QED  BY <1>5, <2>1, <2>2, <2>3 DEF Works
<1>6. UNCHANGED vars \/ Client(IndexTransaction) \/ RelayFills => UNCHANGED <<call, rows, order>>
  BY DEF vars, analysisVars, Client, IndexTransaction, RelayFills, explorerVars, clientVars
<1> QED  BY <1>1, <1>2, <1>3, <1>4, <1>5, <1>6 DEF Next

LEMMA ListsInit == Init => ListsOK
<1> SUFFICES ASSUME Init PROVE ListsOK
  OBVIOUS
<1>1. \A c \in Callers : call[c] = Idle
  BY DEF Init
<1>2. Listing(Idle, rows, order)
  BY NoListing DEF Idle
<1> QED  BY <1>1, <1>2 DEF ListsOK
-----------------------------------------------------------------------------
(* The theorems *)

\* The parts that the proofs work with are the invariant.
LEMMA Parts == IInv <=> Core /\ StoreOK
<1>1. ClientTypeOK /\ (\A c \in Callers : call[c].at # "idle" => call[c].ask \in Asks /\ call[c].page # 0)
        /\ (\A c \in Callers : call[c].at = "done" => call[c].out \in Results)
      <=> ClientOK /\ order \in {"asc", "desc"} /\ rows \cup late \subseteq Row
  BY DEF ClientTypeOK, ClientOK, QueueOK, Queued, CallOK
<1>2. tx \in Transaction /\ job \in [Callers -> Jobs] /\ (\A c \in Callers : Len(job[c].known) <= Len(tx.swaps)) /\ EvidenceOK
      <=> tx \in Transaction /\ JobsOK
  BY DEF EvidenceOK, JobsOK, JobOK
<1>3. AllPlaced <=> \A c \in Callers : call[c].at \in Underway => job[c].step \in Waiting
  BY DEF AllPlaced
<1>4. Placed <=> /\ AllPlaced
                 /\ \A c \in Callers : call[c].at # "idle" => call[c].ask \in Asks /\ call[c].page # 0
                 /\ \A c \in Callers : call[c].at = "done" => call[c].out \in Results
  BY DEF Placed, AllPlaced, Underway, Waiting
<1>5. IInv <=> /\ ClientTypeOK /\ AnalysisTypeOK /\ StoreTypeOK /\ role \in [Callers -> Roles]
               /\ factory \in [Pools -> Factories] /\ subject \in STRING /\ ReadOK /\ LeftOK
               /\ WorldOK /\ Placed /\ EvidenceOK /\ PoolsTrue /\ CompleteRests /\ ClaimsTrue
  BY DEF IInv, TypeOK, ReadOK, LeftOK
<1>6. WorldOK <=> IsFiniteSet(rows \cup late) /\ Distinct(rows \cup late) /\ Chain(tx.transfers)
  BY DEF WorldOK, Chain
<1>7. Core <=> /\ order \in {"asc", "desc"} /\ rows \cup late \subseteq Row
               /\ IsFiniteSet(rows \cup late) /\ Distinct(rows \cup late)
               /\ tx \in Transaction /\ Chain(tx.transfers) /\ factory \in [Pools -> Factories]
               /\ role \in [Callers -> Roles] /\ subject \in STRING
               /\ ClientOK /\ JobsOK /\ AllPlaced
               /\ saved \in {NoAnalysis, Old} \cup Analysis
               /\ pools \in [Pools -> {"none", "verified", "foreign"}] /\ PoolsTrue
               /\ CompleteRests /\ ClaimsTrue
  BY DEF Core, Explored, Here, Ground, CacheOK
<1> QED  BY <1>1, <1>2, <1>4, <1>5, <1>6, <1>7, Zenon DEF AnalysisTypeOK, StoreOK

LEMMA InitInv == Init => IInv
<1> SUFFICES ASSUME Init PROVE IInv
  OBVIOUS
<1>1. PICK s \in Scenes :
          /\ role = s.role /\ factory = s.factory /\ subject = s.subject
          /\ order = s.order /\ rows = s.rows /\ late = s.late /\ tx = s.tx
          /\ saved = s.saved /\ docs = s.docs /\ addr = s.addr /\ profiles = s.profiles
  BY DEF Init
<1>2. /\ queue = <<>> /\ call = [c \in Callers |-> Idle] /\ pools = [p \in Pools |-> "none"]
      /\ job = [c \in Callers |-> Fresh] /\ read = [c \in Callers |-> Unread] /\ left = [c \in Callers |-> {}]
  BY DEF Init
<1>3. Explored /\ Here /\ StoreTypeOK /\ saved \in {NoAnalysis, Old}
  BY <1>1, ScenesAssumption DEF Explored, Here, Ground, Chain, StoreTypeOK
<1>4. ClientOK /\ AllPlaced
  <2>1. QueueOK
    BY <1>2, IdleOK DEF QueueOK, Queued
  <2> QED  BY <1>2, <2>1, IdleOK DEF ClientOK, CallOK, AllPlaced, Underway
<1>5. JobsOK
  <2>1. Fresh \in Jobs
    <3>1. <<>> \in Seq({"unknown", "verified", "foreign"}) /\ 0 \in 0 .. 3
      OBVIOUS
    <3> QED  BY <3>1 DEF Fresh, Jobs, Steps
  <2>2. Len(<<>>) = 0 /\ Len(tx.swaps) \in Nat
    BY <1>3 DEF Here, Ground, Transaction
  <2>3. ASSUME NEW c \in Callers PROVE JobOK(tx, factory, role[c], Fresh)
    BY <2>1, <2>2 DEF JobOK, Fresh
  <2> QED  BY <1>2, <2>1, <2>3 DEF JobsOK
<1>6. CacheOK
  BY <1>2, <1>3 DEF CacheOK, PoolsTrue
<1>7. Answers = {} /\ Analyses = {}
  <2>1. Answers = {}
    BY <1>2 DEF Answers, Fresh
  <2> QED  BY <1>3, <2>1 DEF Analyses
<1>8. CompleteRests /\ ClaimsTrue
  BY <1>7 DEF CompleteRests, ClaimsTrue
<1>9. Core
  BY <1>3, <1>4, <1>5, <1>6, <1>8 DEF Core
<1>10. Unread \in Reader
  BY DEF Unread, Reader
<1>11. StoreOK
  BY <1>2, <1>3, <1>10 DEF StoreOK, ReadOK, LeftOK
<1> QED  BY <1>9, <1>11, Parts

LEMMA NextInv == IInv /\ [Next]_vars => IInv'
<1> SUFFICES ASSUME Core, StoreOK, [Next]_vars PROVE Core' /\ StoreOK'
  <2>1. IInv' <=> Core' /\ StoreOK'
    BY Parts, PTL
  <2> QED  BY <2>1, Parts
<1>1. UNCHANGED <<readVars, left, job>> => StoreOK'
  BY DEF StoreOK, StoreTypeOK, ReadOK, LeftOK, readVars
<1>2. CASE UNCHANGED vars
  <2>1. UNCHANGED <<explorerVars, clientVars, world, cache, job, readVars, left>>
    BY <1>2 DEF vars, analysisVars
  <2>2. ClientOK' /\ NoneBegun
    BY <2>1, ClientSame DEF Core
  <2> QED  BY <1>1, <2>1, <2>2, ClientCore
<1>3. CASE Client(IndexRow)
  BY <1>1, <1>3, IndexRowCore DEF Client
<1>4. CASE Client(IndexTransaction)
  BY <1>1, <1>4, IndexTransactionCore DEF Client
<1>5. CASE RelayFills /\ UNCHANGED <<readVars, left>>
  BY <1>1, <1>5, RelayFillsCore DEF RelayFills
<1>6. CASE GrantNext
  BY <1>1, <1>6, GrantCore DEF GrantNext, Client
<1>7. ASSUME NEW c \in Callers, Waits(c) \/ Gives(c) PROVE Core' /\ StoreOK'
  BY <1>1, <1>7, WaitsCore DEF Waits, Gives, Client
<1>8. ASSUME NEW c \in Callers, Works(c) PROVE Core' /\ StoreOK'
  <2>1. CASE Serve(c) /\ UNCHANGED <<readVars, left>>
    <3>1. job \in [Callers -> Jobs]
      BY CoreParts
    <3>2. LeftOK'
      BY <2>1, <3>1, ServeLeft DEF StoreOK
    <3> QED  BY <2>1, <3>2, ServeCore DEF StoreOK, StoreTypeOK, ReadOK, readVars
  <2>2. CASE ListAddress(c)
    BY <2>2, ListCore, ListStore
  <2>3. CASE ReadAddress(c) /\ UNCHANGED <<analysisVars, left>>
    <3>1. UNCHANGED <<explorerVars, clientVars, world, cache, job>>
      BY <2>3 DEF analysisVars
    <3>2. ClientOK' /\ NoneBegun
      BY <3>1, ClientSame DEF Core
    <3> QED  BY <2>3, <3>1, <3>2, ClientCore, ReadStore
  <2> QED  BY <1>8, <2>1, <2>2, <2>3 DEF Works
<1> QED  BY <1>2, <1>3, <1>4, <1>5, <1>6, <1>7, <1>8 DEF Next

\* The types, the world the answers come from, the place of every caller in its
\* request, and what the evidence of an analysis is worth hold together after every
\* step, whichever callers interleave.
THEOREM Inductive == Spec => []IInv
BY InitInv, NextInv, PTL DEF Spec

\* Every variable stays in its type; a caller is in the limiter's queue exactly
\* once while it waits for it, and not at all otherwise.
THEOREM TypeCorrect == Spec => []TypeOK
<1>1. IInv => TypeOK
  BY DEF IInv
<1> QED  BY <1>1, Inductive, PTL

\* An analysis that calls itself complete rests on complete evidence, and no answer
\* comes from older rules, however many callers analyse the transaction at once.
THEOREM CompleteAnalysesRest == Spec => []CompleteRests
<1>1. IInv => CompleteRests
  BY DEF IInv
<1> QED  BY <1>1, Inductive, PTL

\* What an analysis says of the money is true of the transaction.
THEOREM AnalysesTrue == Spec => []ClaimsTrue
<1>1. IInv => ClaimsTrue
  BY DEF IInv
<1> QED  BY <1>1, Inductive, PTL

\* A pool is cached as what it is.
THEOREM CachedPoolsTrue == Spec => []PoolsTrue
<1>1. IInv => PoolsTrue
  BY DEF IInv
<1> QED  BY <1>1, Inductive, PTL

\* What a listing has seen, and what one that has ended says of itself, is kept by
\* every step, although the explorer indexes rows between any two pages.
THEOREM ListingsInductive == Spec => []ListsInv
<1>1. ListsOK <=> ListsInv
  BY ListingParts DEF ListsOK
<1>2. Init => ListsInv
  BY <1>1, ListsInit
<1>3. IInv /\ ListsInv /\ [Next]_vars => ListsInv'
  <2>1. ListsOK' <=> ListsInv'
    BY <1>1, PTL
  <2> QED  BY <1>1, <2>1, Parts, ListsNext
<1> QED  BY <1>2, <1>3, Inductive, PTL DEF Spec

\* A listing is what it says: a whole one has every record there was when it began,
\* one that ran out of pages has those ahead of its last block, and one that
\* reached its limit has that many and passed over none.
THEOREM ListingsHonest == Spec => []ListingHonest
<1>1. ListsInv => ListingHonest
  BY DEF ListsInv
<1> QED  BY <1>1, ListingsInductive, PTL

\* The same rows have the same identities in every undisturbed listing, so that a
\* record that is read again finds its own document.
THEOREM IdentitiesAlwaysStable == Spec => []IdentitiesStable
<1>1. ListsInv => IdentitiesStable
  BY DEF ListsInv
<1> QED  BY <1>1, ListingsInductive, PTL
=============================================================================
