-------------------------- MODULE TraceGraphProofs --------------------------
(***************************************************************************)
(* Proofs about TraceGraph, for any chain, any number of addresses and any *)
(* limits.                                                                 *)
(***************************************************************************)
EXTENDS TraceGraph, FiniteSetTheorems, SequenceTheorems, WellFoundedInduction, TLAPS

-----------------------------------------------------------------------------
(* Induction over the naturals, with a set for the predicate.              *)

LEMMA LeastOf ==
    ASSUME NEW S, S \subseteq Nat, S # {}
    PROVE  \E x \in S : \A y \in S : x <= y
<1>1. \E x \in S : \A y \in S : ~(<<y, x>> \in OpToRel(<, Nat))
  BY NatLessThanWellFounded, WFMin
<1>2. PICK x \in S : \A y \in S : ~(<<y, x>> \in OpToRel(<, Nat))
  BY <1>1
<1>3. ASSUME NEW y \in S PROVE x <= y
  <2>1. x \in Nat /\ y \in Nat
    BY <1>2
  <2>2. y < x => <<y, x>> \in OpToRel(<, Nat)
    BY <2>1 DEF OpToRel
  <2>3. ~(y < x)
    BY <1>2, <2>2, Zenon
  <2> QED  BY <2>1, <2>3
<1> QED  BY <1>3

LEMMA SetInduction ==
    ASSUME NEW S, 0 \in S, \A n \in Nat : n \in S => n + 1 \in S
    PROVE  Nat \subseteq S
<1> DEFINE T == Nat \ S
<1> SUFFICES ASSUME T # {} PROVE FALSE
  OBVIOUS
<1> HIDE DEF T
<1>0. T \subseteq Nat
  BY DEF T
<1>1. PICK x \in T : \A y \in T : x <= y
  BY <1>0, LeastOf
<1>2. x # 0 /\ x - 1 \in T
  BY DEF T
<1> QED  BY <1>0, <1>1, <1>2

-----------------------------------------------------------------------------
(* Sums.                                                                   *)

\* upTo is the function that Sum computes.
Totals(s, upTo, n) ==
    /\ upTo \in [0 .. n -> Nat] /\ upTo[0] = 0
    /\ \A k \in 1 .. n : upTo[k] = upTo[k - 1] + s[k]

LEMMA TotalsExist ==
    ASSUME NEW s \in Seq(Nat)
    PROVE  \E t : Totals(s, t, Len(s))
<1> DEFINE S == {n \in Nat : n <= Len(s) => \E t : Totals(s, t, n)}
<1>1. 0 \in S
  <2>1. Totals(s, [k \in 0 .. 0 |-> 0], 0)
    BY DEF Totals
  <2> QED  BY <2>1
<1>2. ASSUME NEW n \in Nat, n \in S PROVE n + 1 \in S
  <2> SUFFICES ASSUME n + 1 <= Len(s) PROVE \E t : Totals(s, t, n + 1)
    OBVIOUS
  <2>1. PICK t : Totals(s, t, n)
    BY <1>2
  <2> DEFINE u == [k \in 0 .. n + 1 |-> IF k <= n THEN t[k] ELSE t[n] + s[n + 1]]
  <2>2. s[n + 1] \in Nat
    OBVIOUS
  <2>3. t \in [0 .. n -> Nat] /\ t[0] = 0 /\ \A k \in 1 .. n : t[k] = t[k - 1] + s[k]
    BY <2>1 DEF Totals
  <2>4. u \in [0 .. n + 1 -> Nat]
    BY <2>2, <2>3
  <2>5. u[0] = 0 /\ u[n + 1] = t[n] + s[n + 1] /\ \A k \in 0 .. n : u[k] = t[k]
    BY <2>3
  <2> HIDE DEF u
  <2>6. ASSUME NEW k \in 1 .. n + 1 PROVE u[k] = u[k - 1] + s[k]
    <3>1. CASE k = n + 1
      BY <2>5, <3>1
    <3>2. CASE k # n + 1
      <4>1. k \in 1 .. n /\ k \in 0 .. n /\ k - 1 \in 0 .. n
        BY <3>2
      <4> QED  BY <2>3, <2>5, <4>1
    <3> QED  BY <3>1, <3>2
  <2>7. Totals(s, u, n + 1)
    BY <2>4, <2>5, <2>6 DEF Totals
  <2> QED  BY <2>7
<1>3. Nat \subseteq S
  BY <1>1, <1>2, SetInduction
<1> QED  BY <1>3

LEMMA SumIs ==
    ASSUME NEW s \in Seq(Nat)
    PROVE  \E t : Totals(s, t, Len(s)) /\ Sum(s) = t[Len(s)]
<1> DEFINE Fix(t) == t = [k \in 0 .. Len(s) |-> IF k = 0 THEN 0 ELSE t[k - 1] + s[k]]
<1> DEFINE c == CHOOSE t : Fix(t)
<1>1. PICK t : Totals(s, t, Len(s))
  BY TotalsExist
<1>2. Fix(t)
  BY <1>1 DEF Totals
<1>3. Fix(c)
  BY <1>2
<1>4. Sum(s) = c[Len(s)]
  BY DEF Sum
<1>5. \A k \in 0 .. Len(s) : c[k] = IF k = 0 THEN 0 ELSE c[k - 1] + s[k]
  BY <1>3
<1>6. DOMAIN c = 0 .. Len(s)
  BY <1>3
<1> HIDE DEF c
<1> DEFINE S == {n \in Nat : n <= Len(s) => c[n] \in Nat}
<1>7. 0 \in S
  BY <1>5
<1>8. ASSUME NEW n \in Nat, n \in S PROVE n + 1 \in S
  <2> SUFFICES ASSUME n + 1 <= Len(s) PROVE c[n + 1] \in Nat
    OBVIOUS
  <2>1. c[n + 1] = c[n] + s[n + 1]
    BY <1>5
  <2>2. s[n + 1] \in Nat /\ c[n] \in Nat
    BY <1>8
  <2> QED  BY <2>1, <2>2
<1>9. Nat \subseteq S
  BY <1>7, <1>8, SetInduction
<1>10. c \in [0 .. Len(s) -> Nat]
  <2>1. c = [k \in 0 .. Len(s) |-> c[k]]
    BY <1>3, <1>6 DEF c
  <2>2. \A k \in 0 .. Len(s) : c[k] \in Nat
    BY <1>9
  <2> QED  BY <2>1, <2>2
<1>11. Totals(s, c, Len(s))
  BY <1>5, <1>10 DEF Totals
<1> QED  BY <1>4, <1>11

LEMMA SumType == ASSUME NEW s \in Seq(Nat) PROVE Sum(s) \in Nat
BY SumIs DEF Totals

\* The partial sums of sequences that agree up to m agree up to m.
LEMMA SameTotals ==
    ASSUME NEW s \in Seq(Nat), NEW t \in Seq(Nat), NEW m \in Nat, m <= Len(s), m <= Len(t),
           \A k \in 1 .. m : s[k] = t[k]
    PROVE  \A u, v : Totals(s, u, Len(s)) /\ Totals(t, v, Len(t)) => u[m] = v[m]
<1> SUFFICES ASSUME NEW u, NEW v, Totals(s, u, Len(s)), Totals(t, v, Len(t))
             PROVE  u[m] = v[m]
  OBVIOUS
<1> DEFINE S == {n \in Nat : n <= m => u[n] = v[n]}
<1>1. 0 \in S
  BY DEF Totals
<1>2. ASSUME NEW n \in Nat, n \in S PROVE n + 1 \in S
  <2> SUFFICES ASSUME n + 1 <= m PROVE u[n + 1] = v[n + 1]
    OBVIOUS
  <2> DEFINE k == n + 1
  <2>1. k \in 1 .. m /\ k \in 1 .. Len(s) /\ k \in 1 .. Len(t) /\ k - 1 = n
    OBVIOUS
  <2>2. u[k] = u[k - 1] + s[k] /\ v[k] = v[k - 1] + t[k]
    BY <2>1 DEF Totals
  <2> QED  BY <1>2, <2>1, <2>2
<1>3. Nat \subseteq S
  BY <1>1, <1>2, SetInduction
<1> QED  BY <1>3

\* One more number is added to the sum.
LEMMA SumAppend ==
    ASSUME NEW s \in Seq(Nat), NEW t \in Seq(Nat), Len(t) = Len(s) + 1,
           \A k \in 1 .. Len(s) : t[k] = s[k]
    PROVE  Sum(t) = Sum(s) + t[Len(t)]
<1>1. PICK u : Totals(s, u, Len(s)) /\ Sum(s) = u[Len(s)]
  BY SumIs
<1>2. PICK v : Totals(t, v, Len(t)) /\ Sum(t) = v[Len(t)]
  BY SumIs
<1>3. u[Len(s)] = v[Len(s)]
  <2>1. Len(s) \in Nat
    OBVIOUS
  <2>2. PICK m \in Nat : m = Len(s)
    BY <2>1
  <2>3. m <= Len(s) /\ m <= Len(t) /\ \A k \in 1 .. m : s[k] = t[k]
    BY <2>2
  <2>4. u[m] = v[m]
    BY <1>1, <1>2, <2>3, SameTotals
  <2> QED  BY <2>2, <2>4
<1>4. v[Len(t)] = v[Len(t) - 1] + t[Len(t)]
  <2>1. \A k \in 1 .. Len(t) : v[k] = v[k - 1] + t[k]
    BY <1>2 DEF Totals
  <2>2. Len(t) \in 1 .. Len(t)
    OBVIOUS
  <2> QED  BY <2>1, <2>2, Zenon
<1> QED  BY <1>1, <1>2, <1>3, <1>4

\* Zeros that follow do not change it.
LEMMA SumZeros ==
    ASSUME NEW s \in Seq(Nat), NEW t \in Seq(Nat), Len(s) <= Len(t),
           \A k \in 1 .. Len(s) : t[k] = s[k],
           \A k \in Len(s) + 1 .. Len(t) : t[k] = 0
    PROVE  Sum(t) = Sum(s)
<1>1. PICK u : Totals(s, u, Len(s)) /\ Sum(s) = u[Len(s)]
  BY SumIs
<1>2. PICK v : Totals(t, v, Len(t)) /\ Sum(t) = v[Len(t)]
  BY SumIs
<1>3. u[Len(s)] = v[Len(s)]
  <2> DEFINE m == Len(s)
  <2>1. m \in Nat /\ m <= Len(s) /\ m <= Len(t) /\ \A k \in 1 .. m : s[k] = t[k]
    OBVIOUS
  <2> HIDE DEF m
  <2>2. \A x, y : Totals(s, x, Len(s)) /\ Totals(t, y, Len(t)) => x[m] = y[m]
    BY <2>1, SameTotals
  <2>3. u[m] = v[m]
    BY <1>1, <1>2, <2>2
  <2> QED  BY <2>3 DEF m
<1> DEFINE S == {n \in Nat : Len(s) + n <= Len(t) => v[Len(s) + n] = v[Len(s)]}
<1>4. 0 \in S
  OBVIOUS
<1>5. ASSUME NEW n \in Nat, n \in S PROVE n + 1 \in S
  <2> SUFFICES ASSUME Len(s) + (n + 1) <= Len(t) PROVE v[Len(s) + (n + 1)] = v[Len(s)]
    OBVIOUS
  <2> DEFINE m == Len(s) + n + 1
  <2>1. m \in 1 .. Len(t) /\ m - 1 = Len(s) + n /\ m = Len(s) + (n + 1)
    OBVIOUS
  <2>2. v[m] = v[m - 1] + t[m] /\ t[m] = 0
    BY <1>2, <2>1 DEF Totals
  <2>3. v[m - 1] \in Nat
    BY <1>2, <2>1 DEF Totals
  <2> QED  BY <1>5, <2>1, <2>2, <2>3
<1>6. Nat \subseteq S
  BY <1>4, <1>5, SetInduction
<1>7. Len(t) - Len(s) \in S
  BY <1>6
<1>8. v[Len(t)] = v[Len(s)]
  BY <1>7
<1> QED  BY <1>1, <1>2, <1>3, <1>8

LEMMA SumOfZeros ==
    ASSUME NEW s \in Seq(Nat), \A k \in 1 .. Len(s) : s[k] = 0
    PROVE  Sum(s) = 0
<1>1. <<>> \in Seq(Nat) /\ Len(<<>>) = 0
  OBVIOUS
<1>2. Sum(s) = Sum(<<>>)
  <2> DEFINE e == <<>>
  <2>1. e \in Seq(Nat) /\ Len(e) = 0 /\ Len(s) \in Nat
    OBVIOUS
  <2>2. /\ Len(e) <= Len(s) /\ \A k \in 1 .. Len(e) : s[k] = e[k]
        /\ \A k \in Len(e) + 1 .. Len(s) : s[k] = 0
    BY <2>1
  <2> HIDE DEF e
  <2>3. Sum(s) = Sum(e)
    BY <2>1, <2>2, SumZeros
  <2> QED  BY <2>3 DEF e
<1>3. PICK u : Totals(<<>>, u, Len(<<>>)) /\ Sum(<<>>) = u[Len(<<>>)]
  BY <1>1, SumIs
<1> QED  BY <1>1, <1>2, <1>3 DEF Totals

-----------------------------------------------------------------------------
(* More on sums.                                                           *)

LEMMA Upwards ==
    ASSUME NEW N \in Nat, NEW S, 0 \in S, \A k \in 1 .. N : k - 1 \in S => k \in S
    PROVE  \A k \in 0 .. N : k \in S
<1> DEFINE T == {n \in Nat : n <= N => n \in S}
<1>1. 0 \in T
  OBVIOUS
<1>2. ASSUME NEW n \in Nat, n \in T PROVE n + 1 \in T
  <2> SUFFICES ASSUME n + 1 <= N PROVE n + 1 \in S
    OBVIOUS
  <2>1. n \in S /\ (n + 1) - 1 = n /\ n + 1 \in 1 .. N
    BY <1>2
  <2> QED  BY <2>1
<1>3. Nat \subseteq T
  BY <1>1, <1>2, SetInduction
<1> QED  BY <1>3

LEMMA TotalsStep ==
    ASSUME NEW s \in Seq(Nat), NEW N \in Nat, N = Len(s), NEW u, Totals(s, u, N)
    PROVE  /\ u[0] = 0 /\ \A k \in 0 .. N : u[k] \in Nat
           /\ \A k \in 1 .. N : u[k] = u[k - 1] + s[k] /\ u[k] \in Nat /\ u[k - 1] \in Nat /\ s[k] \in Nat
<1>1. u[0] = 0 /\ (\A k \in 0 .. N : u[k] \in Nat) /\ (\A k \in 1 .. N : u[k] = u[k - 1] + s[k])
  BY DEF Totals
<1>2. \A k \in 1 .. N : s[k] \in Nat /\ k \in 0 .. N /\ k - 1 \in 0 .. N
  OBVIOUS
<1> QED  BY <1>1, <1>2

\* Partial sums do not decrease.
LEMMA TotalsGrow ==
    ASSUME NEW s \in Seq(Nat), NEW N \in Nat, N = Len(s), NEW u, Totals(s, u, N)
    PROVE  \A a, b \in 0 .. N : a <= b => u[a] <= u[b]
<1> SUFFICES ASSUME NEW a \in 0 .. N PROVE \A b \in 0 .. N : a <= b => u[a] <= u[b]
  OBVIOUS
<1>1. (\A k \in 0 .. N : u[k] \in Nat) /\ \A k \in 1 .. N : u[k] = u[k - 1] + s[k] /\ s[k] \in Nat
  BY TotalsStep
<1> DEFINE S == {k \in 0 .. N : a <= k => u[a] <= u[k]}
<1>2. 0 \in S
  BY <1>1
<1>3. ASSUME NEW k \in 1 .. N, k - 1 \in S PROVE k \in S
  <2>1. u[k] = u[k - 1] + s[k] /\ s[k] \in Nat /\ u[k - 1] \in Nat /\ u[a] \in Nat /\ u[k] \in Nat
    BY <1>1
  <2>2. a <= k - 1 => u[a] <= u[k - 1]
    BY <1>3
  <2>3. CASE a = k
    BY <2>1, <2>3
  <2>4. CASE a # k
    <3>1. a <= k => a <= k - 1
      BY <2>4
    <3> HIDE DEF S
    <3>2. a <= k => u[a] <= u[k]
      BY <2>1, <2>2, <3>1
    <3> QED  BY <3>2 DEF S
  <2> QED  BY <2>3, <2>4
<1>4. \A k \in 0 .. N : k \in S
  BY <1>2, <1>3, Upwards
<1> QED  BY <1>4

LEMMA SumPlus ==
    ASSUME NEW s \in Seq(Nat), NEW t \in Seq(Nat), NEW w \in Seq(Nat), Len(t) = Len(s), Len(w) = Len(s),
           \A k \in 1 .. Len(s) : w[k] = s[k] + t[k]
    PROVE  Sum(w) = Sum(s) + Sum(t)
<1> DEFINE N == Len(s)
<1>0. N \in Nat /\ N = Len(s) /\ N = Len(t) /\ N = Len(w)
  OBVIOUS
<1>1. PICK u : Totals(s, u, N) /\ Sum(s) = u[N]
  BY SumIs
<1>2. PICK v : Totals(t, v, N) /\ Sum(t) = v[N]
  BY <1>0, SumIs
<1>3. PICK x : Totals(w, x, N) /\ Sum(w) = x[N]
  BY <1>0, SumIs
<1>4. \A k \in 1 .. N : w[k] = s[k] + t[k]
  OBVIOUS
<1> HIDE DEF N
<1>5. u[0] = 0 /\ \A k \in 1 .. N : u[k] = u[k - 1] + s[k] /\ u[k - 1] \in Nat /\ s[k] \in Nat
  BY <1>0, <1>1, TotalsStep
<1>6. v[0] = 0 /\ \A k \in 1 .. N : v[k] = v[k - 1] + t[k] /\ v[k - 1] \in Nat /\ t[k] \in Nat
  BY <1>0, <1>2, TotalsStep
<1>7. x[0] = 0 /\ \A k \in 1 .. N : x[k] = x[k - 1] + w[k]
  BY <1>0, <1>3, TotalsStep
<1> DEFINE S == {k \in 0 .. N : x[k] = u[k] + v[k]}
<1>8. 0 \in S
  BY <1>0, <1>5, <1>6, <1>7
<1>9. ASSUME NEW k \in 1 .. N, k - 1 \in S PROVE k \in S
  <2>1. x[k - 1] = u[k - 1] + v[k - 1] /\ k \in 0 .. N
    BY <1>0, <1>9
  <2> HIDE DEF S
  <2>2. w[k] = s[k] + t[k] /\ u[k] = u[k - 1] + s[k] /\ u[k - 1] \in Nat /\ s[k] \in Nat
    BY <1>4, <1>5
  <2>3. v[k] = v[k - 1] + t[k] /\ v[k - 1] \in Nat /\ t[k] \in Nat /\ x[k] = x[k - 1] + w[k]
    BY <1>6, <1>7
  <2>4. x[k] = u[k] + v[k]
    <3> DEFINE a == u[k - 1]
               b == v[k - 1]
               c == s[k]
               d == t[k]
    <3>1. a \in Nat /\ b \in Nat /\ c \in Nat /\ d \in Nat
      BY <2>2, <2>3
    <3>2. u[k] = a + c /\ v[k] = b + d /\ x[k] = (a + b) + (c + d)
      BY <2>1, <2>2, <2>3
    <3> HIDE DEF a, b, c, d
    <3>3. (a + b) + (c + d) = (a + c) + (b + d)
      BY <3>1
    <3> QED  BY <3>2, <3>3
  <2> QED  BY <2>1, <2>4 DEF S
<1>10. \A k \in 0 .. N : k \in S
  BY <1>0, <1>8, <1>9, Upwards
<1>11. x[N] = u[N] + v[N]
  BY <1>0, <1>10
<1> QED  BY <1>1, <1>2, <1>3, <1>11

LEMMA SumLess ==
    ASSUME NEW s \in Seq(Nat), NEW t \in Seq(Nat), Len(t) = Len(s), \A k \in 1 .. Len(s) : s[k] <= t[k]
    PROVE  Sum(s) <= Sum(t)
<1> DEFINE r == [k \in 1 .. Len(s) |-> t[k] - s[k]]
<1>1. \A k \in 1 .. Len(s) : s[k] \in Nat /\ t[k] \in Nat /\ t[k] - s[k] \in Nat
  OBVIOUS
<1>2. r \in Seq(Nat) /\ Len(r) = Len(s)
  BY <1>1
<1>3. \A k \in 1 .. Len(s) : t[k] = s[k] + r[k]
  BY <1>1
<1> HIDE DEF r
<1>4. Sum(t) = Sum(s) + Sum(r)
  BY <1>2, <1>3, SumPlus
<1>5. Sum(s) \in Nat /\ Sum(r) \in Nat
  BY <1>2, SumType
<1> QED  BY <1>4, <1>5

\* A sequence that is x at one position and zero elsewhere.
LEMMA SumOne ==
    ASSUME NEW s \in Seq(Nat), NEW i \in 1 .. Len(s), \A k \in 1 .. Len(s) : k # i => s[k] = 0
    PROVE  Sum(s) = s[i]
<1> DEFINE N == Len(s)
           x == s[i]
<1>0. N \in Nat /\ N = Len(s) /\ i \in 1 .. N /\ x \in Nat
  OBVIOUS
<1>1. PICK u : Totals(s, u, N) /\ Sum(s) = u[N]
  BY SumIs
<1>2. \A k \in 1 .. N : s[k] = IF k = i THEN x ELSE 0
  OBVIOUS
<1> HIDE DEF N, x
<1>3. u[0] = 0 /\ \A k \in 1 .. N : u[k] = u[k - 1] + s[k] /\ u[k - 1] \in Nat /\ s[k] \in Nat
  BY <1>0, <1>1, TotalsStep
<1> DEFINE S == {k \in 0 .. N : u[k] = IF k < i THEN 0 ELSE x}
<1>4. 0 \in S
  BY <1>0, <1>3
<1>5. ASSUME NEW k \in 1 .. N, k - 1 \in S PROVE k \in S
  <2>1. u[k - 1] = (IF k - 1 < i THEN 0 ELSE x) /\ k \in 0 .. N
    BY <1>0, <1>5
  <2> HIDE DEF S
  <2>2. CASE k < i
    <3>1. u[k - 1] = 0 /\ s[k] = 0
      BY <1>0, <1>2, <2>1, <2>2
    <3>2. u[k] = 0
      BY <1>3, <3>1
    <3> QED  BY <2>1, <2>2, <3>2 DEF S
  <2>3. CASE k = i
    BY <1>0, <1>2, <1>3, <2>1, <2>3 DEF S
  <2>4. CASE k > i
    BY <1>0, <1>2, <1>3, <2>1, <2>4 DEF S
  <2> QED  BY <1>0, <2>2, <2>3, <2>4
<1>6. \A k \in 0 .. N : k \in S
  BY <1>0, <1>4, <1>5, Upwards
<1>7. u[N] = x
  BY <1>0, <1>6
<1> QED  BY <1>1, <1>7 DEF x

\* One number of the sequence is replaced by another.
LEMMA SumReplaced ==
    ASSUME NEW s \in Seq(Nat), NEW t \in Seq(Nat), Len(t) = Len(s), NEW i \in 1 .. Len(s),
           \A k \in 1 .. Len(s) : k # i => t[k] = s[k]
    PROVE  Sum(t) + s[i] = Sum(s) + t[i]
<1> DEFINE rest == [k \in 1 .. Len(s) |-> IF k = i THEN 0 ELSE s[k]]
           old  == [k \in 1 .. Len(s) |-> IF k = i THEN s[i] ELSE 0]
           new  == [k \in 1 .. Len(s) |-> IF k = i THEN t[i] ELSE 0]
<1>1. \A k \in 1 .. Len(s) : s[k] \in Nat /\ t[k] \in Nat
  OBVIOUS
<1>2. rest \in Seq(Nat) /\ Len(rest) = Len(s) /\ old \in Seq(Nat) /\ Len(old) = Len(s)
      /\ new \in Seq(Nat) /\ Len(new) = Len(s)
  BY <1>1
<1>3. \A k \in 1 .. Len(s) : s[k] = rest[k] + old[k]
  BY <1>1
<1>4. \A k \in 1 .. Len(s) : t[k] = rest[k] + new[k]
  BY <1>1
<1>5. old[i] = s[i] /\ new[i] = t[i] /\ \A k \in 1 .. Len(s) : k # i => old[k] = 0 /\ new[k] = 0
  OBVIOUS
<1> HIDE DEF rest, old, new
<1>6. Sum(s) = Sum(rest) + Sum(old)
  <2>1. Len(old) = Len(rest) /\ Len(s) = Len(rest) /\ \A k \in 1 .. Len(rest) : s[k] = rest[k] + old[k]
    BY <1>2, <1>3
  <2> QED  BY <1>2, <2>1, SumPlus
<1>7. Sum(t) = Sum(rest) + Sum(new)
  <2>1. Len(new) = Len(rest) /\ Len(t) = Len(rest) /\ \A k \in 1 .. Len(rest) : t[k] = rest[k] + new[k]
    BY <1>2, <1>4
  <2> QED  BY <1>2, <2>1, SumPlus
<1>8. Sum(old) = s[i]
  BY <1>2, <1>5, SumOne
<1>9. Sum(new) = t[i]
  BY <1>2, <1>5, SumOne
<1>10. Sum(rest) \in Nat /\ s[i] \in Nat /\ t[i] \in Nat
  BY <1>1, <1>2, SumType
<1> QED  BY <1>6, <1>7, <1>8, <1>9, <1>10

\* A number is put in after the first n.
LEMMA SumInserted ==
    ASSUME NEW s \in Seq(Nat), NEW t \in Seq(Nat), Len(t) = Len(s) + 1, NEW n \in 0 .. Len(s),
           \A k \in 1 .. n : t[k] = s[k], \A k \in n + 1 .. Len(s) : t[k + 1] = s[k]
    PROVE  Sum(t) = Sum(s) + t[n + 1]
<1> DEFINE N == Len(s)
           M == Len(t)
           x == t[n + 1]
<1>0. N \in Nat /\ N = Len(s) /\ M \in Nat /\ M = N + 1 /\ M = Len(t) /\ n \in 0 .. N /\ x \in Nat
  OBVIOUS
<1>1. PICK u : Totals(s, u, N) /\ Sum(s) = u[N]
  BY SumIs
<1>2. PICK v : Totals(t, v, M) /\ Sum(t) = v[M]
  BY SumIs
<1>3. (\A k \in 1 .. n : t[k] = s[k]) /\ \A k \in n + 1 .. N : t[k + 1] = s[k]
  OBVIOUS
<1> HIDE DEF N, M
<1>4. u[0] = 0 /\ \A k \in 1 .. N : u[k] = u[k - 1] + s[k] /\ u[k - 1] \in Nat /\ s[k] \in Nat
  BY <1>0, <1>1, TotalsStep
<1>5. v[0] = 0 /\ \A k \in 1 .. M : v[k] = v[k - 1] + t[k] /\ v[k - 1] \in Nat /\ t[k] \in Nat
  BY <1>0, <1>2, TotalsStep
<1>6. \A k \in 0 .. N : u[k] \in Nat
  BY <1>0, <1>1, TotalsStep
<1>7. \A k \in n + 1 .. N : v[k + 1] = v[k] + t[k + 1]
  <2> TAKE k \in n + 1 .. N
  <2> DEFINE h == k + 1
  <2>1. h \in 1 .. M /\ h - 1 = k
    BY <1>0
  <2> HIDE DEF h
  <2>2. v[h] = v[k] + t[h]
    BY <1>5, <2>1
  <2> QED  BY <2>2 DEF h
<1>8. v[n + 1] = v[n] + x
  <2> DEFINE h == n + 1
  <2>1. h \in 1 .. M /\ h - 1 = n
    BY <1>0
  <2> HIDE DEF h
  <2>2. v[h] = v[n] + t[h]
    BY <1>5, <2>1
  <2> QED  BY <2>2 DEF h
<1> HIDE DEF x
<1> DEFINE S == {k \in 0 .. N : IF k <= n THEN v[k] = u[k] ELSE v[k + 1] = u[k] + x}
<1>9. 0 \in S
  BY <1>0, <1>4, <1>5
<1>10. ASSUME NEW k \in 1 .. N, k - 1 \in S PROVE k \in S
  <2>1. k \in 0 .. N /\ k \in 1 .. M /\ u[k] = u[k - 1] + s[k] /\ u[k - 1] \in Nat /\ s[k] \in Nat
    BY <1>0, <1>4
  <2>2. CASE k <= n
    <3>1. v[k - 1] = u[k - 1] /\ t[k] = s[k]
      BY <1>0, <1>3, <1>10, <2>2
    <3>2. v[k] = v[k - 1] + t[k]
      BY <1>5, <2>1
    <3> HIDE DEF S
    <3>3. v[k] = u[k]
      BY <2>1, <3>1, <3>2
    <3> QED  BY <2>1, <2>2, <3>3 DEF S
  <2>3. CASE k = n + 1
    <3>1. v[k - 1] = u[k - 1]
      BY <1>0, <1>10, <2>3
    <3>2. v[k] = u[k - 1] + x
      BY <1>0, <1>8, <2>3, <3>1
    <3>3. v[k + 1] = v[k] + t[k + 1] /\ t[k + 1] = s[k]
      BY <1>0, <1>3, <1>7, <2>3
    <3> HIDE DEF S
    <3>4. v[k + 1] = u[k] + x
      BY <1>0, <2>1, <3>2, <3>3
    <3>5. ~(k <= n)
      BY <1>0, <2>3
    <3> QED  BY <2>1, <3>4, <3>5 DEF S
  <2>4. CASE k > n + 1
    <3>1. v[k] = u[k - 1] + x
      <4>1. ~(k - 1 <= n) /\ (k - 1) + 1 = k
        BY <1>0, <2>4
      <4> QED  BY <1>10, <4>1
    <3>2. v[k + 1] = v[k] + t[k + 1] /\ t[k + 1] = s[k]
      BY <1>0, <1>3, <1>7, <2>4
    <3> HIDE DEF S
    <3>3. v[k + 1] = u[k] + x
      BY <1>0, <2>1, <3>1, <3>2
    <3>4. ~(k <= n)
      BY <1>0, <2>4
    <3> QED  BY <2>1, <3>3, <3>4 DEF S
  <2> QED  BY <1>0, <2>2, <2>3, <2>4
<1>11. \A k \in 0 .. N : k \in S
  BY <1>0, <1>9, <1>10, Upwards
<1>12. v[N + 1] = u[N] + x
  <2>1. N \in S
    BY <1>0, <1>11
  <2>2. CASE n = N
    <3>1. v[N] = u[N]
      BY <1>0, <2>1, <2>2
    <3> QED  BY <1>8, <2>2, <3>1
  <2>3. CASE n # N
    BY <1>0, <2>1, <2>3
  <2> QED  BY <2>2, <2>3
<1> QED  BY <1>0, <1>1, <1>2, <1>12 DEF x

\* The sum of what comes before a position.
Before(s, N, i, t) == Len(t) = N /\ \A k \in 1 .. N : t[k] = IF k < i THEN s[k] ELSE 0

LEMMA SumBefore ==
    ASSUME NEW s \in Seq(Nat), NEW N \in Nat, N = Len(s), NEW u, Totals(s, u, N), NEW i \in 1 .. N,
           NEW t \in Seq(Nat), Before(s, N, i, t)
    PROVE  Sum(t) = u[i - 1]
<1>0. Len(t) = N
  BY DEF Before
<1>1. PICK v : Totals(t, v, N) /\ Sum(t) = v[N]
  BY <1>0, SumIs
<1>2. u[0] = 0 /\ \A k \in 1 .. N : u[k] = u[k - 1] + s[k]
  BY DEF Totals
<1>3. v[0] = 0 /\ \A k \in 1 .. N : v[k] = v[k - 1] + t[k] /\ v[k] \in Nat /\ v[k - 1] \in Nat /\ t[k] \in Nat
  BY <1>0, <1>1, TotalsStep
<1>4. \A k \in 1 .. N : t[k] = IF k < i THEN s[k] ELSE 0
  BY DEF Before
<1> DEFINE S == {k \in 0 .. N : IF k < i THEN v[k] = u[k] ELSE v[k] = u[i - 1]}
<1>5. 0 \in S
  BY <1>2, <1>3
<1>6. ASSUME NEW k \in 1 .. N, k - 1 \in S PROVE k \in S
  <2>1. k \in 0 .. N /\ v[k] = v[k - 1] + t[k] /\ v[k - 1] \in Nat /\ u[k] = u[k - 1] + s[k]
    BY <1>2, <1>3
  <2>2. CASE k < i
    <3>1. v[k - 1] = u[k - 1] /\ t[k] = s[k]
      BY <1>4, <1>6, <2>2
    <3> HIDE DEF S
    <3> QED  BY <2>1, <2>2, <3>1 DEF S
  <2>3. CASE k = i
    <3>1. v[k - 1] = u[k - 1] /\ t[k] = 0
      BY <1>4, <1>6, <2>3
    <3> HIDE DEF S
    <3>2. v[k] = u[k - 1]
      BY <2>1, <3>1
    <3> QED  BY <2>1, <2>3, <3>2 DEF S
  <2>4. CASE k > i
    <3>1. v[k - 1] = u[i - 1] /\ t[k] = 0
      BY <1>4, <1>6, <2>4
    <3> HIDE DEF S
    <3>2. v[k] = u[i - 1]
      BY <2>1, <3>1
    <3> QED  BY <2>1, <2>4, <3>2 DEF S
  <2> QED  BY <2>2, <2>3, <2>4
<1>7. \A k \in 0 .. N : k \in S
  BY <1>5, <1>6, Upwards
<1>8. v[N] = u[i - 1]
  <2>1. N \in S
    BY <1>7
  <2> QED  BY <2>1
<1> QED  BY <1>1, <1>8

-----------------------------------------------------------------------------
(* The accounts.                                                           *)

\* A recursive function whose values stay in S.
IsRun(f, N, S, A, G) ==
    f \in [0 .. N -> S] /\ f[0] = A /\ \A k \in 1 .. N : f[k] = G[<<f[k - 1], k>>]

LEMMA Runs ==
    ASSUME NEW N \in Nat, NEW S, NEW A \in S, NEW G \in [S \X (1 .. N) -> S]
    PROVE  \E f : IsRun(f, N, S, A, G)
<1> DEFINE R(f, n) == f \in [0 .. n -> S] /\ f[0] = A /\ \A k \in 1 .. n : f[k] = G[<<f[k - 1], k>>]
           T == {n \in 0 .. N : \E f : R(f, n)}
<1>1. 0 \in T
  <2> DEFINE f == [k \in 0 .. 0 |-> A]
  <2>1. f \in [0 .. 0 -> S] /\ f[0] = A
    OBVIOUS
  <2>2. \A k \in 1 .. 0 : FALSE
    OBVIOUS
  <2> HIDE DEF f
  <2>3. R(f, 0)
    BY <2>1, <2>2
  <2> QED  BY <2>3
<1>2. ASSUME NEW n \in 1 .. N, n - 1 \in T PROVE n \in T
  <2>1. PICK f : R(f, n - 1)
    BY <1>2
  <2> DEFINE x == G[<<f[n - 1], n>>]
             g == [k \in 0 .. n |-> IF k < n THEN f[k] ELSE x]
  <2>2. f \in [0 .. n - 1 -> S] /\ f[0] = A /\ \A k \in 1 .. n - 1 : f[k] = G[<<f[k - 1], k>>]
    BY <2>1
  <2>3. x \in S
    <3>1. <<f[n - 1], n>> \in S \X (1 .. N)
      BY <2>2
    <3> QED  BY <3>1
  <2>4. g \in [0 .. n -> S] /\ g[n] = x /\ \A k \in 0 .. n - 1 : g[k] = f[k]
    <3> HIDE DEF x
    <3> QED  BY <2>2, <2>3
  <2> HIDE DEF g
  <2>5. g[0] = A
    BY <2>2, <2>4
  <2>6. ASSUME NEW k \in 1 .. n PROVE g[k] = G[<<g[k - 1], k>>]
    <3>1. g[k - 1] = f[k - 1]
      BY <2>4
    <3>2. CASE k = n
      BY <2>4, <3>1, <3>2
    <3>3. CASE k # n
      <4>1. k \in 1 .. n - 1 /\ k \in 0 .. n - 1
        BY <3>3
      <4>2. g[k] = f[k] /\ f[k] = G[<<f[k - 1], k>>]
        BY <2>2, <2>4, <4>1
      <4> QED  BY <3>1, <4>2
    <3> QED  BY <3>2, <3>3
  <2> HIDE DEF x
  <2>7. R(g, n)
    BY <2>4, <2>5, <2>6
  <2> QED  BY <2>7
<1>3. \A n \in 0 .. N : n \in T
  BY <1>1, <1>2, Upwards
<1>4. PICK f : R(f, N)
  BY <1>3
<1>5. IsRun(f, N, S, A, G)
  BY <1>4 DEF IsRun
<1> QED  BY <1>5

LEMMA ShareIs ==
    ASSUME NEW e \in Shares
    PROVE  /\ e.amount \in Nat /\ e.left \in Nat /\ e.left <= e.amount /\ e.block \in Nat
           /\ e.dir \in {"in", "out"} /\ Explained(e) \in Nat /\ Explained(e) <= e.amount
<1>1. e.amount \in Nat /\ e.left \in Nat /\ e.left <= e.amount /\ e.block \in Nat /\ e.dir \in {"in", "out"}
  BY DEF Shares
<1> QED  BY <1>1 DEF Explained

LEMMA ShareWithLeft ==
    ASSUME NEW e \in Shares, NEW x \in Nat, x <= e.amount
    PROVE  LET f == [e EXCEPT !.left = x] IN
           f \in Shares /\ f.left = x /\ f.amount = e.amount /\ f.dir = e.dir /\ f.addr = e.addr /\ f.asset = e.asset
BY DEF Shares

\* What the states of one direction of an account have used up.
Use(e, d, g)  == IF e.dir = d /\ SameAccount(e, g) THEN Explained(e) ELSE 0
Uses(s, d, g) == [j \in DOMAIN s |-> Use(s[j], d, g)]

LEMMA UsesAre ==
    ASSUME NEW s \in Seq(Shares), NEW d, NEW g
    PROVE  /\ Uses(s, d, g) \in Seq(Nat) /\ Len(Uses(s, d, g)) = Len(s)
           /\ \A k \in 1 .. Len(s) : Uses(s, d, g)[k] = Use(s[k], d, g)
           /\ Sum(Uses(s, d, g)) \in Nat
<1>1. \A k \in 1 .. Len(s) : Use(s[k], d, g) \in Nat
  <2> TAKE k \in 1 .. Len(s)
  <2>1. s[k] \in Shares
    OBVIOUS
  <2>2. Explained(s[k]) \in Nat
    BY <2>1, ShareIs
  <2> QED  BY <2>2 DEF Use
<1>2. Uses(s, d, g) = [j \in 1 .. Len(s) |-> Use(s[j], d, g)]
  BY DEF Uses
<1>3. Uses(s, d, g) \in Seq(Nat) /\ Len(Uses(s, d, g)) = Len(s)
      /\ \A k \in 1 .. Len(s) : Uses(s, d, g)[k] = Use(s[k], d, g)
  BY <1>1, <1>2
<1> QED  BY <1>3, SumType

LEMMA UsedIs ==
    ASSUME NEW s, NEW g
    PROVE  /\ TotalUsed(s, Incoming(s, g)) = Sum(Uses(s, "in", g))
           /\ TotalUsed(s, Outgoing(s, g)) = Sum(Uses(s, "out", g))
<1>1. Uses(s, "in", g) = [j \in DOMAIN s |-> IF j \in Incoming(s, g) THEN Explained(s[j]) ELSE 0]
  BY DEF Uses, Use, Incoming
<1>2. Uses(s, "out", g) = [j \in DOMAIN s |-> IF j \in Outgoing(s, g) THEN Explained(s[j]) ELSE 0]
  BY DEF Uses, Use, Outgoing
<1> QED  BY <1>1, <1>2 DEF TotalUsed

\* Nothing is used of states that are whole.
LEMMA UsesOfWhole ==
    ASSUME NEW s \in Seq(Shares), \A k \in 1 .. Len(s) : Explained(s[k]) = 0
    PROVE  \A d, g : Sum(Uses(s, d, g)) = 0
<1> TAKE d, g
<1>1. \A k \in 1 .. Len(s) : Uses(s, d, g)[k] = 0
  BY UsesAre DEF Use
<1> QED  BY <1>1, UsesAre, SumOfZeros

LEMMA InsertedIs ==
    ASSUME NEW s \in Seq(Shares), NEW e \in Shares
    PROVE  \E n \in 0 .. Len(s) :
             /\ Inserted(s, e) \in Seq(Shares) /\ Len(Inserted(s, e)) = Len(s) + 1
             /\ \A k \in 1 .. n : Inserted(s, e)[k] = s[k]
             /\ Inserted(s, e)[n + 1] = e
             /\ \A k \in n + 1 .. Len(s) : Inserted(s, e)[k + 1] = s[k]
             /\ n = 0 <=> \A j \in 1 .. Len(s) : ~(s[j].block <= e.block)
<1> DEFINE J == {j \in DOMAIN s : s[j].block <= e.block}
           n == Cardinality(J)
<1>1. J \subseteq 1 .. Len(s) /\ Len(s) \in Nat
  OBVIOUS
<1>2. n \in 0 .. Len(s)
  <2> HIDE DEF J
  <2>1. IsFiniteSet(1 .. Len(s)) /\ Cardinality(1 .. Len(s)) = Len(s)
    <3>1. 1 \in Int /\ Len(s) \in Int
      BY <1>1
    <3>2. IsFiniteSet(1 .. Len(s)) /\ Cardinality(1 .. Len(s)) = IF 1 > Len(s) THEN 0 ELSE Len(s) - 1 + 1
      BY <3>1, FS_Interval
    <3> QED  BY <1>1, <3>2
  <2>2. IsFiniteSet(J) /\ Cardinality(J) <= Cardinality(1 .. Len(s))
    BY <1>1, <2>1, FS_Subset
  <2>3. Cardinality(J) \in Nat
    BY <2>2, FS_CardinalityType
  <2> QED  BY <1>1, <2>1, <2>2, <2>3
<1>3. Inserted(s, e) = SubSeq(s, 1, n) \o <<e>> \o SubSeq(s, n + 1, Len(s))
  BY DEF Inserted
<1>4. n = 0 <=> \A j \in 1 .. Len(s) : ~(s[j].block <= e.block)
  <2>1. J = {} <=> \A j \in 1 .. Len(s) : ~(s[j].block <= e.block)
    OBVIOUS
  <2> HIDE DEF J
  <2>2. IsFiniteSet(1 .. Len(s))
    BY <1>1, FS_Interval
  <2>3. IsFiniteSet(J)
    BY <1>1, <2>2, FS_Subset
  <2> QED  BY <2>1, <2>3, FS_EmptySet
<1> HIDE DEF n
<1> DEFINE a == SubSeq(s, 1, n)
           b == SubSeq(s, n + 1, Len(s))
<1>5. a \in Seq(Shares) /\ Len(a) = n /\ \A k \in 1 .. n : a[k] = s[k]
  BY <1>2
<1>6. b \in Seq(Shares) /\ Len(b) = Len(s) - n /\ \A k \in 1 .. Len(s) - n : b[k] = s[n + k]
  BY <1>2
<1>7. <<e>> \in Seq(Shares) /\ Len(<<e>>) = 1 /\ <<e>>[1] = e
  OBVIOUS
<1> HIDE DEF a, b
<1> DEFINE c == a \o <<e>>
           t == c \o b
<1>8. c \in Seq(Shares) /\ Len(c) = n + 1 /\ (\A k \in 1 .. n : c[k] = a[k]) /\ c[n + 1] = e
  BY <1>2, <1>5, <1>7
<1> HIDE DEF c
<1>9. t \in Seq(Shares) /\ Len(t) = Len(s) + 1 /\ (\A k \in 1 .. n + 1 : t[k] = c[k])
      /\ \A k \in 1 .. Len(s) - n : t[n + 1 + k] = b[k]
  BY <1>2, <1>6, <1>8
<1>10. Inserted(s, e) = t
  BY <1>3 DEF a, b, c
<1> HIDE DEF t
<1>11. \A k \in 1 .. n : t[k] = s[k]
  BY <1>2, <1>5, <1>8, <1>9
<1>12. t[n + 1] = e
  BY <1>2, <1>8, <1>9
<1>13. ASSUME NEW k \in n + 1 .. Len(s) PROVE t[k + 1] = s[k]
  <2> DEFINE m == k - n
  <2>1. m \in 1 .. Len(s) - n /\ n + 1 + m = k + 1 /\ n + m = k
    BY <1>2
  <2> HIDE DEF m
  <2>2. t[n + 1 + m] = b[m] /\ b[m] = s[n + m]
    BY <1>6, <1>9, <2>1
  <2> QED  BY <2>1, <2>2
<1> QED  BY <1>2, <1>9, <1>10, <1>11, <1>12, <1>13, <1>4

LEMMA InsertedUses ==
    ASSUME NEW s \in Seq(Shares), NEW e \in Shares
    PROVE  \A d, g : Sum(Uses(Inserted(s, e), d, g)) = Sum(Uses(s, d, g)) + Use(e, d, g)
<1> TAKE d, g
<1> DEFINE t == Inserted(s, e)
           u == Uses(s, d, g)
           v == Uses(t, d, g)
<1>1. PICK n \in 0 .. Len(s) :
          /\ t \in Seq(Shares) /\ Len(t) = Len(s) + 1 /\ (\A k \in 1 .. n : t[k] = s[k])
          /\ t[n + 1] = e /\ \A k \in n + 1 .. Len(s) : t[k + 1] = s[k]
  BY InsertedIs
<1> HIDE DEF t
<1>2. u \in Seq(Nat) /\ Len(u) = Len(s) /\ \A k \in 1 .. Len(s) : u[k] = Use(s[k], d, g)
  BY UsesAre
<1>3. v \in Seq(Nat) /\ Len(v) = Len(t) /\ \A k \in 1 .. Len(t) : v[k] = Use(t[k], d, g)
  BY <1>1, UsesAre
<1> HIDE DEF u, v
<1>4. Len(s) \in Nat /\ Len(v) = Len(u) + 1 /\ n \in 0 .. Len(u)
  BY <1>1, <1>2, <1>3
<1>5. \A k \in 1 .. n : v[k] = u[k]
  BY <1>1, <1>2, <1>3, <1>4
<1>6. \A k \in n + 1 .. Len(u) : v[k + 1] = u[k]
  <2> TAKE k \in n + 1 .. Len(u)
  <2>1. k \in 1 .. Len(s) /\ k + 1 \in 1 .. Len(t) /\ k \in n + 1 .. Len(s)
    BY <1>1, <1>2, <1>4
  <2> QED  BY <1>1, <1>2, <1>3, <2>1
<1>7. v[n + 1] = Use(e, d, g)
  <2>1. n + 1 \in 1 .. Len(t)
    BY <1>1
  <2> QED  BY <1>1, <1>3, <2>1
<1>8. Sum(v) = Sum(u) + v[n + 1]
  BY <1>2, <1>3, <1>4, <1>5, <1>6, SumInserted
<1> QED  BY <1>7, <1>8 DEF t, u, v

-----------------------------------------------------------------------------
(* The stable sort.                                                        *)

LEMMA SortRuns ==
    ASSUME NEW s \in Seq(Shares)
    PROVE  \E c : /\ c[0] = <<>> /\ \A k \in 1 .. Len(s) : c[k] = Inserted(c[k - 1], s[k])
                  /\ InBlockOrder(s) = c[Len(s)]
<1> DEFINE N == Len(s)
           Fix(t) == t = [k \in 0 .. N |-> IF k = 0 THEN <<>> ELSE Inserted(t[k - 1], s[k])]
           G == [p \in Seq(Shares) \X (1 .. N) |-> Inserted(p[1], s[p[2]])]
           c == CHOOSE t : Fix(t)
<1>1. N \in Nat /\ <<>> \in Seq(Shares)
  OBVIOUS
<1>2. G \in [Seq(Shares) \X (1 .. N) -> Seq(Shares)]
  <2> SUFFICES ASSUME NEW p \in Seq(Shares) \X (1 .. N) PROVE Inserted(p[1], s[p[2]]) \in Seq(Shares)
    OBVIOUS
  <2>1. p[1] \in Seq(Shares) /\ s[p[2]] \in Shares
    OBVIOUS
  <2> QED  BY <2>1, InsertedIs
<1>3. \A q \in Seq(Shares) : \A k \in 1 .. N : G[<<q, k>>] = Inserted(q, s[k])
  OBVIOUS
<1> HIDE DEF G, N
<1>4. PICK f \in [0 .. N -> Seq(Shares)] : f[0] = <<>> /\ \A k \in 1 .. N : f[k] = G[<<f[k - 1], k>>]
  <2> DEFINE S == Seq(Shares)
             A == <<>>
  <2>1. N \in Nat /\ A \in S /\ G \in [S \X (1 .. N) -> S]
    BY <1>1, <1>2
  <2> HIDE DEF S, A
  <2>2. \E f : IsRun(f, N, S, A, G)
    BY <2>1, Runs
  <2> QED  BY <2>2 DEF S, A, IsRun
<1>5. Fix(f)
  <2>1. ASSUME NEW k \in 0 .. N PROVE f[k] = IF k = 0 THEN <<>> ELSE Inserted(f[k - 1], s[k])
    <3>1. CASE k = 0
      BY <1>4, <3>1
    <3>2. CASE k # 0
      <4>1. k \in 1 .. N /\ f[k - 1] \in Seq(Shares)
        BY <1>1, <3>2
      <4> QED  BY <1>3, <1>4, <3>2, <4>1
    <3> QED  BY <3>1, <3>2
  <2> QED  BY <2>1
<1>6. Fix(c)
  BY <1>5
<1>7. InBlockOrder(s) = c[N]
  BY DEF InBlockOrder, N
<1> HIDE DEF c
<1>8. c[0] = <<>> /\ \A k \in 1 .. N : c[k] = Inserted(c[k - 1], s[k])
  <2>1. \A k \in 0 .. N : c[k] = IF k = 0 THEN <<>> ELSE Inserted(c[k - 1], s[k])
    BY <1>6
  <2> QED  BY <1>1, <2>1
<1> QED  BY <1>7, <1>8 DEF N

\* The same states in another order, as far as the accounts can tell.
LEMMA SortIs ==
    ASSUME NEW s \in Seq(Shares)
    PROVE  /\ InBlockOrder(s) \in Seq(Shares)
           /\ \A i \in 1 .. Len(InBlockOrder(s)) : \E j \in 1 .. Len(s) : InBlockOrder(s)[i] = s[j]
           /\ \A d, g : Sum(Uses(InBlockOrder(s), d, g)) = Sum(Uses(s, d, g))
<1> DEFINE N == Len(s)
           From(t) == \A i \in 1 .. Len(t) : \E j \in 1 .. N : t[i] = s[j]
<1>1. PICK c : /\ c[0] = <<>> /\ \A k \in 1 .. N : c[k] = Inserted(c[k - 1], s[k])
               /\ InBlockOrder(s) = c[N]
  BY SortRuns
<1>2. N \in Nat /\ N = Len(s) /\ \A k \in 1 .. N : s[k] \in Shares
  OBVIOUS
<1> HIDE DEF N
<1> DEFINE S == {k \in 0 .. N : c[k] \in Seq(Shares) /\ From(c[k])}
<1>3. 0 \in S
  <2>1. <<>> \in Seq(Shares) /\ Len(<<>>) = 0 /\ \A i \in 1 .. 0 : FALSE
    OBVIOUS
  <2>2. c[0] \in Seq(Shares) /\ From(c[0])
    BY <1>1, <2>1
  <2> QED  BY <1>2, <2>2
<1>4. ASSUME NEW k \in 1 .. N, k - 1 \in S PROVE k \in S
  <2> DEFINE q == c[k - 1]
             t == Inserted(q, s[k])
  <2>1. q \in Seq(Shares) /\ From(q) /\ c[k] = t /\ k \in 0 .. N /\ s[k] \in Shares
    BY <1>1, <1>2, <1>4
  <2> HIDE DEF q, S
  <2>2. PICK n \in 0 .. Len(q) :
            /\ t \in Seq(Shares) /\ Len(t) = Len(q) + 1 /\ (\A i \in 1 .. n : t[i] = q[i])
            /\ t[n + 1] = s[k] /\ \A i \in n + 1 .. Len(q) : t[i + 1] = q[i]
    BY <2>1, InsertedIs
  <2> HIDE DEF t
  <2>3. ASSUME NEW i \in 1 .. Len(t) PROVE \E j \in 1 .. N : t[i] = s[j]
    <3>1. CASE i <= n
      <4>1. i \in 1 .. n /\ i \in 1 .. Len(q)
        BY <2>1, <3>1
      <4>2. t[i] = q[i]
        BY <2>2, <4>1
      <4> QED  BY <2>1, <4>1, <4>2
    <3>2. CASE i = n + 1
      BY <2>2, <3>2
    <3>3. CASE i > n + 1
      <4> DEFINE h == i - 1
      <4>1. h \in n + 1 .. Len(q) /\ h \in 1 .. Len(q) /\ h + 1 = i
        BY <2>1, <2>2, <3>3
      <4> HIDE DEF h
      <4>2. t[i] = q[h]
        BY <2>2, <4>1
      <4> QED  BY <2>1, <4>1, <4>2
    <3> QED  BY <2>2, <3>1, <3>2, <3>3
  <2> QED  BY <2>1, <2>2, <2>3 DEF S
<1>5. \A k \in 0 .. N : k \in S
  BY <1>2, <1>3, <1>4, Upwards
<1>6. ASSUME NEW d, NEW g PROVE Sum(Uses(c[N], d, g)) = Sum(Uses(s, d, g))
  <2> DEFINE w == Uses(s, d, g)
  <2>1. w \in Seq(Nat) /\ Len(w) = N /\ \A k \in 1 .. N : w[k] = Use(s[k], d, g)
    BY <1>2, UsesAre
  <2> HIDE DEF w
  <2>2. PICK u : Totals(w, u, N) /\ Sum(w) = u[N]
    BY <2>1, SumIs
  <2>3. u[0] = 0 /\ (\A k \in 0 .. N : u[k] \in Nat)
        /\ \A k \in 1 .. N : u[k] = u[k - 1] + w[k] /\ u[k] \in Nat /\ u[k - 1] \in Nat /\ w[k] \in Nat
    BY <1>2, <2>1, <2>2, TotalsStep
  <2> DEFINE T == {k \in 0 .. N : Sum(Uses(c[k], d, g)) = u[k]}
  <2>4. 0 \in T
    <3>1. c[0] = <<>> /\ <<>> \in Seq(Shares) /\ \A k \in 1 .. Len(<<>>) : FALSE
      BY <1>1
    <3>2. Sum(Uses(<<>>, d, g)) = 0
      BY <3>1, UsesOfWhole
    <3> QED  BY <1>2, <2>3, <3>1, <3>2
  <2>5. ASSUME NEW k \in 1 .. N, k - 1 \in T PROVE k \in T
    <3>1. c[k - 1] \in Seq(Shares)
      BY <1>2, <1>5
    <3>2. c[k] = Inserted(c[k - 1], s[k]) /\ s[k] \in Shares /\ k \in 0 .. N
      BY <1>1, <1>2
    <3>3. Sum(Uses(c[k], d, g)) = Sum(Uses(c[k - 1], d, g)) + Use(s[k], d, g)
      BY <3>1, <3>2, InsertedUses
    <3>4. Sum(Uses(c[k - 1], d, g)) = u[k - 1]
      BY <2>5
    <3>5. u[k] = u[k - 1] + Use(s[k], d, g)
      BY <2>1, <2>3
    <3> QED  BY <3>2, <3>3, <3>4, <3>5
  <2>6. \A k \in 0 .. N : k \in T
    BY <1>2, <2>4, <2>5, Upwards
  <2>7. Sum(Uses(c[N], d, g)) = u[N]
    BY <1>2, <2>6
  <2> QED  BY <2>2, <2>7 DEF w
<1>7. c[N] \in Seq(Shares) /\ From(c[N])
  BY <1>2, <1>5
<1> QED  BY <1>1, <1>2, <1>6, <1>7

-----------------------------------------------------------------------------
(* One outgoing state pays itself from its queue.                          *)

LEMMA TakenIs ==
    ASSUME NEW a \in Nat, NEW w \in Nat, NEW l \in Nat
    PROVE  /\ Taken(a - w, l) \in Nat /\ Taken(a - w, l) <= l
           /\ (IF w <= a THEN w ELSE a) + Taken(a - w, l) = IF w + l <= a THEN w + l ELSE a
           /\ Taken(a - w, l) < l => a < w + l
           /\ a <= w => Taken(a - w, l) = 0
BY DEF Taken

LEMMA SumSame ==
    ASSUME NEW s \in Seq(Nat), NEW t \in Seq(Nat), Len(t) = Len(s), \A k \in 1 .. Len(s) : t[k] = s[k]
    PROVE  Sum(t) = Sum(s)
<1>1. (\A k \in 1 .. Len(s) : t[k] <= s[k]) /\ \A k \in 1 .. Len(s) : s[k] <= t[k]
  OBVIOUS
<1>2. Sum(s) \in Nat /\ Sum(t) \in Nat
  BY SumType
<1>3. Sum(s) <= Sum(t)
  BY <1>1, SumLess
<1>4. Sum(t) <= Sum(s)
  BY <1>1, SumLess
<1> QED  BY <1>2, <1>3, <1>4

Queue(s, i) == {j \in Incoming(s, s[i]) : j < i}

\* It takes what is there, no more than is due, and from the front.
LEMMA DrawnIs ==
    ASSUME NEW s \in Seq(Shares), NEW i \in 1 .. Len(s)
    PROVE  /\ Drawn(s, i) \in Seq(Nat) /\ Len(Drawn(s, i)) = Len(s)
           /\ \A j \in 1 .. Len(s) : Drawn(s, i)[j] <= s[j].left /\ (j \notin Queue(s, i) => Drawn(s, i)[j] = 0)
           /\ Sum(Drawn(s, i)) \in Nat /\ Sum(Drawn(s, i)) <= s[i].amount
           /\ \A j, k \in Queue(s, i) : j < k /\ Drawn(s, i)[j] < s[j].left => Drawn(s, i)[k] = 0
<1> DEFINE N == Len(s)
           a == s[i].amount
           Q == Queue(s, i)
           l == [j \in 1 .. N |-> IF j \in Q THEN s[j].left ELSE 0]
           r == Drawn(s, i)
           Min(x, y) == IF x <= y THEN x ELSE y
<1>1. N \in Nat /\ N = Len(s) /\ DOMAIN s = 1 .. N /\ s[i] \in Shares /\ \A j \in 1 .. N : s[j] \in Shares
  OBVIOUS
<1>2. a \in Nat /\ \A j \in 1 .. N : s[j].left \in Nat
  BY <1>1, ShareIs
<1>3. Q \subseteq 1 .. N
  BY <1>1 DEF Queue, Incoming
<1>4. r = [j \in 1 .. N |-> IF j \in Q THEN Taken(a - TotalLeft(s, {k \in Q : k < j}), s[j].left) ELSE 0]
  BY <1>1 DEF Drawn, Queue
<1> HIDE DEF N, a, Q
<1>6. l \in Seq(Nat) /\ Len(l) = N /\ \A j \in 1 .. N : l[j] = IF j \in Q THEN s[j].left ELSE 0
  BY <1>1, <1>2
<1> HIDE DEF l, r
<1>7. PICK W : Totals(l, W, N) /\ Sum(l) = W[N]
  BY <1>6, SumIs
<1>8. W[0] = 0 /\ (\A k \in 0 .. N : W[k] \in Nat)
      /\ \A k \in 1 .. N : W[k] = W[k - 1] + l[k] /\ W[k] \in Nat /\ W[k - 1] \in Nat /\ l[k] \in Nat
  BY <1>1, <1>6, <1>7, TotalsStep
<1>9. ASSUME NEW j \in 1 .. N PROVE TotalLeft(s, {k \in Q : k < j}) = W[j - 1]
  <2> DEFINE t == [k \in 1 .. N |-> IF k \in {h \in Q : h < j} THEN s[k].left ELSE 0]
  <2>1. t \in Seq(Nat) /\ Len(t) = N /\ \A k \in 1 .. N : t[k] = IF k < j THEN l[k] ELSE 0
    BY <1>1, <1>2, <1>6
  <2>2. TotalLeft(s, {k \in Q : k < j}) = Sum(t)
    BY <1>1 DEF TotalLeft
  <2> HIDE DEF t
  <2>3. l \in Seq(Nat) /\ N \in Nat /\ N = Len(l) /\ Totals(l, W, N)
    BY <1>1, <1>6, <1>7
  <2>4. t \in Seq(Nat) /\ Len(t) = N
    BY <2>1
  <2>5. Before(l, N, j, t)
    BY <2>1 DEF Before
  <2>6. Sum(t) = W[j - 1]
    BY <2>3, <2>4, <2>5, SumBefore
  <2> QED  BY <2>2, <2>6
<1>10. ASSUME NEW j \in 1 .. N PROVE r[j] = Taken(a - W[j - 1], l[j])
  <2>1. CASE j \in Q
    BY <1>4, <1>6, <1>9, <2>1
  <2>2. CASE j \notin Q
    <3>1. r[j] = 0 /\ l[j] = 0
      BY <1>4, <1>6, <2>2
    <3>2. a - W[j - 1] \in Int
      BY <1>2, <1>8
    <3> QED  BY <3>1, <3>2 DEF Taken
  <2> QED  BY <2>1, <2>2
<1>11. ASSUME NEW j \in 1 .. N
       PROVE  /\ r[j] \in Nat /\ r[j] <= l[j] /\ Min(W[j - 1], a) + r[j] = Min(W[j], a)
              /\ (r[j] < l[j] => a < W[j]) /\ (a <= W[j - 1] => r[j] = 0)
  <2>1. W[j - 1] \in Nat /\ l[j] \in Nat /\ W[j] = W[j - 1] + l[j]
    BY <1>8
  <2>2. r[j] = Taken(a - W[j - 1], l[j])
    BY <1>10
  <2> DEFINE w == W[j - 1]
             x == l[j]
  <2>3. w \in Nat /\ x \in Nat /\ W[j] = w + x /\ r[j] = Taken(a - w, x)
    BY <2>1, <2>2
  <2> HIDE DEF w, x
  <2>4. /\ Taken(a - w, x) \in Nat /\ Taken(a - w, x) <= x
        /\ (IF w <= a THEN w ELSE a) + Taken(a - w, x) = IF w + x <= a THEN w + x ELSE a
        /\ Taken(a - w, x) < x => a < w + x
        /\ a <= w => Taken(a - w, x) = 0
    BY <1>2, <2>3, TakenIs
  <2>5. /\ r[j] \in Nat /\ r[j] <= x /\ Min(w, a) + r[j] = Min(W[j], a)
        /\ (r[j] < x => a < W[j]) /\ (a <= w => r[j] = 0)
    BY <2>3, <2>4
  <2> QED  BY <2>5 DEF w, x
<1> HIDE DEF Min
<1>12. r \in Seq(Nat) /\ Len(r) = N
  <2>1. r = [j \in 1 .. N |-> r[j]]
    BY <1>4
  <2>2. \A j \in 1 .. N : r[j] \in Nat
    BY <1>11
  <2> QED  BY <1>1, <2>1, <2>2
<1>13. ASSUME NEW j \in 1 .. N PROVE r[j] <= s[j].left /\ (j \notin Q => r[j] = 0)
  <2>1. r[j] \in Nat /\ r[j] <= l[j] /\ l[j] = (IF j \in Q THEN s[j].left ELSE 0) /\ s[j].left \in Nat
    BY <1>2, <1>6, <1>11
  <2> QED  BY <2>1
<1>14. Sum(r) \in Nat /\ Sum(r) <= a
  <2>1. PICK D : Totals(r, D, N) /\ Sum(r) = D[N]
    BY <1>12, SumIs
  <2>2. D[0] = 0 /\ (\A k \in 0 .. N : D[k] \in Nat)
        /\ \A k \in 1 .. N : D[k] = D[k - 1] + r[k] /\ D[k] \in Nat /\ D[k - 1] \in Nat /\ r[k] \in Nat
    BY <1>1, <1>12, <2>1, TotalsStep
  <2> DEFINE S == {k \in 0 .. N : D[k] = Min(W[k], a)}
  <2>3. 0 \in S
    BY <1>1, <1>2, <1>8, <2>2 DEF Min
  <2>4. ASSUME NEW k \in 1 .. N, k - 1 \in S PROVE k \in S
    <3>1. D[k - 1] = Min(W[k - 1], a) /\ k \in 0 .. N
      BY <2>4
    <3>2. D[k] = D[k - 1] + r[k]
      BY <2>2
    <3>3. Min(W[k - 1], a) + r[k] = Min(W[k], a)
      BY <1>11
    <3> HIDE DEF S
    <3>4. D[k] = Min(W[k], a)
      BY <3>1, <3>2, <3>3
    <3> QED  BY <3>1, <3>4 DEF S
  <2>5. \A k \in 0 .. N : k \in S
    BY <1>1, <2>3, <2>4, Upwards
  <2>6. N \in 0 .. N
    BY <1>1
  <2>7. D[N] = Min(W[N], a) /\ W[N] \in Nat
    BY <1>8, <2>5, <2>6
  <2> QED  BY <1>2, <2>1, <2>7 DEF Min
<1>15. ASSUME NEW j \in Q, NEW k \in Q, j < k, r[j] < s[j].left PROVE r[k] = 0
  <2>1. j \in 1 .. N /\ k \in 1 .. N /\ l[j] = s[j].left
    BY <1>3, <1>6
  <2>2. a < W[j]
    BY <1>11, <1>15, <2>1
  <2>3. j \in 0 .. N /\ k - 1 \in 0 .. N /\ j <= k - 1
    BY <1>1, <1>15, <2>1
  <2>4. W[j] <= W[k - 1] /\ W[j] \in Nat /\ W[k - 1] \in Nat
    BY <1>1, <1>6, <1>7, <1>8, <2>3, TotalsGrow
  <2>5. a <= W[k - 1]
    BY <1>2, <2>2, <2>4
  <2> QED  BY <1>11, <2>1, <2>5
<1> QED  BY <1>12, <1>13, <1>14, <1>15 DEF N, a, Q, r

LEMMA PayIs ==
    ASSUME NEW s \in Seq(Shares), NEW i \in 1 .. Len(s)
    PROVE  /\ Pay(s, i) \in Seq(Shares) /\ Len(Pay(s, i)) = Len(s)
           /\ \A j \in 1 .. Len(s) :
                 /\ Pay(s, i)[j].dir = s[j].dir /\ Pay(s, i)[j].amount = s[j].amount
                 /\ Pay(s, i)[j].addr = s[j].addr /\ Pay(s, i)[j].asset = s[j].asset
                 /\ j # i => /\ Pay(s, i)[j].left = s[j].left - Drawn(s, i)[j]
                             /\ Explained(Pay(s, i)[j]) = Explained(s[j]) + Drawn(s, i)[j]
           /\ Explained(Pay(s, i)[i]) = Sum(Drawn(s, i))
<1> DEFINE N == Len(s)
           r == Drawn(s, i)
           t == Pay(s, i)
           left(j) == IF j = i THEN s[j].amount - Sum(r) ELSE s[j].left - r[j]
<1>1. N \in Nat /\ DOMAIN s = 1 .. N /\ \A j \in 1 .. N : s[j] \in Shares
  OBVIOUS
<1>2. \A j \in 1 .. N : s[j].amount \in Nat /\ s[j].left \in Nat /\ s[j].left <= s[j].amount
  BY <1>1, ShareIs
<1>3. t = [j \in 1 .. N |-> [s[j] EXCEPT !.left = left(j)]]
  BY <1>1 DEF Pay
<1>4. (\A j \in 1 .. N : r[j] \in Nat /\ r[j] <= s[j].left) /\ Sum(r) \in Nat /\ Sum(r) <= s[i].amount
  <2>1. r \in Seq(Nat) /\ Len(r) = N
    BY DrawnIs
  <2>2. \A j \in 1 .. N : r[j] \in Nat
    BY <2>1
  <2> QED  BY <2>2, DrawnIs
<1> HIDE DEF r, t, N
<1>5. ASSUME NEW j \in 1 .. N PROVE left(j) \in Nat /\ left(j) <= s[j].amount
  <2>1. s[j].amount \in Nat /\ s[j].left \in Nat /\ s[j].left <= s[j].amount /\ r[j] \in Nat /\ r[j] <= s[j].left
    BY <1>2, <1>4
  <2>2. CASE j = i
    BY <1>4, <2>1, <2>2
  <2>3. CASE j # i
    BY <2>1, <2>3
  <2> QED  BY <2>2, <2>3
<1> HIDE DEF left
<1>6. ASSUME NEW j \in 1 .. N
      PROVE  /\ t[j] \in Shares /\ t[j].left = left(j) /\ t[j].amount = s[j].amount /\ t[j].dir = s[j].dir
             /\ t[j].addr = s[j].addr /\ t[j].asset = s[j].asset
  <2>1. t[j] = [s[j] EXCEPT !.left = left(j)]
    BY <1>3
  <2>2. s[j] \in Shares /\ left(j) \in Nat /\ left(j) <= s[j].amount
    BY <1>1, <1>5
  <2> DEFINE e == s[j]
             x == left(j)
  <2>3. e \in Shares /\ x \in Nat /\ x <= e.amount
    BY <2>2
  <2> HIDE DEF e, x
  <2>4. LET f == [e EXCEPT !.left = x] IN
        f \in Shares /\ f.left = x /\ f.amount = e.amount /\ f.dir = e.dir /\ f.addr = e.addr /\ f.asset = e.asset
    BY <2>3, ShareWithLeft
  <2> QED  BY <2>1, <2>4 DEF e, x
<1>7. t \in Seq(Shares) /\ Len(t) = N
  <2>1. t = [j \in 1 .. N |-> t[j]]
    BY <1>3
  <2>2. \A j \in 1 .. N : t[j] \in Shares
    BY <1>6
  <2> QED  BY <1>1, <2>1, <2>2
<1>8. ASSUME NEW j \in 1 .. N, j # i
      PROVE  t[j].left = s[j].left - r[j] /\ Explained(t[j]) = Explained(s[j]) + r[j]
  <2>1. t[j].left = s[j].left - r[j] /\ t[j].amount = s[j].amount
    BY <1>6, <1>8 DEF left
  <2>2. s[j].amount \in Nat /\ s[j].left \in Nat /\ r[j] \in Nat
    BY <1>2, <1>4
  <2> QED  BY <2>1, <2>2 DEF Explained
<1>9. Explained(t[i]) = Sum(r)
  <2>1. i \in 1 .. N
    BY DEF N
  <2>2. t[i].left = s[i].amount - Sum(r) /\ t[i].amount = s[i].amount /\ s[i].amount \in Nat
    BY <1>2, <1>6, <2>1 DEF left
  <2> QED  BY <1>4, <2>2 DEF Explained
<1> QED  BY <1>6, <1>7, <1>8, <1>9 DEF N, r, t

\* What a payment adds to both sides of the account.
LEMMA PayUses ==
    ASSUME NEW s \in Seq(Shares), NEW i \in 1 .. Len(s), s[i].dir = "out", NEW g
    PROVE  LET x == IF SameAccount(s[i], g) THEN Sum(Drawn(s, i)) ELSE 0 IN
           /\ x \in Nat
           /\ Sum(Uses(Pay(s, i), "in", g)) = Sum(Uses(s, "in", g)) + x
           /\ Sum(Uses(Pay(s, i), "out", g)) + Use(s[i], "out", g) = Sum(Uses(s, "out", g)) + x
<1> DEFINE N == Len(s)
           r == Drawn(s, i)
           t == Pay(s, i)
           same == SameAccount(s[i], g)
           x == IF same THEN Sum(r) ELSE 0
           a == Uses(s, "in", g)
           b == Uses(s, "out", g)
           c == Uses(t, "in", g)
           d == Uses(t, "out", g)
<1>1. N \in Nat /\ i \in 1 .. N /\ \A j \in 1 .. N : s[j] \in Shares
  OBVIOUS
<1>2. r \in Seq(Nat) /\ Len(r) = N /\ Sum(r) \in Nat
  BY DrawnIs
<1>3. ASSUME NEW j \in 1 .. N
      PROVE  /\ r[j] \in Nat /\ Explained(s[j]) \in Nat
             /\ (r[j] # 0 => s[j].dir = "in" /\ (SameAccount(s[j], g) <=> same))
  <2>1. r[j] \in Nat
    BY <1>2
  <2>2. Explained(s[j]) \in Nat
    BY <1>1, ShareIs
  <2>3. r[j] # 0 => j \in Queue(s, i)
    BY DrawnIs
  <2>4. j \in Queue(s, i) => s[j].dir = "in" /\ s[j].addr = s[i].addr /\ s[j].asset = s[i].asset
    BY DEF Queue, Incoming, SameAccount
  <2> QED  BY <2>1, <2>2, <2>3, <2>4 DEF SameAccount
<1>4. t \in Seq(Shares) /\ Len(t) = N /\ Explained(t[i]) = Sum(r)
  BY PayIs
<1>5. ASSUME NEW j \in 1 .. N
      PROVE  /\ t[j].dir = s[j].dir /\ (SameAccount(t[j], g) <=> SameAccount(s[j], g))
             /\ (j # i => Explained(t[j]) = Explained(s[j]) + r[j])
  <2>1. t[j].dir = s[j].dir /\ t[j].addr = s[j].addr /\ t[j].asset = s[j].asset
    BY PayIs
  <2>2. j # i => Explained(t[j]) = Explained(s[j]) + r[j]
    BY PayIs
  <2> QED  BY <2>1, <2>2 DEF SameAccount
<1>6. a \in Seq(Nat) /\ Len(a) = N /\ (\A j \in 1 .. N : a[j] = Use(s[j], "in", g)) /\ Sum(a) \in Nat
  BY UsesAre
<1>7. b \in Seq(Nat) /\ Len(b) = N /\ (\A j \in 1 .. N : b[j] = Use(s[j], "out", g)) /\ Sum(b) \in Nat
  BY UsesAre
<1>8. c \in Seq(Nat) /\ Len(c) = N /\ (\A j \in 1 .. N : c[j] = Use(t[j], "in", g)) /\ Sum(c) \in Nat
  BY <1>4, UsesAre
<1>9. d \in Seq(Nat) /\ Len(d) = N /\ (\A j \in 1 .. N : d[j] = Use(t[j], "out", g)) /\ Sum(d) \in Nat
  BY <1>4, UsesAre
<1>10. s[i].dir = "out" /\ (SameAccount(s[i], g) <=> same)
  OBVIOUS
<1> HIDE DEF N, r, t, same, a, b, c, d
<1>11. x \in Nat
  BY <1>2
<1>12. r[i] = 0
  BY <1>1, <1>3, <1>10
<1>13. Sum(c) = Sum(a) + x
  <2>1. CASE same
    <3>1. ASSUME NEW j \in 1 .. N PROVE c[j] = a[j] + r[j]
      <4>1. c[j] = Use(t[j], "in", g) /\ a[j] = Use(s[j], "in", g)
        BY <1>6, <1>8
      <4>2. CASE j = i
        BY <1>5, <1>10, <1>12, <4>1, <4>2 DEF Use
      <4>3. CASE j # i
        <5>1. /\ t[j].dir = s[j].dir /\ (SameAccount(t[j], g) <=> SameAccount(s[j], g))
              /\ Explained(t[j]) = Explained(s[j]) + r[j] /\ r[j] \in Nat
              /\ (r[j] # 0 => s[j].dir = "in" /\ SameAccount(s[j], g))
          BY <1>3, <1>5, <2>1, <4>3
        <5>2. CASE s[j].dir = "in" /\ SameAccount(s[j], g)
          BY <4>1, <5>1, <5>2 DEF Use
        <5>3. CASE ~(s[j].dir = "in" /\ SameAccount(s[j], g))
          BY <4>1, <5>1, <5>3 DEF Use
        <5> QED  BY <5>2, <5>3
      <4> QED  BY <4>2, <4>3
    <3>2. Len(r) = Len(a) /\ Len(c) = Len(a) /\ \A j \in 1 .. Len(a) : c[j] = a[j] + r[j]
      BY <1>2, <1>6, <1>8, <3>1
    <3>3. Sum(c) = Sum(a) + Sum(r)
      BY <1>2, <1>6, <1>8, <3>2, SumPlus
    <3> QED  BY <2>1, <3>3
  <2>2. CASE ~same
    <3>1. ASSUME NEW j \in 1 .. N PROVE c[j] = a[j]
      <4>1. c[j] = Use(t[j], "in", g) /\ a[j] = Use(s[j], "in", g)
        BY <1>6, <1>8
      <4>2. CASE j = i
        BY <1>5, <1>10, <1>12, <4>1, <4>2 DEF Use
      <4>3. CASE j # i
        BY <1>3, <1>5, <2>2, <4>1, <4>3 DEF Use
      <4> QED  BY <4>2, <4>3
    <3>2. Len(c) = Len(a) /\ \A j \in 1 .. Len(a) : c[j] = a[j]
      BY <1>6, <1>8, <3>1
    <3>3. Sum(c) = Sum(a)
      BY <1>6, <1>8, <3>2, SumSame
    <3> QED  BY <1>6, <2>2, <3>3
  <2> QED  BY <2>1, <2>2
<1>14. Sum(d) + b[i] = Sum(b) + d[i]
  <2>1. ASSUME NEW j \in 1 .. N, j # i PROVE d[j] = b[j]
    <3>1. d[j] = Use(t[j], "out", g) /\ b[j] = Use(s[j], "out", g)
      BY <1>7, <1>9
    <3> QED  BY <1>3, <1>5, <2>1, <3>1 DEF Use
  <2>2. Len(d) = Len(b) /\ i \in 1 .. Len(b) /\ \A j \in 1 .. Len(b) : j # i => d[j] = b[j]
    BY <1>1, <1>7, <1>9, <2>1
  <2> QED  BY <1>7, <1>9, <2>2, SumReplaced
<1>15. d[i] = x /\ b[i] = Use(s[i], "out", g)
  <2>1. d[i] = Use(t[i], "out", g) /\ b[i] = Use(s[i], "out", g)
    BY <1>1, <1>7, <1>9
  <2> QED  BY <1>1, <1>4, <1>5, <1>10, <2>1 DEF Use
<1>16. Sum(d) + Use(s[i], "out", g) = Sum(b) + x
  BY <1>14, <1>15
<1> QED  BY <1>11, <1>13, <1>16 DEF r, t, same, a, b, c, d

-----------------------------------------------------------------------------
(* consumeMoneyStates: every outgoing state pays itself, in turn.           *)

LEMMA ConsumeRuns ==
    ASSUME NEW s \in Seq(Shares), NEW N \in Nat, N = Len(InBlockOrder(s))
    PROVE  \E c : /\ c[0] = InBlockOrder(s) /\ Consume(s) = c[N]
                  /\ \A k \in 0 .. N : c[k] \in Seq(Shares) /\ Len(c[k]) = N
                  /\ \A k \in 1 .. N : c[k] = IF c[k - 1][k].dir = "in" THEN c[k - 1] ELSE Pay(c[k - 1], k)
<1> DEFINE A == InBlockOrder(s)
           Step(q, k) == IF q[k].dir = "in" THEN q ELSE Pay(q, k)
           Fix(t) == t = [k \in 0 .. N |-> IF k = 0 THEN A ELSE Step(t[k - 1], k)]
           S == {q \in Seq(Shares) : Len(q) = N}
           G == [p \in S \X (1 .. N) |-> Step(p[1], p[2])]
           c == CHOOSE t : Fix(t)
<1>1. A \in S
  BY SortIs
<1>2. \A q \in S : \A k \in 1 .. N : Step(q, k) \in S
  BY PayIs
<1>3. Consume(s) = c[N]
  BY DEF Consume
<1> HIDE DEF A, Step, S
<1>4. G \in [S \X (1 .. N) -> S] /\ \A q \in S : \A k \in 1 .. N : G[<<q, k>>] = Step(q, k)
  BY <1>2
<1> HIDE DEF G
<1>5. PICK f : IsRun(f, N, S, A, G)
  BY <1>1, <1>4, Runs
<1>6. f \in [0 .. N -> S] /\ f[0] = A /\ \A k \in 1 .. N : f[k] = G[<<f[k - 1], k>>]
  BY <1>5 DEF IsRun
<1>7. Fix(f)
  <2>1. ASSUME NEW k \in 0 .. N PROVE f[k] = IF k = 0 THEN A ELSE Step(f[k - 1], k)
    <3>1. CASE k = 0
      BY <1>6, <3>1
    <3>2. CASE k # 0
      <4>1. k \in 1 .. N /\ f[k - 1] \in S
        BY <1>6, <3>2
      <4> QED  BY <1>4, <1>6, <3>2, <4>1
    <3> QED  BY <3>1, <3>2
  <2> QED  BY <1>6, <2>1
<1>8. Fix(c)
  BY <1>7
<1> HIDE DEF c
<1>9. c[0] = A /\ \A k \in 1 .. N : c[k] = Step(c[k - 1], k)
  <2>1. \A k \in 0 .. N : c[k] = IF k = 0 THEN A ELSE Step(c[k - 1], k)
    BY <1>8
  <2> QED  BY <2>1
<1> DEFINE T == {k \in 0 .. N : c[k] \in S}
<1>10. 0 \in T
  BY <1>1, <1>9
<1>11. ASSUME NEW k \in 1 .. N, k - 1 \in T PROVE k \in T
  <2>1. c[k - 1] \in S /\ c[k] = Step(c[k - 1], k) /\ k \in 0 .. N
    BY <1>9, <1>11
  <2>2. Step(c[k - 1], k) \in S
    BY <1>2, <2>1
  <2> QED  BY <2>1, <2>2
<1>12. \A k \in 0 .. N : k \in T
  BY <1>10, <1>11, Upwards
<1>13. \A k \in 0 .. N : c[k] \in Seq(Shares) /\ Len(c[k]) = N
  BY <1>12 DEF S
<1> QED  BY <1>3, <1>9, <1>13 DEF A, Step

\* No account explains more than it has used up, whatever it starts from.
LEMMA ConsumeKeeps ==
    ASSUME NEW s \in Seq(Shares), \A g : Sum(Uses(s, "out", g)) <= Sum(Uses(s, "in", g))
    PROVE  /\ Consume(s) \in Seq(Shares)
           /\ \A g : Sum(Uses(Consume(s), "out", g)) <= Sum(Uses(Consume(s), "in", g))
<1> DEFINE N == Len(InBlockOrder(s))
           Sound(q) == \A g : Sum(Uses(q, "out", g)) <= Sum(Uses(q, "in", g))
<1>1. N \in Nat /\ Sound(InBlockOrder(s))
  BY SortIs
<1>2. PICK c : /\ c[0] = InBlockOrder(s) /\ Consume(s) = c[N]
               /\ \A k \in 0 .. N : c[k] \in Seq(Shares) /\ Len(c[k]) = N
               /\ \A k \in 1 .. N : c[k] = IF c[k - 1][k].dir = "in" THEN c[k - 1] ELSE Pay(c[k - 1], k)
  BY <1>1, ConsumeRuns
<1> HIDE DEF N
<1> DEFINE S == {k \in 0 .. N : Sound(c[k])}
<1>3. 0 \in S
  BY <1>1, <1>2
<1>4. ASSUME NEW k \in 1 .. N, k - 1 \in S PROVE k \in S
  <2> DEFINE q == c[k - 1]
  <2>1. q \in Seq(Shares) /\ Len(q) = N /\ k \in 1 .. Len(q) /\ k \in 0 .. N
    BY <1>1, <1>2
  <2>2. c[k] = (IF q[k].dir = "in" THEN q ELSE Pay(q, k)) /\ Sound(q)
    BY <1>2, <1>4
  <2> HIDE DEF q, S
  <2>3. q[k] \in Shares
    BY <2>1
  <2>4. CASE q[k].dir = "in"
    BY <2>1, <2>2, <2>4 DEF S
  <2>5. CASE q[k].dir = "out"
    <3> DEFINE t == Pay(q, k)
    <3>1. ASSUME NEW g PROVE Sum(Uses(t, "out", g)) <= Sum(Uses(t, "in", g))
      <4> DEFINE x == IF SameAccount(q[k], g) THEN Sum(Drawn(q, k)) ELSE 0
      <4>1. /\ x \in Nat /\ Sum(Uses(t, "in", g)) = Sum(Uses(q, "in", g)) + x
            /\ Sum(Uses(t, "out", g)) + Use(q[k], "out", g) = Sum(Uses(q, "out", g)) + x
        BY <2>1, <2>5, PayUses
      <4> HIDE DEF x
      <4>2. t \in Seq(Shares)
        BY <2>1, PayIs
      <4> HIDE DEF t
      <4>3. /\ Sum(Uses(t, "out", g)) \in Nat /\ Sum(Uses(t, "in", g)) \in Nat
            /\ Sum(Uses(q, "out", g)) \in Nat /\ Sum(Uses(q, "in", g)) \in Nat
        BY <2>1, <4>2, UsesAre
      <4>4. Use(q[k], "out", g) \in Nat
        BY <2>3, ShareIs DEF Use
      <4>5. Sum(Uses(q, "out", g)) <= Sum(Uses(q, "in", g))
        BY <2>2
      <4> QED  BY <4>1, <4>3, <4>4, <4>5
    <3>2. c[k] = t
      BY <2>2, <2>5
    <3> QED  BY <2>1, <3>1, <3>2 DEF S
  <2> QED  BY <2>3, <2>4, <2>5, ShareIs
<1>5. \A k \in 0 .. N : k \in S
  BY <1>1, <1>3, <1>4, Upwards
<1>6. N \in 0 .. N /\ N \in S
  BY <1>1, <1>5
<1>7. c[N] \in Seq(Shares)
  BY <1>2, <1>6
<1>8. Sound(c[N])
  BY <1>6
<1> QED  BY <1>2, <1>7, <1>8

-----------------------------------------------------------------------------
(* From whole states on: both sides of an account agree, no state draws on *)
(* money that came later, and queues are emptied from the front.           *)

\* What the outgoing states up to k have used is covered by what had come in before k.
Backed(s, g, k) ==
    TotalUsed(s, {j \in Outgoing(s, g) : j <= k}) <= TotalAmount(s, {j \in Incoming(s, g) : j < k})
Agreed(s) == \A g : Sum(Uses(s, "out", g)) = Sum(Uses(s, "in", g))
InTurn(s) == \A g : \A j, k \in Incoming(s, g) : j < k /\ s[j].left > 0 => Explained(s[k]) = 0
\* The first i states have been served.
Served(s, i) ==
    /\ Agreed(s) /\ InTurn(s) /\ \A j \in 1 .. Len(s) : j > i => Explained(s[j]) = 0
    /\ \A g : \A k \in Outgoing(s, g) : k <= i => Backed(s, g, k)

\* What one payment changes.
Pays(s, i, t, r) ==
    /\ t \in Seq(Shares) /\ Len(t) = Len(s) /\ i \in 1 .. Len(s)
    /\ r \in Seq(Nat) /\ Len(r) = Len(s)
    /\ s[i].dir = "out"
    /\ \A j \in 1 .. Len(s) :
          /\ t[j].dir = s[j].dir /\ t[j].amount = s[j].amount /\ \A g : SameAccount(t[j], g) <=> SameAccount(s[j], g)
          /\ r[j] \in Nat /\ r[j] <= s[j].left /\ (r[j] # 0 => j < i /\ s[j].dir = "in" /\ SameAccount(s[j], s[i]))
          /\ j # i => t[j].left = s[j].left - r[j] /\ Explained(t[j]) = Explained(s[j]) + r[j]

LEMMA PaysIs ==
    ASSUME NEW s \in Seq(Shares), NEW i \in 1 .. Len(s), s[i].dir = "out"
    PROVE  Pays(s, i, Pay(s, i), Drawn(s, i))
<1> DEFINE t == Pay(s, i)
           r == Drawn(s, i)
<1>1. t \in Seq(Shares) /\ Len(t) = Len(s)
  BY PayIs
<1>2. r \in Seq(Nat) /\ Len(r) = Len(s)
  BY DrawnIs
<1>3. ASSUME NEW j \in 1 .. Len(s)
      PROVE  /\ t[j].dir = s[j].dir /\ t[j].amount = s[j].amount
             /\ (j # i => t[j].left = s[j].left - r[j] /\ Explained(t[j]) = Explained(s[j]) + r[j])
             /\ \A g : SameAccount(t[j], g) <=> SameAccount(s[j], g)
  <2>1. t[j].addr = s[j].addr /\ t[j].asset = s[j].asset
    BY PayIs
  <2>2. \A g : SameAccount(t[j], g) <=> SameAccount(s[j], g)
    BY <2>1 DEF SameAccount
  <2> QED  BY <2>2, PayIs
<1>4. ASSUME NEW j \in 1 .. Len(s)
      PROVE  /\ r[j] \in Nat /\ r[j] <= s[j].left
             /\ (r[j] # 0 => j < i /\ s[j].dir = "in" /\ SameAccount(s[j], s[i]))
  <2>1. r[j] \in Nat
    BY <1>2
  <2>2. r[j] <= s[j].left /\ (r[j] # 0 => j \in Queue(s, i))
    BY DrawnIs
  <2>3. j \in Queue(s, i) => j < i /\ s[j].dir = "in" /\ SameAccount(s[j], s[i])
    BY DEF Queue, Incoming
  <2> QED  BY <2>1, <2>2, <2>3
<1> HIDE DEF t, r
<1>5. Pays(s, i, t, r)
  BY <1>1, <1>2, <1>3, <1>4 DEF Pays
<1> QED  BY <1>5 DEF t, r

LEMMA AgreedAfter ==
    ASSUME NEW s \in Seq(Shares), NEW i \in 1 .. Len(s), s[i].dir = "out", Agreed(s), Explained(s[i]) = 0
    PROVE  Agreed(Pay(s, i))
<1> DEFINE t == Pay(s, i)
<1> SUFFICES ASSUME NEW g PROVE Sum(Uses(t, "out", g)) = Sum(Uses(t, "in", g))
  BY DEF Agreed
<1> DEFINE x == IF SameAccount(s[i], g) THEN Sum(Drawn(s, i)) ELSE 0
<1>1. /\ x \in Nat /\ Sum(Uses(t, "in", g)) = Sum(Uses(s, "in", g)) + x
      /\ Sum(Uses(t, "out", g)) + Use(s[i], "out", g) = Sum(Uses(s, "out", g)) + x
  BY PayUses
<1>2. t \in Seq(Shares)
  BY PayIs
<1> HIDE DEF x, t
<1>3. Sum(Uses(t, "out", g)) \in Nat /\ Sum(Uses(s, "out", g)) \in Nat
  BY <1>2, UsesAre
<1>4. Use(s[i], "out", g) = 0
  BY DEF Use
<1>5. Sum(Uses(s, "out", g)) = Sum(Uses(s, "in", g))
  BY DEF Agreed
<1> QED  BY <1>1, <1>3, <1>4, <1>5

LEMMA InTurnAfter ==
    ASSUME NEW s \in Seq(Shares), NEW i \in 1 .. Len(s), s[i].dir = "out", InTurn(s),
           \A j \in 1 .. Len(s) : j >= i => Explained(s[j]) = 0
    PROVE  InTurn(Pay(s, i))
<1> DEFINE t == Pay(s, i)
           r == Drawn(s, i)
<1>1. Pays(s, i, t, r)
  BY PaysIs
<1>2. \A j, k \in Queue(s, i) : j < k /\ r[j] < s[j].left => r[k] = 0
  BY DrawnIs
<1> HIDE DEF t, r
<1> SUFFICES ASSUME NEW g, NEW j \in Incoming(t, g), NEW k \in Incoming(t, g), j < k, t[j].left > 0
             PROVE  Explained(t[k]) = 0
  BY DEF InTurn, t
<1>3. j \in 1 .. Len(s) /\ k \in 1 .. Len(s) /\ t[j].dir = "in" /\ t[k].dir = "in"
      /\ SameAccount(t[j], g) /\ SameAccount(t[k], g)
  BY <1>1 DEF Pays, Incoming
<1>4. /\ s[j].dir = "in" /\ s[k].dir = "in" /\ SameAccount(s[j], g) /\ SameAccount(s[k], g) /\ j # i /\ k # i
      /\ t[j].left = s[j].left - r[j] /\ Explained(t[k]) = Explained(s[k]) + r[k] /\ r[j] \in Nat /\ r[k] \in Nat
      /\ (r[k] # 0 => k < i /\ SameAccount(s[k], s[i]))
  BY <1>1, <1>3 DEF Pays
<1>5. s[j].left \in Nat
  <2>1. s[j] \in Shares
    BY <1>3
  <2> QED  BY <2>1, ShareIs
<1>6. s[j].left > 0
  BY <1>4, <1>5
<1>7. Explained(s[k]) = 0
  <2>1. j \in Incoming(s, g) /\ k \in Incoming(s, g)
    BY <1>3, <1>4 DEF Incoming
  <2> QED  BY <1>6, <2>1 DEF InTurn
<1>8. r[k] = 0
  <2> SUFFICES ASSUME r[k] # 0 PROVE FALSE
    OBVIOUS
  <2>1. k \in Incoming(s, s[i]) /\ j \in Incoming(s, s[i]) /\ j < i /\ k < i
    BY <1>3, <1>4 DEF Incoming, SameAccount
  <2>2. j \in Queue(s, i) /\ k \in Queue(s, i)
    BY <2>1 DEF Queue
  <2>3. r[j] < s[j].left
    BY <1>4, <1>5
  <2> QED  BY <1>2, <2>2, <2>3
<1> QED  BY <1>4, <1>7, <1>8

LEMMA BackedAfter ==
    ASSUME NEW s \in Seq(Shares), NEW i \in 1 .. Len(s), s[i].dir = "out", Agreed(Pay(s, i)),
           \A j \in 1 .. Len(s) : j >= i => Explained(s[j]) = 0,
           NEW g, NEW k \in Outgoing(Pay(s, i), g), k <= i,
           k \in Outgoing(s, g) /\ k < i => Backed(s, g, k)
    PROVE  Backed(Pay(s, i), g, k)
<1> DEFINE N == Len(s)
           t == Pay(s, i)
           r == Drawn(s, i)
<1>1. Pays(s, i, t, r)
  BY PaysIs
<1>2. Sum(Uses(t, "out", g)) = Sum(Uses(t, "in", g))
  BY DEF Agreed
<1>3. k \in Outgoing(t, g)
  OBVIOUS
<1> HIDE DEF t, r
<1>4. N \in Nat /\ DOMAIN s = 1 .. N /\ DOMAIN t = 1 .. N /\ Len(t) = N /\ t \in Seq(Shares) /\ k \in 1 .. N
  BY <1>1, <1>3 DEF Pays, Outgoing
<1>5. ASSUME NEW j \in 1 .. N
      PROVE  /\ s[j].dir \in {"in", "out"} /\ Explained(s[j]) \in Nat /\ Explained(t[j]) \in Nat
             /\ Explained(t[j]) <= t[j].amount /\ t[j].amount \in Nat
  <2>1. s[j] \in Shares /\ t[j] \in Shares
    BY <1>4
  <2> QED  BY <2>1, ShareIs
<1>6. ASSUME NEW j \in 1 .. N
      PROVE  /\ t[j].dir = s[j].dir /\ t[j].amount = s[j].amount /\ (SameAccount(t[j], g) <=> SameAccount(s[j], g))
             /\ (j # i /\ s[j].dir = "out" => Explained(t[j]) = Explained(s[j]))
             /\ (j > i => Explained(t[j]) = 0)
  <2>1. /\ t[j].dir = s[j].dir /\ t[j].amount = s[j].amount /\ (SameAccount(t[j], g) <=> SameAccount(s[j], g))
        /\ (j # i => Explained(t[j]) = Explained(s[j]) + r[j])
        /\ r[j] \in Nat /\ (r[j] # 0 => j < i /\ s[j].dir = "in")
    BY <1>1 DEF Pays
  <2>2. Explained(s[j]) \in Nat /\ (j > i => Explained(s[j]) = 0)
    BY <1>5
  <2>3. s[j].dir = "out" => r[j] = 0
    BY <2>1
  <2>4. j # i /\ s[j].dir = "out" => Explained(t[j]) = Explained(s[j])
    BY <2>1, <2>2, <2>3
  <2>5. j > i => Explained(t[j]) = 0
    BY <2>1, <2>2
  <2> QED  BY <2>1, <2>4, <2>5
<1> DEFINE paid(q) == [j \in DOMAIN q |-> IF j \in {h \in Outgoing(q, g) : h <= k} THEN Explained(q[j]) ELSE 0]
           come(q) == [j \in DOMAIN q |-> IF j \in {h \in Incoming(q, g) : h < k} THEN q[j].amount ELSE 0]
<1>7. \A q : Backed(q, g, k) <=> Sum(paid(q)) <= Sum(come(q))
  BY DEF Backed, TotalUsed, TotalAmount
<1>8. ASSUME NEW j \in 1 .. N
      PROVE  /\ j \in Outgoing(t, g) <=> j \in Outgoing(s, g)
             /\ j \in Incoming(t, g) <=> j \in Incoming(s, g)
  BY <1>4, <1>6 DEF Outgoing, Incoming
<1>9. CASE k < i
  <2>1. k \in Outgoing(s, g)
    BY <1>3, <1>4, <1>8
  <2>2. Backed(s, g, k)
    BY <1>9, <2>1
  <2>3. paid(t) = paid(s)
    <3>1. ASSUME NEW j \in 1 .. N, j \in Outgoing(s, g), j <= k PROVE Explained(t[j]) = Explained(s[j])
      <4>1. j # i /\ s[j].dir = "out"
        BY <1>4, <1>9, <3>1 DEF Outgoing
      <4> QED  BY <1>6, <4>1
    <3> QED  BY <1>4, <1>8, <3>1
  <2>4. come(t) = come(s)
    BY <1>4, <1>6, <1>8
  <2> QED  BY <1>7, <2>2, <2>3, <2>4 DEF t
<1>10. CASE k = i
  <2> DEFINE a == Uses(t, "in", g)
             c == come(t)
  <2>1. a \in Seq(Nat) /\ Len(a) = N /\ \A j \in 1 .. N : a[j] = Use(t[j], "in", g)
    BY <1>4, UsesAre
  <2>2. \A j \in 1 .. N : (IF j \in {h \in Incoming(t, g) : h < k} THEN t[j].amount ELSE 0) \in Nat
    BY <1>5
  <2>3. c = [j \in 1 .. N |-> IF j \in {h \in Incoming(t, g) : h < k} THEN t[j].amount ELSE 0]
    BY <1>4
  <2>4. c \in Seq(Nat) /\ Len(c) = N
        /\ \A j \in 1 .. N : c[j] = IF j \in {h \in Incoming(t, g) : h < k} THEN t[j].amount ELSE 0
    BY <1>4, <2>2, <2>3
  <2>5. ASSUME NEW j \in 1 .. N PROVE Use(t[j], "in", g) <= IF j \in {h \in Incoming(t, g) : h < k} THEN t[j].amount ELSE 0
    <3>1. CASE j \in Incoming(t, g) /\ j < k
      <4>1. Use(t[j], "in", g) = Explained(t[j])
        BY <3>1 DEF Use, Incoming
      <4> QED  BY <1>5, <3>1, <4>1
    <3>2. CASE j \notin Incoming(t, g)
      <4>1. Use(t[j], "in", g) = 0
        BY <1>4, <3>2 DEF Use, Incoming
      <4> QED  BY <3>2, <4>1
    <3>3. CASE j \in Incoming(t, g) /\ ~(j < k)
      <4>1. j > i
        <5>1. j # i
          BY <1>6, <3>3 DEF Incoming
        <5> QED  BY <1>4, <1>10, <3>3, <5>1
      <4>2. Use(t[j], "in", g) = 0
        BY <1>6, <4>1 DEF Use
      <4> QED  BY <3>3, <4>2
    <3> QED  BY <3>1, <3>2, <3>3
  <2> HIDE DEF a, c
  <2>6. \A j \in 1 .. Len(a) : a[j] <= c[j]
    BY <2>1, <2>4, <2>5
  <2>7. Sum(a) <= Sum(c)
    BY <2>1, <2>4, <2>6, SumLess
  <2>8. paid(t) = Uses(t, "out", g)
    <3>1. ASSUME NEW j \in 1 .. N
          PROVE  Use(t[j], "out", g) = IF j \in {h \in Outgoing(t, g) : h <= k} THEN Explained(t[j]) ELSE 0
      <4>1. j \in Outgoing(t, g) <=> t[j].dir = "out" /\ SameAccount(t[j], g)
        BY <1>4 DEF Outgoing
      <4>2. ~(j <= k) => Explained(t[j]) = 0
        BY <1>4, <1>6, <1>10
      <4> QED  BY <4>1, <4>2 DEF Use
    <3> QED  BY <1>4, <3>1 DEF Uses
  <2>9. Sum(paid(t)) <= Sum(come(t))
    BY <1>2, <2>7, <2>8 DEF a, c
  <2> QED  BY <1>7, <2>9 DEF t
<1> QED  BY <1>4, <1>9, <1>10

LEMMA ServedStep ==
    ASSUME NEW s \in Seq(Shares), NEW i \in 1 .. Len(s), Served(s, i - 1)
    PROVE  /\ s[i].dir = "in" => Served(s, i)
           /\ s[i].dir = "out" => Served(Pay(s, i), i)
<1>1. Agreed(s) /\ InTurn(s) /\ \A j \in 1 .. Len(s) : j > i - 1 => Explained(s[j]) = 0
  BY DEF Served
<1>2. \A g : \A k \in Outgoing(s, g) : k <= i - 1 => Backed(s, g, k)
  BY DEF Served
<1>3. ASSUME s[i].dir = "in" PROVE Served(s, i)
  <2>1. \A j \in 1 .. Len(s) : j > i => Explained(s[j]) = 0
    BY <1>1
  <2>2. ASSUME NEW g, NEW k \in Outgoing(s, g), k <= i PROVE Backed(s, g, k)
    <3>1. k # i /\ k \in 1 .. Len(s)
      BY <1>3 DEF Outgoing
    <3>2. k <= i - 1
      BY <2>2, <3>1
    <3> QED  BY <1>2, <3>2
  <2> QED  BY <1>1, <2>1, <2>2 DEF Served
<1>4. ASSUME s[i].dir = "out" PROVE Served(Pay(s, i), i)
  <2> DEFINE t == Pay(s, i)
  <2>1. \A j \in 1 .. Len(s) : j >= i => Explained(s[j]) = 0
    BY <1>1
  <2>2. Explained(s[i]) = 0
    BY <2>1
  <2>3. Agreed(t)
    BY <1>1, <1>4, <2>2, AgreedAfter
  <2>4. InTurn(t)
    BY <1>1, <1>4, <2>1, InTurnAfter
  <2>5. ASSUME NEW g, NEW k \in Outgoing(t, g), k <= i PROVE Backed(t, g, k)
    <3>1. k \in Outgoing(s, g) /\ k < i => Backed(s, g, k)
      <4> SUFFICES ASSUME k \in Outgoing(s, g), k < i PROVE Backed(s, g, k)
        OBVIOUS
      <4>1. k \in 1 .. Len(s)
        BY DEF Outgoing
      <4>2. k <= i - 1
        BY <4>1
      <4> QED  BY <1>2, <4>2
    <3> QED  BY <1>4, <2>1, <2>3, <2>5, <3>1, BackedAfter
  <2>6. ASSUME NEW j \in 1 .. Len(t), j > i PROVE Explained(t[j]) = 0
    <3>1. Pays(s, i, t, Drawn(s, i))
      BY <1>4, PaysIs
    <3> DEFINE r == Drawn(s, i)
    <3> HIDE DEF t, r
    <3>2. j \in 1 .. Len(s)
      BY <3>1 DEF Pays
    <3>3. Explained(t[j]) = Explained(s[j]) + r[j] /\ r[j] \in Nat /\ (r[j] # 0 => j < i)
      BY <2>6, <3>1, <3>2 DEF Pays, r
    <3>4. Explained(s[j]) = 0 /\ r[j] = 0
      BY <2>1, <2>6, <3>2, <3>3
    <3> QED  BY <3>3, <3>4
  <2> HIDE DEF t
  <2>7. Served(t, i)
    BY <2>3, <2>4, <2>5, <2>6 DEF Served
  <2> QED  BY <2>7 DEF t
<1> QED  BY <1>3, <1>4

LEMMA ConsumeServes ==
    ASSUME NEW s \in Seq(Shares), \A k \in 1 .. Len(s) : Explained(s[k]) = 0
    PROVE  /\ Consume(s) \in Seq(Shares) /\ Agreed(Consume(s)) /\ InTurn(Consume(s))
           /\ \A g : \A k \in Outgoing(Consume(s), g) : Backed(Consume(s), g, k)
<1> DEFINE A == InBlockOrder(s)
           N == Len(A)
<1>1. N \in Nat /\ N = Len(A) /\ A \in Seq(Shares)
  BY SortIs
<1>2. \A j \in 1 .. N : Explained(A[j]) = 0
  BY SortIs
<1>3. PICK c : /\ c[0] = A /\ Consume(s) = c[N]
               /\ \A k \in 0 .. N : c[k] \in Seq(Shares) /\ Len(c[k]) = N
               /\ \A k \in 1 .. N : c[k] = IF c[k - 1][k].dir = "in" THEN c[k - 1] ELSE Pay(c[k - 1], k)
  BY <1>1, ConsumeRuns
<1> HIDE DEF N, A
<1>4. Served(A, 0)
  <2>1. Agreed(A)
    BY <1>1, <1>2, UsesOfWhole DEF Agreed
  <2>2. InTurn(A)
    <3>1. \A g : \A k \in Incoming(A, g) : k \in 1 .. N
      BY <1>1 DEF Incoming
    <3> QED  BY <1>2, <3>1 DEF InTurn
  <2>3. \A g : \A k \in Outgoing(A, g) : ~(k <= 0)
    BY <1>1 DEF Outgoing
  <2> QED  BY <1>1, <1>2, <2>1, <2>2, <2>3 DEF Served
<1> DEFINE S == {k \in 0 .. N : Served(c[k], k)}
<1>5. 0 \in S
  BY <1>1, <1>3, <1>4
<1>6. ASSUME NEW k \in 1 .. N, k - 1 \in S PROVE k \in S
  <2> DEFINE q == c[k - 1]
  <2>1. q \in Seq(Shares) /\ Len(q) = N /\ k \in 1 .. Len(q) /\ k \in 0 .. N
    BY <1>1, <1>3
  <2>2. c[k] = (IF q[k].dir = "in" THEN q ELSE Pay(q, k)) /\ Served(q, k - 1)
    BY <1>3, <1>6
  <2> HIDE DEF q, S
  <2>3. q[k].dir \in {"in", "out"}
    <3>1. q[k] \in Shares
      BY <2>1
    <3> QED  BY <3>1, ShareIs
  <2>4. /\ q[k].dir = "in" => Served(q, k)
        /\ q[k].dir = "out" => Served(Pay(q, k), k)
    BY <2>1, <2>2, ServedStep
  <2>5. Served(c[k], k)
    BY <2>2, <2>3, <2>4
  <2> QED  BY <2>1, <2>5 DEF S
<1>7. \A k \in 0 .. N : k \in S
  BY <1>1, <1>5, <1>6, Upwards
<1>8. N \in 0 .. N /\ N \in S
  BY <1>1, <1>7
<1> DEFINE t == c[N]
<1>9. t \in Seq(Shares) /\ Len(t) = N /\ Consume(s) = t /\ Served(t, N)
  BY <1>3, <1>8
<1> HIDE DEF t, S
<1>10. ASSUME NEW g, NEW k \in Outgoing(t, g) PROVE Backed(t, g, k)
  <2>1. k <= N
    BY <1>1, <1>9 DEF Outgoing
  <2> QED  BY <1>9, <2>1 DEF Served
<1> QED  BY <1>9, <1>10 DEF Served

-----------------------------------------------------------------------------
(* appendUniqueMoneyStates                                                 *)

Appends(q, e, t) == t = IF \E j \in DOMAIN q : MoneyKey(q[j]) = MoneyKey(e) THEN q ELSE Append(q, e)

\* The states so far, after each of the N that are appended.
AppendRun(s, extra, N, c) ==
    /\ c[0] = s /\ AppendUnique(s, extra) = c[N]
    /\ \A k \in 0 .. N : c[k] \in Seq(Shares)
    /\ \A k \in 1 .. N : Appends(c[k - 1], extra[k], c[k])

LEMMA AppendRuns ==
    ASSUME NEW s \in Seq(Shares), NEW extra \in Seq(Shares), NEW N \in Nat, N = Len(extra)
    PROVE  \E c : AppendRun(s, extra, N, c)
<1> DEFINE Listed(q, k) == \E j \in DOMAIN q : MoneyKey(q[j]) = MoneyKey(extra[k])
           Step(q, k) == IF Listed(q, k) THEN q ELSE Append(q, extra[k])
           Fix(t) == t = [k \in 0 .. N |-> IF k = 0 THEN s ELSE Step(t[k - 1], k)]
           S == Seq(Shares)
           G == [p \in S \X (1 .. N) |-> Step(p[1], p[2])]
           c == CHOOSE t : Fix(t)
<1>1. s \in S
  OBVIOUS
<1>2. ASSUME NEW q \in S, NEW k \in 1 .. N PROVE Step(q, k) \in S /\ Step(q, k) \in {q, Append(q, extra[k])}
  <2> HIDE DEF Listed
  <2>1. extra[k] \in Shares
    OBVIOUS
  <2> QED  BY <2>1
<1>3. AppendUnique(s, extra) = c[N]
  BY DEF AppendUnique
<1> HIDE DEF Step, S
<1>4. G \in [S \X (1 .. N) -> S] /\ \A q \in S : \A k \in 1 .. N : G[<<q, k>>] = Step(q, k)
  BY <1>2
<1> HIDE DEF G
<1>5. PICK f : IsRun(f, N, S, s, G)
  BY <1>1, <1>4, Runs
<1>6. f \in [0 .. N -> S] /\ f[0] = s /\ \A k \in 1 .. N : f[k] = G[<<f[k - 1], k>>]
  BY <1>5 DEF IsRun
<1>7. Fix(f)
  <2>1. ASSUME NEW k \in 0 .. N PROVE f[k] = IF k = 0 THEN s ELSE Step(f[k - 1], k)
    <3>1. CASE k = 0
      BY <1>6, <3>1
    <3>2. CASE k # 0
      <4>1. k \in 1 .. N /\ f[k - 1] \in S
        BY <1>6, <3>2
      <4> QED  BY <1>4, <1>6, <3>2, <4>1
    <3> QED  BY <3>1, <3>2
  <2> QED  BY <1>6, <2>1
<1>8. Fix(c)
  BY <1>7
<1> HIDE DEF c
<1>9. c[0] = s /\ \A k \in 1 .. N : c[k] = Step(c[k - 1], k)
  <2>1. \A k \in 0 .. N : c[k] = IF k = 0 THEN s ELSE Step(c[k - 1], k)
    BY <1>8
  <2> QED  BY <2>1
<1> DEFINE T == {k \in 0 .. N : c[k] \in S}
<1>10. 0 \in T
  BY <1>1, <1>9
<1>11. ASSUME NEW k \in 1 .. N, k - 1 \in T PROVE k \in T
  <2>1. c[k - 1] \in S /\ c[k] = Step(c[k - 1], k) /\ k \in 0 .. N
    BY <1>9, <1>11
  <2>2. Step(c[k - 1], k) \in S
    BY <1>2, <2>1
  <2> QED  BY <2>1, <2>2
<1>12. \A k \in 0 .. N : k \in T
  BY <1>10, <1>11, Upwards
<1>13. \A k \in 0 .. N : c[k] \in Seq(Shares)
  BY <1>12 DEF S
<1>14. \A k \in 1 .. N : Appends(c[k - 1], extra[k], c[k])
  BY <1>9 DEF Step, Appends
<1>15. AppendRun(s, extra, N, c)
  BY <1>3, <1>9, <1>13, <1>14 DEF AppendRun
<1> QED  BY <1>15

\* States that are whole bring nothing that is used.
LEMMA AppendUses ==
    ASSUME NEW s \in Seq(Shares), NEW extra \in Seq(Shares), \A k \in 1 .. Len(extra) : Explained(extra[k]) = 0
    PROVE  /\ AppendUnique(s, extra) \in Seq(Shares)
           /\ \A d, g : Sum(Uses(AppendUnique(s, extra), d, g)) = Sum(Uses(s, d, g))
<1> DEFINE N == Len(extra)
           Sound(q) == \A d, g : Sum(Uses(q, d, g)) = Sum(Uses(s, d, g))
<1>1. N \in Nat /\ N = Len(extra) /\ \A k \in 1 .. N : extra[k] \in Shares /\ Explained(extra[k]) = 0
  OBVIOUS
<1> HIDE DEF N
<1>2. PICK c : AppendRun(s, extra, N, c)
  BY <1>1, AppendRuns
<1>3. /\ c[0] = s /\ AppendUnique(s, extra) = c[N]
      /\ \A k \in 0 .. N : c[k] \in Seq(Shares)
      /\ \A k \in 1 .. N : c[k] \in {c[k - 1], Append(c[k - 1], extra[k])}
  BY <1>2 DEF AppendRun, Appends
<1> DEFINE S == {k \in 0 .. N : Sound(c[k])}
<1>4. 0 \in S
  BY <1>1, <1>3
<1>5. ASSUME NEW k \in 1 .. N, k - 1 \in S PROVE k \in S
  <2> DEFINE q == c[k - 1]
             e == extra[k]
             t == Append(q, e)
  <2>1. q \in Seq(Shares) /\ Sound(q) /\ e \in Shares /\ Explained(e) = 0 /\ k \in 0 .. N /\ c[k] \in {q, t}
    BY <1>1, <1>3, <1>5
  <2> HIDE DEF q, e, S
  <2>2. ASSUME NEW d, NEW g PROVE Sum(Uses(t, d, g)) = Sum(Uses(q, d, g))
    <3> DEFINE u == Uses(q, d, g)
               v == Uses(t, d, g)
    <3>1. t \in Seq(Shares) /\ Len(t) = Len(q) + 1 /\ t[Len(q) + 1] = e /\ \A j \in 1 .. Len(q) : t[j] = q[j]
      BY <2>1
    <3> HIDE DEF t
    <3>2. u \in Seq(Nat) /\ Len(u) = Len(q) /\ (\A j \in 1 .. Len(q) : u[j] = Use(q[j], d, g)) /\ Sum(u) \in Nat
      BY <2>1, UsesAre
    <3>3. v \in Seq(Nat) /\ Len(v) = Len(t) /\ \A j \in 1 .. Len(t) : v[j] = Use(t[j], d, g)
      BY <3>1, UsesAre
    <3> HIDE DEF u, v
    <3>4. Len(v) = Len(u) + 1 /\ Len(u) \in Nat /\ \A j \in 1 .. Len(u) : v[j] = u[j]
      BY <3>1, <3>2, <3>3
    <3>5. Sum(v) = Sum(u) + v[Len(v)]
      BY <3>2, <3>3, <3>4, SumAppend
    <3>6. v[Len(v)] = 0
      <4>1. Len(v) \in 1 .. Len(t) /\ t[Len(v)] = e
        BY <3>1, <3>2, <3>3, <3>4
      <4> QED  BY <2>1, <3>3, <4>1 DEF Use
    <3>7. Sum(v) = Sum(u)
      BY <3>2, <3>5, <3>6
    <3> QED  BY <3>7 DEF u, v
  <2> HIDE DEF t
  <2>3. Sound(c[k])
    BY <2>1, <2>2
  <2> QED  BY <2>1, <2>3 DEF S
<1>6. \A k \in 0 .. N : k \in S
  BY <1>1, <1>4, <1>5, Upwards
<1>7. N \in 0 .. N /\ N \in S
  BY <1>1, <1>6
<1>8. c[N] \in Seq(Shares) /\ Sound(c[N])
  BY <1>3, <1>7
<1> QED  BY <1>3, <1>8

-----------------------------------------------------------------------------
(* The money states of edges are whole.                                    *)

LEMMA MoneyIs ==
    ASSUME NEW es \in Seq(Edges)
    PROVE  MoneyOf(es) \in Seq(Shares) /\ \A k \in 1 .. Len(MoneyOf(es)) : Explained(MoneyOf(es)[k]) = 0
<1> DEFINE N == 2 * Len(es)
           t == MoneyOf(es)
<1>1. N \in Nat /\ Len(es) \in Nat
  OBVIOUS
<1>2. t = [k \in 1 .. N |-> Half(es[(k + 1) \div 2], IF k % 2 = 1 THEN "out" ELSE "in")]
  BY DEF MoneyOf
<1>3. ASSUME NEW e \in Edges, NEW d \in {"in", "out"} PROVE Half(e, d) \in Shares /\ Explained(Half(e, d)) = 0
  <2>1. /\ e.from \in Addresses /\ e.to \in Addresses /\ e.asset \in Assets
        /\ e.amount \in Nat /\ e.block \in Nat /\ e.tx \in Nat /\ e.path \in Paths
    BY ConstantsAssumption DEF Edges
  <2> QED  BY <2>1 DEF Half, Shares, Explained
<1>4. ASSUME NEW k \in 1 .. N PROVE t[k] \in Shares /\ Explained(t[k]) = 0
  <2>1. (k + 1) \div 2 \in 1 .. Len(es)
    BY <1>1
  <2> DEFINE e == es[(k + 1) \div 2]
             d == IF k % 2 = 1 THEN "out" ELSE "in"
  <2>2. e \in Edges /\ d \in {"in", "out"} /\ t[k] = Half(e, d)
    BY <1>2, <2>1
  <2> HIDE DEF e, d
  <2> QED  BY <1>3, <2>2
<1> HIDE DEF t
<1>5. t \in Seq(Shares) /\ Len(t) = N
  <2>1. t = [k \in 1 .. N |-> t[k]]
    BY <1>2
  <2> HIDE DEF N
  <2> QED  BY <1>1, <1>4, <2>1
<1> QED  BY <1>4, <1>5 DEF t

-----------------------------------------------------------------------------
(* The earliest state of a result is a payer's, and nothing can pay for it. *)

\* A state was put first, because no other is of an earlier or the same block, or not.
PutFirst(s, e, t) ==
    \/ t[1] = s[1] /\ \E j \in 1 .. Len(s) : s[j].block <= e.block
    \/ t[1] = e /\ \A j \in 1 .. Len(s) : ~(s[j].block <= e.block)
PutIn(s, e, t) ==
    \A i \in 1 .. Len(s) + 1 : t[i] = e \/ \E h \in 1 .. Len(s) : t[i] = s[h]

LEMMA InsertedBegins ==
    ASSUME NEW s \in Seq(Shares), NEW e \in Shares
    PROVE  /\ Inserted(s, e) \in Seq(Shares) /\ Len(Inserted(s, e)) = Len(s) + 1
           /\ PutIn(s, e, Inserted(s, e)) /\ PutFirst(s, e, Inserted(s, e))
<1> DEFINE t == Inserted(s, e)
<1>1. PICK n \in 0 .. Len(s) :
          /\ t \in Seq(Shares) /\ Len(t) = Len(s) + 1 /\ (\A k \in 1 .. n : t[k] = s[k])
          /\ t[n + 1] = e /\ (\A k \in n + 1 .. Len(s) : t[k + 1] = s[k])
          /\ n = 0 <=> \A j \in 1 .. Len(s) : ~(s[j].block <= e.block)
  BY InsertedIs
<1> HIDE DEF t
<1>2. Len(s) \in Nat
  OBVIOUS
<1>3. ASSUME NEW i \in 1 .. Len(s) + 1 PROVE t[i] = e \/ \E h \in 1 .. Len(s) : t[i] = s[h]
  <2>1. CASE i <= n
    <3>1. i \in 1 .. n /\ i \in 1 .. Len(s)
      BY <1>2, <2>1
    <3> QED  BY <1>1, <3>1
  <2>2. CASE i = n + 1
    BY <1>1, <2>2
  <2>3. CASE i > n + 1
    <3> DEFINE h == i - 1
    <3>1. h \in n + 1 .. Len(s) /\ h \in 1 .. Len(s) /\ h + 1 = i
      BY <1>2, <2>3
    <3> HIDE DEF h
    <3> QED  BY <1>1, <3>1
  <2> QED  BY <1>2, <2>1, <2>2, <2>3
<1>4. CASE n = 0
  <2>1. t[1] = e
    BY <1>1, <1>4
  <2> QED  BY <1>1, <1>3, <1>4, <2>1 DEF t, PutIn, PutFirst
<1>5. CASE n # 0
  <2>1. 1 \in 1 .. n
    BY <1>2, <1>5
  <2>2. t[1] = s[1]
    BY <1>1, <2>1
  <2> QED  BY <1>1, <1>3, <1>5, <2>2 DEF t, PutIn, PutFirst
<1> QED  BY <1>4, <1>5

\* Every payee's state comes after one of no later block.
Paired(s) ==
    \A k \in 1 .. Len(s) :
        s[k].amount > 0 /\ (s[k].dir = "in" => \E j \in 1 .. k - 1 : s[j].block <= s[k].block)

LEMMA SortBegins ==
    ASSUME NEW s \in Seq(Shares), Paired(s)
    PROVE  \A k \in 1 .. Len(InBlockOrder(s)) :
               /\ InBlockOrder(s)[k].amount > 0 /\ InBlockOrder(s)[1].dir = "out"
               /\ InBlockOrder(s)[1].block <= InBlockOrder(s)[k].block
<1> DEFINE N == Len(s)
           From(t, m) == \A i \in 1 .. Len(t) : \E j \in 1 .. m : t[i] = s[j]
           First(t, m) == m >= 1 => t[1].dir = "out" /\ \A j \in 1 .. m : t[1].block <= s[j].block
<1>1. PICK c : /\ c[0] = <<>> /\ \A k \in 1 .. N : c[k] = Inserted(c[k - 1], s[k])
               /\ InBlockOrder(s) = c[N]
  BY SortRuns
<1>2. N \in Nat /\ N = Len(s) /\ \A k \in 1 .. N : s[k] \in Shares /\ s[k].block \in Nat /\ s[k].dir \in {"in", "out"}
  <2>1. N \in Nat /\ N = Len(s) /\ \A k \in 1 .. N : s[k] \in Shares
    OBVIOUS
  <2> QED  BY <2>1, ShareIs
<1>3. \A k \in 1 .. N : s[k].amount > 0 /\ (s[k].dir = "in" => \E j \in 1 .. k - 1 : s[j].block <= s[k].block)
  BY DEF Paired
<1> HIDE DEF N
<1> DEFINE S == {k \in 0 .. N : c[k] \in Seq(Shares) /\ Len(c[k]) = k /\ From(c[k], k) /\ First(c[k], k)}
<1>4. 0 \in S
  <2>1. <<>> \in Seq(Shares) /\ Len(<<>>) = 0 /\ \A i \in 1 .. 0 : FALSE
    OBVIOUS
  <2>2. c[0] \in Seq(Shares) /\ Len(c[0]) = 0 /\ From(c[0], 0) /\ First(c[0], 0)
    BY <1>1, <2>1
  <2> QED  BY <1>2, <2>2
<1>5. ASSUME NEW k \in 1 .. N, k - 1 \in S PROVE k \in S
  <2> DEFINE q == c[k - 1]
             e == s[k]
             t == Inserted(q, e)
  <2>1. /\ q \in Seq(Shares) /\ Len(q) = k - 1 /\ From(q, k - 1) /\ First(q, k - 1)
        /\ c[k] = t /\ k \in 0 .. N /\ e \in Shares
    BY <1>1, <1>2, <1>5
  <2>2. e.block \in Nat /\ e.dir \in {"in", "out"}
        /\ (e.dir = "in" => \E j \in 1 .. k - 1 : s[j].block <= e.block)
    BY <1>2, <1>3
  <2>3. e = s[k]
    OBVIOUS
  <2> HIDE DEF q, e, S
  <2>4. t \in Seq(Shares) /\ Len(t) = Len(q) + 1 /\ PutIn(q, e, t) /\ PutFirst(q, e, t)
    BY <2>1, InsertedBegins
  <2> HIDE DEF t
  <2>5. Len(t) = k
    BY <2>1, <2>4
  <2>6. ASSUME NEW i \in 1 .. Len(t) PROVE \E j \in 1 .. k : t[i] = s[j]
    <3>1. CASE t[i] = e
      BY <2>3, <3>1
    <3>2. CASE \E h \in 1 .. Len(q) : t[i] = q[h]
      <4>1. PICK h \in 1 .. Len(q) : t[i] = q[h]
        BY <3>2
      <4>2. PICK j \in 1 .. k - 1 : q[h] = s[j]
        BY <2>1
      <4> QED  BY <4>1, <4>2
    <3> QED  BY <2>1, <2>4, <2>5, <3>1, <3>2 DEF PutIn
  <2>7. t[1].dir = "out" /\ \A j \in 1 .. k : t[1].block <= s[j].block
    <3>1. CASE t[1] = q[1] /\ \E j \in 1 .. Len(q) : q[j].block <= e.block
      <4>1. PICK j \in 1 .. Len(q) : q[j].block <= e.block
        BY <3>1
      <4>2. k - 1 >= 1 /\ 1 \in 1 .. Len(q)
        BY <2>1, <4>1
      <4>3. q[1].dir = "out" /\ \A h \in 1 .. k - 1 : q[1].block <= s[h].block
        BY <2>1, <4>2
      <4>4. PICK i \in 1 .. k - 1 : q[j] = s[i]
        BY <2>1, <4>1
      <4>5. q[1] \in Shares /\ s[i].block \in Nat
        BY <1>2, <2>1, <4>2
      <4>6. q[1].block \in Nat /\ q[1].block <= s[i].block /\ s[i].block <= e.block
        BY <4>1, <4>3, <4>4, <4>5, ShareIs
      <4>7. q[1].block <= e.block
        BY <2>2, <4>5, <4>6
      <4>8. ASSUME NEW h \in 1 .. k PROVE q[1].block <= s[h].block
        <5>1. h = k \/ h \in 1 .. k - 1
          OBVIOUS
        <5> QED  BY <2>3, <4>3, <4>7, <5>1
      <4> QED  BY <3>1, <4>3, <4>8
    <3>2. CASE t[1] = e /\ \A j \in 1 .. Len(q) : ~(q[j].block <= e.block)
      <4>1. k - 1 >= 1 => q[1].block \in Nat /\ ~(q[1].block <= e.block) /\ \A h \in 1 .. k - 1 : q[1].block <= s[h].block
        <5> SUFFICES ASSUME k - 1 >= 1
                     PROVE  q[1].block \in Nat /\ ~(q[1].block <= e.block) /\ \A h \in 1 .. k - 1 : q[1].block <= s[h].block
          OBVIOUS
        <5>1. 1 \in 1 .. Len(q) /\ q[1] \in Shares
          BY <2>1
        <5> QED  BY <2>1, <3>2, <5>1, ShareIs
      <4>2. ASSUME NEW h \in 1 .. k - 1 PROVE ~(s[h].block <= e.block)
        <5>1. k - 1 >= 1 /\ s[h].block \in Nat
          BY <1>2
        <5>2. q[1].block \in Nat /\ ~(q[1].block <= e.block) /\ q[1].block <= s[h].block
          BY <4>1, <5>1
        <5> QED  BY <2>2, <5>1, <5>2
      <4>3. e.dir = "out"
        BY <2>2, <4>2
      <4>4. ASSUME NEW h \in 1 .. k PROVE e.block <= s[h].block
        <5>1. CASE h = k
          BY <2>2, <2>3, <5>1
        <5>2. CASE h \in 1 .. k - 1
          <6>1. s[h].block \in Nat
            BY <1>2, <5>2
          <6> QED  BY <2>2, <4>2, <5>2, <6>1
        <5> QED  BY <5>1, <5>2
      <4> QED  BY <3>2, <4>3, <4>4
    <3> QED  BY <2>4, <3>1, <3>2 DEF PutFirst
  <2>8. c[k] \in Seq(Shares) /\ Len(c[k]) = k /\ From(c[k], k) /\ First(c[k], k)
    BY <2>1, <2>4, <2>5, <2>6, <2>7
  <2> QED  BY <2>1, <2>8 DEF S
<1>6. \A k \in 0 .. N : k \in S
  BY <1>2, <1>4, <1>5, Upwards
<1> DEFINE t == c[N]
<1>7. t \in Seq(Shares) /\ Len(t) = N /\ From(t, N) /\ First(t, N)
  BY <1>2, <1>6
<1> HIDE DEF t, S
<1>8. ASSUME NEW k \in 1 .. Len(t) PROVE t[k].amount > 0 /\ t[1].dir = "out" /\ t[1].block <= t[k].block
  <2>1. N >= 1
    BY <1>2, <1>7
  <2>2. PICK j \in 1 .. N : t[k] = s[j]
    BY <1>7
  <2> QED  BY <1>3, <1>7, <2>1, <2>2
<1> QED  BY <1>1, <1>8 DEF t

\* Nothing but what is left of a state changes.
Alike(s, t) ==
    Len(t) = Len(s) /\ \A j \in 1 .. Len(s) : /\ t[j].dir = s[j].dir /\ t[j].amount = s[j].amount
                                              /\ t[j].block = s[j].block /\ t[j].tx = s[j].tx

LEMMA PayAlike ==
    ASSUME NEW s \in Seq(Shares), NEW i \in 1 .. Len(s)
    PROVE  Alike(s, Pay(s, i))
<1> DEFINE t == Pay(s, i)
           left(j) == IF j = i THEN s[j].amount - Sum(Drawn(s, i)) ELSE s[j].left - Drawn(s, i)[j]
<1>1. /\ Len(t) = Len(s)
      /\ \A j \in 1 .. Len(s) : t[j].dir = s[j].dir /\ t[j].amount = s[j].amount
  BY PayIs
<1>2. \A j \in 1 .. Len(s) : t[j] = [s[j] EXCEPT !.left = left(j)]
  BY DEF Pay
<1> HIDE DEF t, left
<1>3. \A j \in 1 .. Len(s) : s[j] \in Shares
  OBVIOUS
<1>4. \A j \in 1 .. Len(s) : t[j].block = s[j].block /\ t[j].tx = s[j].tx
  BY <1>2, <1>3 DEF Shares
<1> QED  BY <1>1, <1>4 DEF Alike, t

\* The first state of a sequence has nothing to draw on, and nothing draws on a payer's.
LEMMA PayFirst ==
    ASSUME NEW s \in Seq(Shares), NEW i \in 1 .. Len(s), s[1].dir = "out", s[i].dir = "out"
    PROVE  /\ i = 1 => Pay(s, i)[1].left = s[1].amount
           /\ i # 1 => Pay(s, i)[1].left = s[1].left
<1> DEFINE t == Pay(s, i)
           r == Drawn(s, i)
<1>1. Pays(s, i, t, r)
  BY PaysIs
<1>2. t \in Seq(Shares) /\ Len(t) = Len(s) /\ (i = 1 => Explained(t[1]) = Sum(r))
  BY PayIs
<1> HIDE DEF t, r
<1>3. 1 \in 1 .. Len(s) /\ s[1] \in Shares /\ t[1] \in Shares
  BY <1>2
<1>4. r \in Seq(Nat) /\ Len(r) = Len(s) /\ t[1].amount = s[1].amount
  BY <1>1, <1>3 DEF Pays
<1>5. CASE i = 1
  <2>1. \A j \in 1 .. Len(r) : r[j] = 0
    BY <1>1, <1>4, <1>5 DEF Pays
  <2>2. Explained(t[1]) = 0
    BY <1>2, <1>4, <1>5, <2>1, SumOfZeros
  <2>3. t[1].amount \in Nat /\ t[1].left \in Nat
    BY <1>3, ShareIs
  <2>4. t[1].left = s[1].amount
    BY <1>4, <2>2, <2>3 DEF Explained
  <2> QED  BY <1>5, <2>4 DEF t
<1>6. CASE i # 1
  <2>1. t[1].left = s[1].left - r[1] /\ r[1] \in Nat /\ (r[1] # 0 => s[1].dir = "in")
    BY <1>1, <1>3, <1>6 DEF Pays
  <2>2. s[1].left \in Nat /\ r[1] = 0
    BY <1>3, <2>1, ShareIs
  <2>3. t[1].left = s[1].left
    BY <2>1, <2>2
  <2> QED  BY <1>6, <2>3 DEF t
<1> QED  BY <1>5, <1>6

LEMMA ConsumeOpens ==
    ASSUME NEW s \in Seq(Shares), Paired(s)
    PROVE  /\ Opens(Consume(s))
           /\ \A k \in 1 .. Len(Consume(s)) : \E j \in 1 .. Len(s) :
                  Consume(s)[k].tx = s[j].tx /\ Consume(s)[k].block = s[j].block
<1> DEFINE A == InBlockOrder(s)
           N == Len(A)
           Whole(q) == q[1].left = q[1].amount
<1>1. N \in Nat /\ N = Len(A) /\ A \in Seq(Shares) /\ \A k \in 1 .. N : \E j \in 1 .. Len(s) : A[k] = s[j]
  BY SortIs
<1>2. \A k \in 1 .. N : A[k].amount > 0 /\ A[1].dir = "out" /\ A[1].block <= A[k].block
  BY SortBegins
<1>3. PICK c : /\ c[0] = A /\ Consume(s) = c[N]
               /\ \A k \in 0 .. N : c[k] \in Seq(Shares) /\ Len(c[k]) = N
               /\ \A k \in 1 .. N : c[k] = IF c[k - 1][k].dir = "in" THEN c[k - 1] ELSE Pay(c[k - 1], k)
  BY <1>1, ConsumeRuns
<1> HIDE DEF N, A
<1> DEFINE S == {k \in 0 .. N : Alike(A, c[k]) /\ (k # 0 => Whole(c[k]))}
<1>4. 0 \in S
  BY <1>1, <1>3 DEF Alike
<1>5. ASSUME NEW k \in 1 .. N, k - 1 \in S PROVE k \in S
  <2> DEFINE q == c[k - 1]
             t == Pay(q, k)
  <2>1. q \in Seq(Shares) /\ Len(q) = N /\ k \in 1 .. Len(q) /\ k \in 0 .. N /\ 1 \in 1 .. N
    BY <1>1, <1>3
  <2>2. c[k] = (IF q[k].dir = "in" THEN q ELSE t) /\ Alike(A, q) /\ (k - 1 # 0 => Whole(q))
    BY <1>3, <1>5
  <2> HIDE DEF q, S
  <2>3. q[1].dir = "out" /\ q[k].dir \in {"in", "out"} /\ q[1] \in Shares
    <3>1. q[1].dir = A[1].dir
      BY <1>1, <2>1, <2>2 DEF Alike
    <3>2. q[k] \in Shares /\ q[1] \in Shares
      BY <2>1
    <3> QED  BY <1>2, <2>1, <3>1, <3>2, ShareIs
  <2>4. CASE q[k].dir = "in"
    <3>1. k # 1 /\ k - 1 # 0 /\ c[k] = q
      BY <2>2, <2>3, <2>4
    <3> QED  BY <2>1, <2>2, <3>1 DEF S
  <2>5. CASE q[k].dir = "out"
    <3>1. Alike(q, t)
      BY <2>1, PayAlike
    <3>2. /\ k = 1 => t[1].left = q[1].amount
          /\ k # 1 => t[1].left = q[1].left
      BY <2>1, <2>3, <2>5, PayFirst
    <3>3. c[k] = t
      BY <2>2, <2>5
    <3> HIDE DEF t
    <3>4. Alike(A, t)
      BY <1>1, <2>1, <2>2, <3>1 DEF Alike
    <3>5. t[1].amount = q[1].amount
      BY <2>1, <3>1 DEF Alike
    <3>6. Whole(t)
      <4>1. CASE k = 1
        BY <3>2, <3>5, <4>1
      <4>2. CASE k # 1
        BY <2>2, <3>2, <3>5, <4>2
      <4> QED  BY <4>1, <4>2
    <3> QED  BY <2>1, <3>3, <3>4, <3>6 DEF S
  <2> QED  BY <2>3, <2>4, <2>5
<1>6. \A k \in 0 .. N : k \in S
  BY <1>1, <1>4, <1>5, Upwards
<1> DEFINE t == c[N]
<1>7. N \in 0 .. N /\ N \in S
  BY <1>1, <1>6
<1>8. Alike(A, t) /\ (N # 0 => Whole(t)) /\ Len(t) = N /\ Consume(s) = t
  BY <1>3, <1>7
<1> HIDE DEF t, S
<1>9. Opens(t)
  <2> SUFFICES ASSUME NEW k \in 1 .. Len(t)
               PROVE  /\ t[1].dir = "out" /\ t[1].left = t[1].amount
                      /\ t[k].amount > 0 /\ t[1].block <= t[k].block
    BY DEF Opens
  <2>1. N # 0 /\ 1 \in 1 .. N /\ k \in 1 .. N
    BY <1>1, <1>8
  <2>2. /\ t[1].dir = A[1].dir /\ t[1].block = A[1].block /\ t[k].amount = A[k].amount /\ t[k].block = A[k].block
    BY <1>1, <1>8, <2>1 DEF Alike
  <2> QED  BY <1>2, <1>8, <2>1, <2>2
<1>10. ASSUME NEW k \in 1 .. Len(t) PROVE \E j \in 1 .. Len(s) : t[k].tx = s[j].tx /\ t[k].block = s[j].block
  <2>1. k \in 1 .. N /\ t[k].tx = A[k].tx /\ t[k].block = A[k].block
    BY <1>1, <1>8 DEF Alike
  <2>2. PICK j \in 1 .. Len(s) : A[k] = s[j]
    BY <1>1, <2>1
  <2> QED  BY <2>1, <2>2
<1> QED  BY <1>8, <1>9, <1>10

\* The two states of an edge are neighbours, of the edge's transaction and block.
Halved(t) ==
    \A k \in 1 .. Len(t) :
        t[k].amount > 0 /\ (t[k].dir = "in" => k - 1 \in 1 .. Len(t) /\ t[k - 1].block = t[k].block)

LEMMA MoneyHalved ==
    ASSUME NEW es \in Seq(Edges)
    PROVE  /\ Halved(MoneyOf(es))
           /\ \A k \in 1 .. Len(MoneyOf(es)) : \E i \in 1 .. Len(es) :
                  MoneyOf(es)[k].tx = es[i].tx /\ MoneyOf(es)[k].block = es[i].block
<1> DEFINE N == 2 * Len(es)
           t == MoneyOf(es)
           h(k) == (k + 1) \div 2
<1>1. N \in Nat /\ Len(es) \in Nat
  OBVIOUS
<1>2. t = [k \in 1 .. N |-> Half(es[h(k)], IF k % 2 = 1 THEN "out" ELSE "in")]
  BY DEF MoneyOf
<1>3. Len(t) = N
  BY <1>1, <1>2
<1>4. ASSUME NEW k \in 1 .. N PROVE h(k) \in 1 .. Len(es) /\ (k % 2 # 1 => k - 1 \in 1 .. N /\ h(k - 1) = h(k))
  BY <1>1
<1> HIDE DEF N, h
<1>5. ASSUME NEW k \in 1 .. N
      PROVE  /\ t[k].tx = es[h(k)].tx /\ t[k].block = es[h(k)].block /\ t[k].amount > 0
             /\ t[k].dir = "in" => k % 2 # 1
  <2>1. t[k] = Half(es[h(k)], IF k % 2 = 1 THEN "out" ELSE "in")
    BY <1>2
  <2>2. es[h(k)] \in Edges
    BY <1>4
  <2>3. es[h(k)].amount > 0
    BY <2>2 DEF Edges
  <2> QED  BY <2>1, <2>3 DEF Half
<1> HIDE DEF t
<1>6. Halved(t)
  <2> SUFFICES ASSUME NEW k \in 1 .. N
               PROVE  t[k].amount > 0 /\ (t[k].dir = "in" => k - 1 \in 1 .. N /\ t[k - 1].block = t[k].block)
    BY <1>3 DEF Halved
  <2>1. ASSUME t[k].dir = "in" PROVE k - 1 \in 1 .. N /\ t[k - 1].block = t[k].block
    <3>1. k - 1 \in 1 .. N /\ h(k - 1) = h(k)
      BY <1>4, <1>5, <2>1
    <3>2. t[k - 1].block = es[h(k - 1)].block /\ t[k].block = es[h(k)].block
      BY <1>5, <3>1
    <3> QED  BY <3>1, <3>2
  <2> QED  BY <1>5, <2>1
<1>7. ASSUME NEW k \in 1 .. Len(t) PROVE \E i \in 1 .. Len(es) : t[k].tx = es[i].tx /\ t[k].block = es[i].block
  BY <1>3, <1>4, <1>5
<1> QED  BY <1>6, <1>7 DEF t

AllDated(s) == \A k \in 1 .. Len(s) : Dated(s[k].tx, s[k].block)

\* The states of edges are paired, and remain so behind the accounts of a result: if
\* the payer's is known already, it is of the same transaction, hence block.
LEMMA HalvedPaired == ASSUME NEW s \in Seq(Shares), Halved(s) PROVE Paired(s)
<1> SUFFICES ASSUME NEW k \in 1 .. Len(s)
             PROVE  s[k].amount > 0 /\ (s[k].dir = "in" => \E j \in 1 .. k - 1 : s[j].block <= s[k].block)
  BY DEF Paired
<1>1. s[k].amount > 0
  BY DEF Halved
<1>2. ASSUME s[k].dir = "in" PROVE \E j \in 1 .. k - 1 : s[j].block <= s[k].block
  <2>1. k - 1 \in 1 .. Len(s) /\ s[k - 1].block = s[k].block
    BY <1>2 DEF Halved
  <2>2. s[k] \in Shares
    OBVIOUS
  <2>3. s[k].block \in Nat
    BY <2>2, ShareIs
  <2>4. k - 1 \in 1 .. k - 1 /\ s[k - 1].block <= s[k].block
    BY <2>1, <2>3
  <2> QED  BY <2>4
<1> QED  BY <1>1, <1>2

LEMMA OpensPaired == ASSUME NEW s \in Seq(Shares), Opens(s) PROVE Paired(s)
<1> SUFFICES ASSUME NEW k \in 1 .. Len(s)
             PROVE  s[k].amount > 0 /\ (s[k].dir = "in" => \E j \in 1 .. k - 1 : s[j].block <= s[k].block)
  BY DEF Paired
<1>1. s[1].dir = "out" /\ s[k].amount > 0 /\ s[1].block <= s[k].block
  BY DEF Opens
<1>2. ASSUME s[k].dir = "in" PROVE \E j \in 1 .. k - 1 : s[j].block <= s[k].block
  <2>1. 1 \in 1 .. k - 1
    BY <1>1, <1>2
  <2> QED  BY <1>1, <2>1
<1> QED  BY <1>1, <1>2

LEMMA AppendPaired ==
    ASSUME NEW s \in Seq(Shares), NEW extra \in Seq(Shares), Paired(s), Halved(extra), AllDated(s), AllDated(extra)
    PROVE  Paired(AppendUnique(s, extra)) /\ AllDated(AppendUnique(s, extra))
<1> DEFINE N == Len(extra)
           Sight(q, b) == \E j \in 1 .. Len(q) : q[j].block = b
<1>1. N \in Nat /\ N = Len(extra) /\ \A k \in 1 .. N : extra[k] \in Shares
  OBVIOUS
<1>2. /\ \A k \in 1 .. N : Dated(extra[k].tx, extra[k].block)
      /\ \A k \in 1 .. N : /\ extra[k].amount > 0
                           /\ extra[k].dir = "in" => k - 1 \in 1 .. N /\ extra[k - 1].block = extra[k].block
  BY DEF AllDated, Halved
<1> HIDE DEF N
<1>3. PICK c : AppendRun(s, extra, N, c)
  BY <1>1, AppendRuns
<1>4. /\ c[0] = s /\ AppendUnique(s, extra) = c[N]
      /\ \A k \in 0 .. N : c[k] \in Seq(Shares)
      /\ \A k \in 1 .. N : Appends(c[k - 1], extra[k], c[k])
  BY <1>3 DEF AppendRun
<1> DEFINE S == {k \in 0 .. N : Paired(c[k]) /\ AllDated(c[k]) /\ (k # 0 => Sight(c[k], extra[k].block))}
<1>5. 0 \in S
  BY <1>1, <1>4
<1>6. ASSUME NEW k \in 1 .. N, k - 1 \in S PROVE k \in S
  <2> DEFINE q == c[k - 1]
             e == extra[k]
             t == Append(q, e)
  <2>1. /\ q \in Seq(Shares) /\ Paired(q) /\ AllDated(q) /\ e \in Shares /\ k \in 0 .. N
        /\ k - 1 # 0 => Sight(q, extra[k - 1].block)
    BY <1>1, <1>4, <1>6
  <2>2. /\ Dated(e.tx, e.block) /\ e.amount > 0
        /\ e.dir = "in" => k - 1 # 0 /\ extra[k - 1].block = e.block
    BY <1>2
  <2>3. c[k] = IF \E j \in DOMAIN q : MoneyKey(q[j]) = MoneyKey(e) THEN q ELSE t
    BY <1>4 DEF Appends
  <2>4. Sight(q, e.block) \/ e.dir # "in"
    BY <2>1, <2>2
  <2> SUFFICES Paired(c[k]) /\ AllDated(c[k]) /\ Sight(c[k], e.block)
    BY <2>1
  <2> HIDE DEF q, e, S
  <2>5. CASE \E j \in DOMAIN q : MoneyKey(q[j]) = MoneyKey(e)
    <3>1. PICK j \in 1 .. Len(q) : MoneyKey(q[j]) = MoneyKey(e)
      BY <2>1, <2>5
    <3>2. q[j].tx = e.tx
      BY <3>1 DEF MoneyKey
    <3>3. Dated(e.tx, q[j].block)
      BY <2>1, <3>2 DEF AllDated
    <3>4. q[j].block = e.block
      BY <2>2, <3>3 DEF Dated
    <3>5. c[k] = q
      BY <2>3, <2>5
    <3> QED  BY <2>1, <3>4, <3>5
  <2>6. CASE ~\E j \in DOMAIN q : MoneyKey(q[j]) = MoneyKey(e)
    <3>1. t \in Seq(Shares) /\ Len(t) = Len(q) + 1 /\ t[Len(q) + 1] = e /\ \A j \in 1 .. Len(q) : t[j] = q[j]
      BY <2>1
    <3>2. c[k] = t /\ Len(q) \in Nat
      BY <2>1, <2>3, <2>6
    <3> HIDE DEF t
    <3>3. Sight(t, e.block)
      <4>1. Len(q) + 1 \in 1 .. Len(t)
        BY <3>1, <3>2
      <4> QED  BY <3>1, <4>1
    <3>4. AllDated(t)
      <4> SUFFICES ASSUME NEW i \in 1 .. Len(t) PROVE Dated(t[i].tx, t[i].block)
        BY DEF AllDated
      <4>1. CASE i = Len(q) + 1
        BY <2>2, <3>1, <4>1
      <4>2. CASE i # Len(q) + 1
        <5>1. i \in 1 .. Len(q)
          BY <3>1, <3>2, <4>2
        <5>2. t[i] = q[i] /\ Dated(q[i].tx, q[i].block)
          BY <2>1, <3>1, <5>1 DEF AllDated
        <5> QED  BY <5>2
      <4> QED  BY <4>1, <4>2
    <3>5. Paired(t)
      <4> SUFFICES ASSUME NEW i \in 1 .. Len(t)
                   PROVE  t[i].amount > 0 /\ (t[i].dir = "in" => \E j \in 1 .. i - 1 : t[j].block <= t[i].block)
        BY DEF Paired
      <4>1. CASE i = Len(q) + 1
        <5>1. t[i] = e
          BY <3>1, <4>1
        <5>2. ASSUME e.dir = "in" PROVE \E j \in 1 .. i - 1 : t[j].block <= t[i].block
          <6>1. PICK j \in 1 .. Len(q) : q[j].block = e.block
            BY <2>4, <5>2
          <6>2. e.block \in Nat
            BY <2>1, ShareIs
          <6>3. j \in 1 .. i - 1 /\ t[j].block <= t[i].block
            BY <3>1, <3>2, <4>1, <5>1, <6>1, <6>2
          <6> QED  BY <6>3
        <5> QED  BY <2>2, <5>1, <5>2
      <4>2. CASE i # Len(q) + 1
        <5>1. i \in 1 .. Len(q) /\ t[i] = q[i]
          BY <3>1, <3>2, <4>2
        <5>2. q[i].amount > 0 /\ (q[i].dir = "in" => \E j \in 1 .. i - 1 : q[j].block <= q[i].block)
          BY <2>1, <5>1 DEF Paired
        <5>3. \A j \in 1 .. i - 1 : t[j] = q[j]
          BY <3>1, <5>1
        <5> QED  BY <5>1, <5>2, <5>3
      <4> QED  BY <4>1, <4>2
    <3> QED  BY <3>2, <3>3, <3>4, <3>5
  <2> QED  BY <2>5, <2>6
<1>7. \A k \in 0 .. N : k \in S
  BY <1>1, <1>5, <1>6, Upwards
<1>8. N \in 0 .. N /\ N \in S
  BY <1>1, <1>7
<1> QED  BY <1>4, <1>8

LEMMA OpensAfter ==
    ASSUME NEW s \in Seq(Shares), Paired(s), AllDated(s)
    PROVE  Consume(s) \in Seq(Shares) /\ Opens(Consume(s)) /\ AllDated(Consume(s))
<1> DEFINE t == Consume(s)
<1>1. /\ Opens(t) /\ \A k \in 1 .. Len(t) : \E j \in 1 .. Len(s) : t[k].tx = s[j].tx /\ t[k].block = s[j].block
  BY ConsumeOpens
<1>2. t \in Seq(Shares)
  <2> DEFINE N == Len(InBlockOrder(s))
  <2>1. N \in Nat
    BY SortIs
  <2>2. PICK c : /\ c[0] = InBlockOrder(s) /\ t = c[N]
                 /\ \A k \in 0 .. N : c[k] \in Seq(Shares) /\ Len(c[k]) = N
                 /\ \A k \in 1 .. N : c[k] = IF c[k - 1][k].dir = "in" THEN c[k - 1] ELSE Pay(c[k - 1], k)
    BY <2>1, ConsumeRuns
  <2> QED  BY <2>1, <2>2
<1> HIDE DEF t
<1>3. AllDated(t)
  <2> SUFFICES ASSUME NEW k \in 1 .. Len(t) PROVE Dated(t[k].tx, t[k].block)
    BY DEF AllDated
  <2>1. PICK j \in 1 .. Len(s) : t[k].tx = s[j].tx /\ t[k].block = s[j].block
    BY <1>1
  <2> QED  BY <2>1 DEF AllDated
<1> QED  BY <1>1, <1>2, <1>3 DEF t

LEMMA OpensNext ==
    ASSUME UNCHANGED facts, NEW s \in Seq(Shares), Opens(s), AllDated(s), money' = s
    PROVE  MoneyOpens'
<1>1. \A k \in DOMAIN s : Dated(s[k].tx, s[k].block)
  BY DEF AllDated
<1> QED  BY <1>1 DEF MoneyOpens, Opens, Dated

-----------------------------------------------------------------------------
(* The chain, orders, and the candidate in hand.                           *)

LEMMA World ==
    ASSUME TypeOK
    PROVE  /\ facts \subseteq Fact /\ IsFiniteSet(facts) /\ kind \in [Addresses -> Kinds]
           /\ \A f, g \in facts : f.tx = g.tx => f.block = g.block
<1> DEFINE w == <<facts, kind>>
<1>1. w \in Worlds /\ w[1] = facts /\ w[2] = kind
  BY DEF TypeOK
<1> HIDE DEF w
<1> QED  BY <1>1, WorldsAssumption

\* A nearest-first order of a finite set is a sequence of all its elements.
LEMMA NearestFirstIs ==
    ASSUME NEW S, IsFiniteSet(S), NEW d, NEW s \in NearestFirst(S, d)
    PROVE  s \in Seq(S) /\ \A f \in S : \E k \in DOMAIN s : s[k] = f
<1> DEFINE n == Cardinality(S)
<1>1. n \in Nat
  BY FS_CardinalityType
<1>2. s \in [1 .. n -> S] /\ \A i, j \in DOMAIN s : i < j => s[i] # s[j]
  BY DEF NearestFirst
<1>3. s \in Seq(S)
  BY <1>1, <1>2, SeqDef
<1>4. \A i, j \in 1 .. n : s[i] = s[j] => i = j
  <2> SUFFICES ASSUME NEW i \in 1 .. n, NEW j \in 1 .. n, s[i] = s[j], i # j PROVE FALSE
    OBVIOUS
  <2>1. i < j \/ j < i
    BY <1>1
  <2> QED  BY <1>2, <2>1
<1>5. s \in Injection(1 .. n, S)
  BY <1>2, <1>4 DEF Injection, IsInjective
<1>6. Cardinality(1 .. n) = Cardinality(S)
  BY <1>1, FS_Interval
<1>7. s \in Surjection(1 .. n, S)
  BY <1>5, <1>6, FS_Injection
<1> QED  BY <1>2, <1>3, <1>7 DEF Surjection

\* What is kept of a sequence is a sequence of elements at the positions kept.
LEMMA KeepingIs ==
    ASSUME NEW T, NEW s \in Seq(T), NEW I, I \subseteq DOMAIN s, NEW r \in Keeping(s, I)
    PROVE  r \in Seq(T) /\ \A k \in DOMAIN r : \E i \in I : r[k] = s[i]
<1> DEFINE n == Cardinality(I)
<1>1. n \in Nat
  <2>1. IsFiniteSet(1 .. Len(s))
    BY FS_Interval
  <2>2. I \in SUBSET (1 .. Len(s))
    OBVIOUS
  <2> QED  BY <2>1, <2>2, FS_Subset, FS_CardinalityType
<1>2. PICK p \in [1 .. n -> I] : r = [k \in DOMAIN p |-> s[p[k]]]
  BY DEF Keeping
<1>3. DOMAIN r = 1 .. n /\ \A k \in 1 .. n : p[k] \in I /\ r[k] = s[p[k]]
  BY <1>2
<1>4. \A k \in 1 .. n : r[k] \in T
  BY <1>3
<1>5. r \in [1 .. n -> T]
  BY <1>2, <1>3, <1>4
<1> QED  BY <1>1, <1>3, <1>5, SeqDef

\* The candidate in hand, what it is paid and what that leaves.
LEMMA Candidate ==
    ASSUME TypeOK, WalkHolds, pc = "walk", todo # <<>>
    PROVE  /\ cur \in DOMAIN branches /\ B \in Branches
           /\ F \in Fact /\ F = todo[1] /\ 1 \in DOMAIN todo
           /\ Other \in Addresses
           /\ Paid \in Nat /\ Paid <= F.amount
           /\ Rest \in Nat \cup {None}
           /\ budget # None => Paid <= budget /\ Rest = budget - Paid
           /\ budget = None => Paid = F.amount /\ Rest = None
<1>1. cur \in DOMAIN branches /\ B \in Branches
  BY DEF WalkHolds, TypeOK, B
<1>2. F \in Fact /\ F = todo[1] /\ 1 \in DOMAIN todo
  BY DEF F, TypeOK
<1>3. F.amount \in Nat /\ F.from \in Addresses /\ F.to \in Addresses
  BY <1>2 DEF Fact
<1>4. Other \in Addresses
  BY <1>3 DEF Other, Peer
<1>5. budget \in Nat \cup {None}
  BY DEF TypeOK
<1>6. /\ Paid \in Nat /\ Paid <= F.amount
      /\ budget # None => Paid <= budget
      /\ budget = None => Paid = F.amount
  <2> DEFINE m == F.amount
  <2>1. Paid = IF budget = None \/ m < budget THEN m ELSE budget
    BY DEF Paid
  <2>2. m \in Nat
    BY <1>3
  <2> HIDE DEF m
  <2> QED  BY <1>5, <2>1, <2>2 DEF None, m
<1>7. /\ Rest \in Nat \cup {None} 
      /\ budget # None => Rest = budget - Paid
      /\ budget = None => Rest = None
  <2> DEFINE m == Paid
  <2>1. Rest = IF budget = None THEN None ELSE budget - m
    BY DEF Rest
  <2>2. m \in Nat /\ (budget # None => m <= budget)
    BY <1>6
  <2> HIDE DEF m
  <2> QED  BY <1>5, <2>1, <2>2 DEF None, m
<1> QED  BY <1>1, <1>2, <1>4, <1>6, <1>7

\* The edge of a candidate that is kept.
LEMMA NewEdge ==
    ASSUME TypeOK, WalkHolds, Kept
    PROVE  /\ Edge \in Edges /\ Edge.parent = cur /\ cur # 0 /\ Edge.amount = Paid /\ Paid > 0
           /\ Path \in Paths
           /\ F.asset \in DOMAIN Threshold /\ Paid >= Threshold[F.asset]
           /\ Threshold[F.asset] \in Nat \ {0} /\ F.amount >= Threshold[F.asset]
<1>1. pc = "walk" /\ todo # <<>> /\ Supported(F) /\ Enough(F, F.amount) /\ Enough(F, Paid)
  BY DEF Kept, Considered, Ignored
<1>2. /\ F.asset \in DOMAIN Threshold /\ Paid >= Threshold[F.asset]
      /\ Threshold[F.asset] \in Nat \ {0} /\ F.amount >= Threshold[F.asset]
  BY <1>1, ConstantsAssumption DEF Supported, Enough
<1>3. /\ B \in Branches /\ F \in Fact /\ Other \in Addresses
      /\ Paid \in Nat /\ cur \in DOMAIN branches
  BY <1>1, Candidate
<1>4. Paid \in Nat \ {0} /\ Paid > 0
  <2> DEFINE m == Paid
  <2> DEFINE n == Threshold[F.asset]
  <2>1. m \in Nat /\ n \in Nat \ {0} /\ m >= n
    BY <1>2, <1>3
  <2> HIDE DEF m, n
  <2>2. m \in Nat \ {0} /\ m > 0
    BY <2>1
  <2> QED  BY <2>2 DEF m
<1>5. cur \in Nat \ {0}
  <2>1. branches \in Seq(Branches)
    BY DEF TypeOK
  <2> QED  BY <1>3, <2>1
<1>6. Path \in Paths
  BY <1>3 DEF Path, Branches, Paths
<1>7. B.dir \in {"in", "out"}
  BY <1>3 DEF Branches
<1>8. Edge \in Edges
  BY <1>3, <1>4, <1>5, <1>6, <1>7 DEF Edge, Edges, Fact
<1> QED  BY <1>2, <1>4, <1>5, <1>6, <1>8 DEF Edge

-----------------------------------------------------------------------------
(* The type invariant.                                                     *)

\* What a conversion yields has its shape.
LEMMA SwappedIs ==
    ASSUME TypeOK, NEW tx \in DOMAIN verdict, verdict[tx].is = "swap"
    PROVE  Swapped(tx) \in Output
<1>1. verdict[tx] \in Verdicts \cup {Plain("unknown")}
  BY DEF TypeOK
<1>2. /\ Plain("ambiguous").is # "swap" /\ Plain("inbound").is # "swap"
      /\ Plain("unknown").is # "swap"
  BY DEF Plain
<1>3. verdict[tx] \in {[is |-> "swap", out |-> {w}] : w \in Swaps}
  BY <1>1, <1>2 DEF Verdicts
<1>4. PICK w \in Swaps : verdict[tx] = [is |-> "swap", out |-> {w}]
  BY <1>3, Zenon
<1>5. Swapped(tx) = w
  BY <1>4 DEF Swapped
<1> QED  BY <1>5, ConstantsAssumption

\* The transfer of a conversion continues the branch it is made for.
LEMMA SwapTransfer ==
    ASSUME TypeOK, BranchesHold, NEW i \in DOMAIN branches, Converts(branches[i]),
           verdict[branches[i].tx].is = "swap",
           NEW f, f = Semantic(branches[i], Swapped(branches[i].tx))
    PROVE  /\ f \in Fact /\ Near(f, branches[i].dir) = branches[i].addr
           /\ InTime(f.block, branches[i]) /\ Dated(f.tx, f.block)
<1> DEFINE b == branches[i]
<1>1. b \in Branches
  BY DEF TypeOK
<1>2. b.tx # None /\ Dated(b.tx, b.block) /\ b.block # 0
  BY DEF Converts, BranchesHold
<1>3. b.tx \in {g.tx : g \in facts}
  BY <1>2 DEF Dated
<1>4. verdict[b.tx] \in Verdicts \cup {Plain("unknown")}
  BY <1>3 DEF TypeOK
<1>5. verdict[b.tx].is = "swap"
  OBVIOUS
<1> DEFINE w == Swapped(b.tx)
<1>7. f = Semantic(b, w)
  OBVIOUS
<1>8. w \in Output
  BY <1>3, <1>5, SwappedIs DEF TypeOK
<1> HIDE DEF w
<1> HIDE DEF b
<1>9. b.block \in 1 .. Through /\ b.tx \in Nat
  BY <1>1, <1>2, ConstantsAssumption DEF Branches
<1>10. f \in Fact
  BY <1>1, <1>7, <1>8, <1>9 DEF Semantic, Fact, Branches, Output
<1>11. Near(f, b.dir) = b.addr
  BY <1>7 DEF Semantic, Near
<1>12. InTime(f.block, b) /\ Dated(f.tx, f.block)
  BY <1>2, <1>7, <1>9 DEF Semantic, InTime
<1> QED  BY <1>10, <1>11, <1>12 DEF b
Node == [terminal : BOOLEAN, why : Reasons]
NodesOK(ns) == ns \in [DOMAIN ns -> Node] /\ DOMAIN ns \subseteq Addresses
\* A later set of nodes: none is gone, and a stop stays one.
Grows(old, new) ==
    DOMAIN old \subseteq DOMAIN new /\ \A a \in DOMAIN old : old[a].terminal => new[a].terminal

LEMMA SetTerminalIs ==
    ASSUME NEW ns, NodesOK(ns), NEW A, NEW why \in Reasons
    PROVE  /\ NodesOK(SetTerminal(ns, A, why)) /\ DOMAIN SetTerminal(ns, A, why) = DOMAIN ns
           /\ Grows(ns, SetTerminal(ns, A, why))
BY DEF SetTerminal, NodesOK, Node, Grows

LEMMA TypeInit == Init => TypeOK
<1> SUFFICES ASSUME Init PROVE TypeOK
  OBVIOUS
<1>1. PICK w \in Worlds : facts = w[1] /\ kind = w[2]
  BY DEF Init
<1>2. w = <<facts, kind>>
  BY <1>1, WorldsAssumption
<1>3. <<facts, kind>> \in Worlds /\ stored \subseteq facts
  BY <1>2 DEF Init
<1>4. status \in [Addresses -> States] /\ {windows, wanted} \subseteq [Addresses -> Nat \X Nat]
  BY ConstantsAssumption DEF Init, States, Cov!NoCoverage
<1>5. verdict \in [{f.tx : f \in facts} -> Verdicts \cup {Plain("unknown")}]
  BY DEF Init
<1>6. nodes \in [DOMAIN nodes -> [terminal : BOOLEAN, why : Reasons]] /\ DOMAIN nodes \subseteq Addresses
  BY DEF Init
<1>7. edges \in Seq(Edges) /\ \A j \in DOMAIN edges : edges[j].parent \in DOMAIN branches \cup {0}
  BY DEF Init
<1>8. /\ branches \in Seq(Branches) /\ frontier \cup next \subseteq DOMAIN branches
      /\ cur \in DOMAIN branches \cup {0} /\ todo \in Seq(Fact) /\ budget \in Nat \cup {None}
  BY DEF Init
<1>9. /\ given \subseteq Addresses /\ dep \in Addresses /\ syncs \in Nat /\ extensions \in Nat
      /\ pc \in Places /\ data \in {"synced", "partial"}
  BY ConstantsAssumption DEF Init, Places
<1> QED  BY <1>3, <1>4, <1>5, <1>6, <1>7, <1>8, <1>9 DEF TypeOK

\* What asking for a range does to the address documents, and what a stop does.
LEMMA AskType ==
    ASSUME TypeOK, NEW a \in Addresses, NEW range \in Nat \X Nat, Ask(a, range)
    PROVE  status' \in [Addresses -> States] /\ wanted' \in [Addresses -> Nat \X Nat]
BY DEF TypeOK, Ask, States

LEMMA DependType ==
    ASSUME TypeOK, NEW a \in Addresses, NEW request, NEW range \in Nat \X Nat, Depend(a, request, range),
           UNCHANGED <<world, verdict, result, round, walk, money, extensions>>
    PROVE  TypeOK'
<1>1. /\ status' \in [Addresses -> States] /\ wanted' \in [Addresses -> Nat \X Nat]
      /\ UNCHANGED <<windows, stored, syncs>>
  BY AskType DEF Depend, store, TypeOK
<1>2. given' \subseteq Addresses /\ dep' \in Addresses /\ pc' \in Places
  BY DEF Depend, TypeOK, Places
<1> QED  BY <1>1, <1>2 DEF TypeOK, world, result, round, walk

\* The rest of the candidates, once one has been taken.
LEMMA RestOfTodo ==
    ASSUME TypeOK, todo # <<>>
    PROVE  /\ Tail(todo) \in Seq(Fact) /\ Len(todo) > 0 /\ Len(Tail(todo)) = Len(todo) - 1
           /\ \A k \in DOMAIN Tail(todo) : k + 1 \in DOMAIN todo /\ Tail(todo)[k] = todo[k + 1]
BY DEF TypeOK

\* The candidates of a query.
LEMMA QueryType ==
    ASSUME TypeOK, NEW a, NEW d, NEW asset, NEW block, NEW found, found = Query(a, d, asset, block)
    PROVE  found \subseteq facts /\ found \subseteq Fact /\ IsFiniteSet(found)
<1>1. found \subseteq facts
  BY DEF Query, TypeOK
<1>2. facts \subseteq Fact /\ IsFiniteSet(facts)
  BY World
<1> QED  BY <1>1, <1>2, FS_Subset

LEMMA TypeTake ==
    ASSUME TypeOK, BranchesHold, NEW i \in frontier, Drop(i) \/ TakeQuery(i) \/ TakeConversion(i)
    PROVE  TypeOK'
<1> DEFINE b == branches[i]
<1>0. i \in DOMAIN branches /\ b \in Branches /\ b.amount \in Nat \cup {None}
  <2>1. i \in DOMAIN branches /\ b \in Branches
    BY DEF TypeOK
  <2> QED  BY <2>1 DEF Branches
<1>1. CASE Drop(i)
  BY <1>1 DEF Drop, Takes, TypeOK, world, store, manager, result, walk
<1>2. ASSUME NEW candidates \in Seq(Fact), NEW amount \in Nat \cup {None}, Takes(i),
             Walk(i, candidates, amount), UNCHANGED result
      PROVE  TypeOK'
  BY <1>0, <1>2 DEF Walk, Takes, TypeOK, world, store, manager, result, Places
<1>3. ASSUME NEW stop, stop[2] \in Reasons, StopAt(i, stop), Takes(i), data' \in {"synced", "partial"}
      PROVE  TypeOK'
  <2>1. nodes' = SetTerminal(nodes, stop[1], stop[2])
    BY <1>3 DEF StopAt
  <2>2. NodesOK(nodes)
    BY DEF NodesOK, TypeOK, Node
  <2>3. NodesOK(nodes')
    BY <1>3, <2>1, <2>2, SetTerminalIs
  <2> QED  BY <1>3, <2>3 DEF StopAt, Takes, TypeOK, NodesOK, Node, world, store, manager, walk
<1>4. CASE TakeQuery(i)
  <2> DEFINE found == Query(b.addr, b.dir, b.asset, b.block)
  <2>1. found \subseteq Fact /\ IsFiniteSet(found)
    BY QueryType
  <2>2. CASE \E order \in NearestFirst(found, b.dir) : Walk(i, order, b.amount) /\ UNCHANGED result
    <3>1. PICK order \in NearestFirst(found, b.dir) : Walk(i, order, b.amount) /\ UNCHANGED result
      BY <2>2
    <3>2. order \in Seq(found)
      BY <2>1, NearestFirstIs
    <3>3. order \in Seq(Fact)
      BY <2>1, <3>2
    <3>4. Takes(i)
      BY <1>4 DEF TakeQuery
    <3> QED  BY <1>0, <1>2, <3>1, <3>3, <3>4
  <2>3. CASE StopAt(i, <<{b.addr}, "high_frequency">>) /\ data' = "partial"
    <3> DEFINE stop == <<{b.addr}, "high_frequency">>
    <3>1. stop[2] \in Reasons /\ Takes(i)
      BY <1>4 DEF TakeQuery, Reasons
    <3>2. StopAt(i, stop) /\ data' \in {"synced", "partial"}
      BY <2>3
    <3> HIDE DEF stop
    <3> QED  BY <1>3, <3>1, <3>2
  <2> QED  BY <1>4, <2>2, <2>3 DEF TakeQuery
<1>5. CASE TakeConversion(i)
  <2> DEFINE f == Semantic(b, Swapped(b.tx))
  <2>0. Takes(i) /\ Converts(b) /\ UNCHANGED data
    BY <1>5 DEF TakeConversion
  <2>1. data' \in {"synced", "partial"}
    BY <2>0 DEF TypeOK
  <2>2. CASE \/ StopAt(i, <<{b.addr}, "ambiguous_conversion">>) \/ StopAt(i, <<{}, "">>)
    <3>1. \E stop : stop[2] \in Reasons /\ StopAt(i, stop)
      <4>1. <<{b.addr}, "ambiguous_conversion">>[2] \in Reasons /\ <<{}, "">>[2] \in Reasons
        BY DEF Reasons
      <4> QED  BY <2>2, <4>1, Zenon
    <3> QED  BY <1>3, <2>0, <2>1, <3>1
  <2>3. CASE verdict[b.tx].is = "swap" /\ Walk(i, <<f>>, None) /\ UNCHANGED <<nodes, btc, edges, branches>>
    <3>1. f \in Fact
      BY <1>0, <2>0, <2>3, SwapTransfer
    <3>2. <<f>> \in Seq(Fact)
      BY <3>1
    <3> QED  BY <1>2, <2>0, <2>3, <3>2 DEF result
  <2> QED  BY <1>5, <2>2, <2>3 DEF TakeConversion
<1> QED  BY <1>1, <1>4, <1>5

\* An edge is added.
LEMMA EdgesType ==
    ASSUME TypeOK, WalkHolds, Kept, edges' = Append(edges, Edge), DOMAIN branches \subseteq DOMAIN branches'
    PROVE  /\ edges' \in Seq(Edges) /\ \A j \in DOMAIN edges' : edges'[j].parent \in DOMAIN branches' \cup {0}
           /\ Len(edges') = Len(edges) + 1 /\ edges'[Len(edges) + 1] = Edge
           /\ \A j \in DOMAIN edges : j \in DOMAIN edges' /\ edges'[j] = edges[j]
<1>1. Edge \in Edges /\ Edge.parent = cur /\ edges \in Seq(Edges)
  BY NewEdge DEF TypeOK
<1>2. cur \in DOMAIN branches
  BY DEF WalkHolds, Kept, Considered
<1> DEFINE e == Edge
<1> HIDE DEF e
<1>3. e \in Edges /\ edges' = Append(edges, e) /\ edges \in Seq(Edges)
  BY <1>1 DEF e
<1>4. /\ edges' \in Seq(Edges) /\ Len(edges') = Len(edges) + 1 /\ edges'[Len(edges) + 1] = e
      /\ \A j \in DOMAIN edges : j \in DOMAIN edges' /\ edges'[j] = edges[j]
      /\ \A j \in DOMAIN edges' : j = Len(edges) + 1 \/ j \in DOMAIN edges
  BY <1>3
<1>5. \A j \in DOMAIN edges : edges[j].parent \in DOMAIN branches \cup {0}
  BY DEF TypeOK
<1> QED  BY <1>1, <1>2, <1>4, <1>5 DEF e

\* The branch that a candidate opens.
Opened == Branch(Other, B.dir, F.asset, F.block, F.tx, Paid, Path)
LEMMA NewBranch ==
    ASSUME TypeOK, WalkHolds, Kept, Other # Zero
    PROVE  /\ Opened \in Branches /\ Opened.tx # None /\ Opened.block # 0
           /\ Opened.amount # None /\ Opened.asset # "all"
<1>1. /\ B \in Branches /\ F \in Fact /\ Other \in Addresses /\ Paid \in Nat
  BY Candidate DEF Kept, Considered
<1>2. Path \in Paths
  BY NewEdge
<1>3. F.asset \in Assets /\ F.block \in 1 .. Through /\ F.tx \in Nat /\ B.dir \in {"in", "out"}
  BY <1>1 DEF Fact, Branches
<1>4. /\ Opened.addr = Other /\ Opened.dir = B.dir /\ Opened.asset = F.asset /\ Opened.block = F.block
      /\ Opened.tx = F.tx /\ Opened.amount = Paid /\ Opened.path = Path
  BY DEF Opened, Branch
<1>5. Opened \in Branches
  BY <1>1, <1>2, <1>3, ConstantsAssumption DEF Opened, Branch, Branches
<1>6. F.tx # None /\ F.block # 0 /\ Paid # None /\ F.asset # "all"
  BY <1>1, <1>3, ConstantsAssumption DEF None, Assets
<1> QED  BY <1>4, <1>5, <1>6

LEMMA BranchesType ==
    ASSUME TypeOK, NEW b \in Branches, branches' = Append(branches, b)
    PROVE  /\ branches' \in Seq(Branches) /\ Len(branches') = Len(branches) + 1
           /\ branches'[Len(branches) + 1] = b
           /\ \A i \in DOMAIN branches : i \in DOMAIN branches' /\ branches'[i] = branches[i]
           /\ \A i \in DOMAIN branches' : i = Len(branches) + 1 \/ i \in DOMAIN branches
           /\ Len(branches) + 1 \in DOMAIN branches' /\ Len(branches) + 1 \notin DOMAIN branches
BY DEF TypeOK

LEMMA ReasonsOf == ASSUME NEW crossed \in BOOLEAN PROVE StopReason(crossed) \in Reasons
BY DEF StopReason, Reasons

LEMMA TypeExpand ==
    ASSUME TypeOK, WalkHolds, Skip \/ Dust \/ NodeLimit \/ Burn
    PROVE  TypeOK'
<1>1. todo # <<>> /\ pc = "walk"
  BY DEF Skip, Dust, NodeLimit, Burn, Followed, Kept, Considered
<1>2. Tail(todo) \in Seq(Fact) /\ Rest \in Nat \cup {None} /\ B.addr \in Addresses
  BY <1>1, RestOfTodo, Candidate DEF Branches
<1>3. todo' \in Seq(Fact) /\ budget' \in Nat \cup {None} /\ cur' = cur
  BY <1>2 DEF Skip, Dust, NodeLimit, Burn, Consumed, TypeOK
<1>4. NodesOK(nodes)
  BY DEF NodesOK, TypeOK, Node
<1>5. CASE Skip
  BY <1>3, <1>5 DEF Skip, TypeOK, world, store, manager, result, round
<1>6. CASE Dust
  BY <1>3, <1>6 DEF Dust, TypeOK, world, store, manager, result, round
<1>7. CASE NodeLimit
  <2>1. nodes' = SetTerminal(nodes, {B.addr}, "node_limit") /\ "node_limit" \in Reasons
    BY <1>7 DEF NodeLimit, Reasons
  <2>2. NodesOK(nodes')
    BY <1>4, <2>1, SetTerminalIs
  <2> QED  BY <1>3, <1>7, <2>2 DEF NodeLimit, TypeOK, NodesOK, Node, world, store, manager, round
<1>8. CASE Burn
  <2>1. Kept /\ edges' = Append(edges, Edge) /\ UNCHANGED branches
    BY <1>8 DEF Burn, Followed
  <2>2. edges' \in Seq(Edges) /\ \A j \in DOMAIN edges' : edges'[j].parent \in DOMAIN branches' \cup {0}
    BY <2>1, EdgesType
  <2>3. NodesOK(nodes')
    <3>1. nodes' = [a \in DOMAIN nodes \cup {Zero} |->
                     IF a \in DOMAIN nodes THEN nodes[a] ELSE [terminal |-> TRUE, why |-> ""]]
      BY <1>8 DEF Burn
    <3> QED  BY <1>4, <3>1, ConstantsAssumption DEF NodesOK, Node, Reasons
  <2> QED  BY <1>3, <1>8, <2>2, <2>3 DEF Burn, TypeOK, NodesOK, Node, world, store, manager
<1> QED  BY <1>5, <1>6, <1>7, <1>8

\* What following a candidate leaves of the nodes and the branches.
LEMMA Followings ==
    ASSUME TypeOK, WalkHolds, NEW outcome, Follow(outcome)
    PROVE  /\ Kept /\ Other \in Addresses /\ Other # Zero /\ edges' = Append(edges, Edge)
           /\ NodesOK(nodes') /\ Grows(nodes, nodes') /\ DOMAIN nodes' = DOMAIN nodes \cup {Other}
           /\ \/ Full /\ UNCHANGED <<branches, next>>
              \/ ~Full /\ branches' = Append(branches, Opened) /\ next' \in {next, next \cup {Len(branches) + 1}}
<1> DEFINE crossed == outcome = "resolved"
<1> DEFINE why == StopReason(crossed)
<1> DEFINE marked == IF crossed THEN SetTerminal(nodes, {Other}, why) ELSE nodes
<1>1. Kept /\ Other # Zero /\ edges' = Append(edges, Edge) /\ (Full => Other \in DOMAIN nodes)
  BY DEF Follow, Followed
<1>2. Other \in Addresses
  BY <1>1, Candidate DEF Kept, Considered
<1>3. why \in Reasons
  BY ReasonsOf
<1>4. NodesOK(nodes)
  BY DEF TypeOK, NodesOK, Node
<1>5. NodesOK(marked) /\ DOMAIN marked = DOMAIN nodes /\ Grows(nodes, marked)
  <2>1. CASE crossed
    BY <1>3, <1>4, <2>1, SetTerminalIs
  <2>2. CASE ~crossed
    BY <1>4, <2>2 DEF Grows
  <2> QED  BY <2>1, <2>2
<1>6. \/ Full /\ nodes' = marked /\ UNCHANGED <<branches, next>>
      \/ /\ ~Full /\ branches' = Append(branches, Opened)
         /\ next' = IF why = "" THEN next \cup {Len(branches) + 1} ELSE next
         /\ nodes' = [a \in DOMAIN nodes \cup {Other} |->
                     IF a \in DOMAIN nodes THEN marked[a] ELSE [terminal |-> why # "", why |-> why]]
  BY DEF Follow, Opened
<1> HIDE DEF why, marked
<1>7. CASE Full /\ nodes' = marked /\ UNCHANGED <<branches, next>>
  BY <1>1, <1>2, <1>5, <1>7
<1>8. CASE /\ ~Full /\ branches' = Append(branches, Opened)
           /\ next' = IF why = "" THEN next \cup {Len(branches) + 1} ELSE next
           /\ nodes' = [a \in DOMAIN nodes \cup {Other} |->
                       IF a \in DOMAIN nodes THEN marked[a] ELSE [terminal |-> why # "", why |-> why]]
  <2>1. NodesOK(nodes')
    BY <1>2, <1>3, <1>5, <1>8 DEF NodesOK, Node
  <2>2. Grows(nodes, nodes') /\ DOMAIN nodes' = DOMAIN nodes \cup {Other}
    BY <1>5, <1>8 DEF Grows
  <2> QED  BY <1>1, <1>2, <1>8, <2>1, <2>2
<1> QED  BY <1>6, <1>7, <1>8

LEMMA TypeFollow ==
    ASSUME TypeOK, WalkHolds, NEW outcome, Follow(outcome)
    PROVE  TypeOK'
<1>1. /\ Kept /\ edges' = Append(edges, Edge) /\ NodesOK(nodes')
      /\ \/ UNCHANGED <<branches, next>>
         \/ branches' = Append(branches, Opened) /\ next' \in {next, next \cup {Len(branches) + 1}}
  BY Followings
<1>2. todo # <<>> /\ pc = "walk"
  BY <1>1 DEF Kept, Considered
<1>3. todo' \in Seq(Fact) /\ budget' \in Nat \cup {None} /\ cur' = cur
  BY <1>2, RestOfTodo, Candidate DEF Follow, Consumed
<1>4. Opened \in Branches
  BY <1>1, NewBranch DEF Follow
<1>5. /\ branches' \in Seq(Branches) /\ DOMAIN branches \subseteq DOMAIN branches'
      /\ next' \subseteq DOMAIN branches'
  <2>1. CASE UNCHANGED <<branches, next>>
    BY <2>1 DEF TypeOK
  <2>2. CASE branches' = Append(branches, Opened) /\ next' \in {next, next \cup {Len(branches) + 1}}
    BY <1>4, <2>2, BranchesType DEF TypeOK
  <2> QED  BY <1>1, <2>1, <2>2
<1>6. edges' \in Seq(Edges) /\ \A j \in DOMAIN edges' : edges'[j].parent \in DOMAIN branches' \cup {0}
  BY <1>1, <1>5, EdgesType
<1>7. data' \in {"synced", "partial"}
  BY DEF Follow, TypeOK
<1> QED  BY <1>1, <1>3, <1>5, <1>6, <1>7 DEF Follow, TypeOK, NodesOK, Node, world, store, manager

LEMMA TypeMiss ==
    ASSUME TypeOK, WalkHolds, Miss \/ MissSeed
    PROVE  TypeOK'
<1>1. CASE Miss
  <2>1. F \in Fact /\ Other \in Addresses
    BY <1>1, Candidate DEF Miss, Followed, Kept, Considered
  <2>2. Required \in Nat \X Nat
    BY <2>1, ConstantsAssumption DEF Required, Fact
  <2> QED  BY <1>1, <2>1, <2>2, DependType DEF Miss
<1>2. CASE MissSeed
  <2>1. <<1, Through>> \in Nat \X Nat /\ Seed \in Addresses
    BY ConstantsAssumption
  <2>2. PICK range \in Nat \X Nat : Depend(Seed, <<Seed, "", 0>>, range)
    BY <1>2, <2>1 DEF MissSeed
  <2>3. UNCHANGED <<world, verdict, result, round, walk, money, extensions>>
    BY <1>2 DEF MissSeed
  <2> QED  BY <2>1, <2>2, <2>3, DependType
<1> QED  BY <1>1, <1>2

\* The branches a traversal starts with.
LEMMA SeedBranchesAre ==
    /\ SeedBranches \in Seq(Branches)
    /\ \A i \in DOMAIN SeedBranches :
           /\ SeedBranches[i].addr = Seed /\ SeedBranches[i].asset = "all" /\ SeedBranches[i].block = 0
           /\ SeedBranches[i].tx = None /\ SeedBranches[i].amount = None
<1> DEFINE one(d) == IF d \in Directions THEN <<Branch(Seed, d, "all", 0, None, None, <<Seed>>)>> ELSE <<>>
<1> DEFINE First(b) == b.addr = Seed /\ b.asset = "all" /\ b.block = 0 /\ b.tx = None /\ b.amount = None
<1> DEFINE S == {b \in Branches : First(b)}
<1>1. ASSUME NEW d \in {"in", "out"} PROVE one(d) \in Seq(S)
  <2> DEFINE b == Branch(Seed, d, "all", 0, None, None, <<Seed>>)
  <2>1. b \in Branches /\ First(b)
    BY ConstantsAssumption DEF Branch, Branches, Paths
  <2> HIDE DEF b, First
  <2>2. b \in S
    BY <2>1
  <2>3. one(d) = <<b>> \/ one(d) = <<>>
    BY DEF b
  <2> HIDE DEF S, one
  <2>4. <<b>> \in Seq(S) /\ <<>> \in Seq(S)
    BY <2>2
  <2> QED  BY <2>3, <2>4
<1>2. SeedBranches = one("in") \o one("out")
  BY DEF SeedBranches
<1> HIDE DEF one
<1> DEFINE sb == SeedBranches
<1>3. one("in") \in Seq(S) /\ one("out") \in Seq(S) /\ sb = one("in") \o one("out")
  BY <1>1, <1>2
<1> HIDE DEF sb, S
<1>4. sb \in Seq(S)
  BY <1>3
<1>5. \A i \in DOMAIN sb : sb[i] \in S
  BY <1>4
<1>6. S \subseteq Branches /\ \A b \in S : First(b)
  BY DEF S
<1>7. sb \in Seq(Branches)
  BY <1>4, <1>6
<1> QED  BY <1>5, <1>6, <1>7 DEF sb

LEMMA MergeType ==
    ASSUME NEW want \in Nat \X Nat, NEW have \in Nat \X Nat
    PROVE  Cov!Merge(want, have) \in Nat \X Nat
BY DEF Cov!Merge, Cov!Lesser, Cov!Greater

LEMMA TypeSync ==
    ASSUME TypeOK, NEW a \in Addresses, ClientSync(a) \/ SyncEnds(a)
    PROVE  TypeOK'
<1>1. CASE ClientSync(a)
  <2>1. PICK range \in ClientWindows : Ask(a, range)
    BY <1>1 DEF ClientSync
  <2>2. range \in Nat \X Nat
    BY ConstantsAssumption
  <2>3. status' \in [Addresses -> States] /\ wanted' \in [Addresses -> Nat \X Nat]
    BY <2>1, <2>2, AskType
  <2>4. syncs' \in Nat
    BY <1>1 DEF ClientSync, TypeOK
  <2> QED  BY <1>1, <2>3, <2>4 DEF ClientSync, TypeOK, world, manager, result, round, walk
<1>2. CASE SyncEnds(a)
  <2>1. wanted' \in [Addresses -> Nat \X Nat] /\ wanted \in [Addresses -> Nat \X Nat]
    BY <1>2 DEF SyncEnds, TypeOK, Cov!NoCoverage
  <2>2. status' \in [Addresses -> States]
    BY <1>2 DEF SyncEnds, TypeOK, States
  <2>3. windows' \in [Addresses -> Nat \X Nat]
    <3>1. Cov!Merge(wanted[a], windows[a]) \in Nat \X Nat /\ windows \in [Addresses -> Nat \X Nat]
      BY <2>1, MergeType DEF TypeOK
    <3>2. windows' = windows \/ windows' = [windows EXCEPT ![a] = Cov!Merge(wanted[a], windows[a])]
      BY <1>2 DEF SyncEnds
    <3> QED  BY <3>1, <3>2
  <2>4. stored' \subseteq facts /\ pc' \in Places
    BY <1>2 DEF SyncEnds, TypeOK, Places
  <2> QED  BY <1>2, <2>1, <2>2, <2>3, <2>4 DEF SyncEnds, TypeOK, world, manager, result, round, walk
<1> QED  BY <1>1, <1>2

LEMMA TypeRest ==
    ASSUME TypeOK, \/ Start \/ Expanded \/ EndRound \/ Finish \/ UNCHANGED vars
                   \/ \E tx \in Asked : Analyse(tx) \/ AnalysisFails
    PROVE  TypeOK'
<1>0. NodesOK(nodes)
  BY DEF TypeOK, NodesOK, Node
<1>1. CASE Start
  <2>1. branches' \in Seq(Branches) /\ frontier' = DOMAIN branches'
    BY <1>1, SeedBranchesAre DEF Start
  <2>2. nodes' \in [DOMAIN nodes' -> [terminal : BOOLEAN, why : Reasons]] /\ DOMAIN nodes' \subseteq Addresses
    <3>1. SeedStop \in Reasons
      BY DEF SeedStop, Reasons
    <3> QED  BY <1>1, <3>1, ConstantsAssumption DEF Start
  <2>3. edges' = <<>> /\ todo' = <<>> /\ cur' = 0 /\ budget' = None
    BY <1>1 DEF Start
  <2>4. /\ edges' \in Seq(Edges) /\ \A j \in DOMAIN edges' : edges'[j].parent \in DOMAIN branches' \cup {0}
        /\ todo' \in Seq(Fact) /\ cur' \in DOMAIN branches' \cup {0} /\ budget' \in Nat \cup {None}
    BY <2>3
  <2>5. data' \in {"synced", "partial"} /\ pc' \in Places /\ frontier' \cup next' \subseteq DOMAIN branches'
    BY <1>1, <2>1 DEF Start, Places
  <2> QED  BY <1>1, <2>1, <2>2, <2>3, <2>4, <2>5 DEF Start, TypeOK, world, store, manager
<1>2. CASE Expanded
  BY <1>2 DEF Expanded, TypeOK, Places, world, store, manager, result, round, walk
<1>3. CASE EndRound
  <2> DEFINE idle == {a \in processed \ expanded : ~nodes[a].terminal}
  <2> DEFINE marked == SetTerminal(nodes, idle, "no_matching_transfers")
  <2>1. "no_matching_transfers" \in Reasons /\ "node_limit" \in Reasons
    BY DEF Reasons
  <2>2. NodesOK(marked)
    BY <1>0, <2>1, SetTerminalIs
  <2>3. nodes' = marked \/ nodes' = SetTerminal(marked, {branches[i].addr : i \in next}, "node_limit")
    BY <1>3 DEF EndRound
  <2>4. NodesOK(nodes')
    BY <2>1, <2>2, <2>3, SetTerminalIs
  <2> QED  BY <1>3, <2>4 DEF EndRound, TypeOK, NodesOK, Node, Places, world, store, manager, walk
<1>4. CASE Finish
  BY <1>4 DEF Finish, TypeOK, Places, world, store, manager, result, round, walk
<1>5. CASE UNCHANGED vars
  BY <1>5 DEF vars, TypeOK, world, store, manager, result, round, walk
<1>6. CASE AnalysisFails
  BY <1>6 DEF AnalysisFails, TypeOK, Places, world, store, manager, result, round, walk
<1>7. ASSUME NEW tx, Analyse(tx) PROVE TypeOK'
  <2>1. verdict' \in [{f.tx : f \in facts} -> Verdicts \cup {Plain("unknown")}]
    BY <1>7 DEF Analyse, TypeOK
  <2> QED  BY <1>7, <2>1 DEF Analyse, TypeOK, world, store, manager, result, round, walk
<1> QED  BY <1>1, <1>2, <1>3, <1>4, <1>5, <1>6, <1>7

-----------------------------------------------------------------------------
(* What an extension adds.                                                 *)

LEMMA EdgesAre ==
    ASSUME TypeOK
    PROVE  /\ DOMAIN edges = 1 .. Len(edges) /\ Len(edges) \in Nat
           /\ \A j \in DOMAIN edges : /\ edges[j].path \in Paths /\ edges[j].amount \in Nat \ {0}
                                      /\ edges[j].tx \in Nat /\ edges[j].dir \in {"in", "out"}
                                      /\ edges[j].asset \in Assets
                                      /\ edges[j].parent \in DOMAIN branches \cup {0}
<1>1. edges \in Seq(Edges) /\ \A j \in DOMAIN edges : edges[j].parent \in DOMAIN branches \cup {0}
  BY DEF TypeOK
<1>2. \A e \in Edges : /\ e.path \in Paths /\ e.amount \in Nat \ {0} /\ e.tx \in Nat
                        /\ e.dir \in {"in", "out"} /\ e.asset \in Assets
  BY DEF Edges
<1>3. \A j \in DOMAIN edges : edges[j] \in Edges
  BY <1>1
<1> QED  BY <1>1, <1>2, <1>3

\* The path of an anchor is the path of one of its edges.
LEMMA AnchorPathIs ==
    ASSUME TypeOK, NEW a, NEW d, NEW asset \in Anchored(a, d)
    PROVE  AnchorPath(a, d, asset) \in Paths
<1> DEFINE I == Entering(a, d, asset)
<1> DEFINE L == {Len(edges[i].path) : i \in I}
<1>1. I # {} /\ I \subseteq DOMAIN edges /\ I \subseteq Nat
  <2>1. edges \in Seq(Edges)
    BY DEF TypeOK
  <2>2. I \subseteq DOMAIN edges
    BY DEF Entering
  <2>3. I # {}
    BY DEF Anchored
  <2> QED  BY <2>1, <2>2, <2>3
<1>2. \A i \in DOMAIN edges : edges[i].path \in Paths
  BY EdgesAre
<1>3. \A i \in I : Len(edges[i].path) \in Nat
  BY <1>1, <1>2 DEF Paths
<1>4. AnchorPath(a, d, asset) =
        edges[CHOOSE i \in I : \A j \in I : \/ Len(edges[i].path) < Len(edges[j].path)
                                            \/ Len(edges[i].path) = Len(edges[j].path) /\ i <= j].path
  BY DEF AnchorPath
<1> HIDE DEF I
<1>5. PICK n \in L : \A k \in L : n <= k
  <2>1. L \subseteq Nat /\ L # {}
    BY <1>1, <1>3
  <2> QED  BY <2>1, LeastOf
<1>6. PICK i \in {j \in I : Len(edges[j].path) = n} : \A j \in {j \in I : Len(edges[j].path) = n} : i <= j
  <2> DEFINE J == {j \in I : Len(edges[j].path) = n}
  <2>1. J \subseteq Nat /\ J # {}
    BY <1>1, <1>5
  <2> HIDE DEF J
  <2>2. \E x \in J : \A y \in J : x <= y
    BY <2>1, LeastOf
  <2> QED  BY <2>2 DEF J
<1>7. \A j \in I : \/ Len(edges[i].path) < Len(edges[j].path)
                   \/ Len(edges[i].path) = Len(edges[j].path) /\ i <= j
  <2> SUFFICES ASSUME NEW j \in I, Len(edges[i].path) # Len(edges[j].path)
               PROVE  Len(edges[i].path) < Len(edges[j].path)
    BY <1>6
  <2>1. Len(edges[i].path) <= Len(edges[j].path) /\ Len(edges[j].path) \in Nat /\ Len(edges[i].path) \in Nat
    BY <1>3, <1>5, <1>6
  <2> QED  BY <2>1
<1>8. \E k \in I : AnchorPath(a, d, asset) = edges[k].path
  BY <1>4, <1>6, <1>7
<1> QED  BY <1>1, <1>2, <1>8

\* A payment is a number.
LEMMA PaymentIs ==
    ASSUME TypeOK, NEW order, NEW n \in Nat, order \in [1 .. n -> Fact], NEW i \in 1 .. n, NEW a, NEW d
    PROVE  Payment(order, i, a, d) \in Nat
<1> DEFINE f == order[i]
<1> DEFINE before == [j \in 1 .. (i - 1) |-> IF order[j].asset = f.asset THEN order[j].amount ELSE 0]
<1> DEFINE paid == [j \in DOMAIN edges |-> IF j \in Entering(a, d, f.asset) THEN edges[j].amount ELSE 0]
<1>1. f \in Fact /\ f.amount \in Nat
  BY DEF Fact
<1>2. before \in Seq(Nat)
  <2>1. \A j \in 1 .. (i - 1) : order[j].amount \in Nat
    BY DEF Fact
  <2>2. i - 1 \in Nat /\ \A j \in 1 .. (i - 1) : (IF order[j].asset = f.asset THEN order[j].amount ELSE 0) \in Nat
    BY <2>1
  <2> QED  BY <2>2
<1>3. paid \in Seq(Nat)
  <2>1. \A j \in DOMAIN edges : edges[j].amount \in Nat
    BY EdgesAre
  <2>2. DOMAIN edges = 1 .. Len(edges) /\ Len(edges) \in Nat
    BY DEF TypeOK
  <2>3. \A j \in DOMAIN edges : (IF j \in Entering(a, d, f.asset) THEN edges[j].amount ELSE 0) \in Nat
    BY <2>1
  <2> QED  BY <2>2, <2>3
<1>4. Sum(before) \in Nat /\ Sum(paid) \in Nat
  BY <1>2, <1>3, SumType
<1> DEFINE x == Sum(before)
<1> DEFINE y == Sum(paid)
<1>5. Payment(order, i, a, d) = Cov!Lesser(f.amount, Cov!Greater(y - x, 0))
  BY DEF Payment, Arrived
<1>6. x \in Nat /\ y \in Nat
  BY <1>4
<1> HIDE DEF x, y, f
<1> QED  BY <1>1, <1>5, <1>6 DEF Cov!Lesser, Cov!Greater

\* The hops that are kept are edges of transfers that leave (or enter) the address.
LEMMA HopsAre ==
    ASSUME TypeOK, NEW a, NEW d \in {"in", "out"}, NEW order \in NearestFirst(Payable(a, d), d),
           NEW hops, hops = [i \in DOMAIN order |-> Hop(order[i], Payment(order, i, a, d), a, d)],
           NEW I, I \subseteq {i \in DOMAIN order : Payment(order, i, a, d) > 0},
           NEW kept \in Keeping(hops, I)
    PROVE  /\ kept \in Seq(Edges)
           /\ \A k \in DOMAIN kept :
                  /\ kept[k].parent = 0 /\ Near(kept[k], d) = a /\ kept[k].dir = d
                  /\ \E f \in facts : f.tx = kept[k].tx /\ f.block = kept[k].block
<1> DEFINE S == Payable(a, d)
<1>0. \A f \in S : \E asset \in Open(a, d) : f \in Query(a, d, asset, AnchorBlock(a, d, asset))
  BY DEF Payable
<1>1. \A f \in S : /\ f \in facts /\ f \in Fact /\ Near(f, d) = a
                   /\ AnchorPath(a, d, f.asset) \in Paths
  <2> SUFFICES ASSUME NEW f \in S
               PROVE  /\ f \in facts /\ f \in Fact /\ Near(f, d) = a
                      /\ AnchorPath(a, d, f.asset) \in Paths
    OBVIOUS
  <2>1. PICK asset \in Open(a, d) : f \in Query(a, d, asset, AnchorBlock(a, d, asset))
    BY <1>0
  <2>2. f \in facts /\ f \in Fact /\ asset \in {"all", f.asset}
    <3>1. f \in stored /\ asset \in {"all", f.asset}
      BY <2>1 DEF Query
    <3> QED  BY <3>1, World DEF TypeOK
  <2>3. Near(f, d) = a
    BY <2>1 DEF Query, Near
  <2>4. asset \in Anchored(a, d)
    BY <2>1 DEF Open
  <2>5. asset # "all"
    <3>1. PICK j \in DOMAIN edges : edges[j].asset = asset
      BY <2>4 DEF Anchored
    <3> QED  BY <3>1, EdgesAre DEF Assets
  <2>6. AnchorPath(a, d, f.asset) \in Paths
    BY <2>2, <2>4, <2>5, AnchorPathIs
  <2> QED  BY <2>2, <2>3, <2>6
<1> HIDE DEF S
<1>2. S \subseteq facts /\ IsFiniteSet(S)
  <2>1. IsFiniteSet(facts)
    BY World
  <2> QED  BY <1>1, <2>1, FS_Subset
<1>3. order \in Seq(S) /\ order \in NearestFirst(S, d)
  BY <1>2, NearestFirstIs DEF S
<1> DEFINE n == Len(order)
<1>4. n \in Nat /\ DOMAIN order = 1 .. n /\ order \in [1 .. n -> Fact] /\ \A i \in 1 .. n : order[i] \in S
  BY <1>1, <1>3
<1>5. \A i \in 1 .. n : Payment(order, i, a, d) \in Nat
  <2> HIDE DEF n
  <2> QED  BY <1>4, PaymentIs
<1> DEFINE Loose == [tx : Nat, from : Addresses, to : Addresses, asset : Assets,
           amount : Nat, block : 1 .. Through, dir : {"in", "out"}, parent : Nat, path : Paths]
<1>6. \A i \in 1 .. n :
          /\ hops[i] \in Loose /\ hops[i].amount = Payment(order, i, a, d)
          /\ hops[i].parent = 0 /\ Near(hops[i], d) = a /\ hops[i].dir = d
          /\ \E f \in facts : f.tx = hops[i].tx /\ f.block = hops[i].block
  <2> SUFFICES ASSUME NEW i \in 1 .. n
               PROVE  /\ hops[i] \in Loose /\ hops[i].amount = Payment(order, i, a, d)
                      /\ hops[i].parent = 0 /\ Near(hops[i], d) = a /\ hops[i].dir = d
                      /\ \E f \in facts : f.tx = hops[i].tx /\ f.block = hops[i].block
    OBVIOUS
  <2> DEFINE f == order[i]
  <2> DEFINE p == Payment(order, i, a, d)
  <2>1. hops[i] = Hop(f, p, a, d) /\ p \in Nat
    BY <1>4, <1>5
  <2>2. f \in facts /\ f \in Fact /\ Near(f, d) = a /\ AnchorPath(a, d, f.asset) \in Paths
    BY <1>1, <1>4
  <2> HIDE DEF f, p
  <2>3. Peer(f, d) \in Addresses
    BY <2>2 DEF Peer, Fact
  <2>4. Append(AnchorPath(a, d, f.asset), Peer(f, d)) \in Paths
    BY <2>2, <2>3 DEF Paths
  <2>5. hops[i] \in Loose /\ hops[i].amount = p /\ hops[i].parent = 0 /\ hops[i].dir = d
    BY <2>1, <2>2, <2>4 DEF Hop, Fact
  <2>6. Near(hops[i], d) = a /\ hops[i].tx = f.tx /\ hops[i].block = f.block
    BY <2>1, <2>2 DEF Hop, Near
  <2> QED  BY <2>2, <2>5, <2>6 DEF p
<1> HIDE DEF n, Loose
<1>7. hops \in Seq(Loose) /\ I \subseteq DOMAIN hops
  BY <1>4, <1>6
<1>8. kept \in Seq(Loose) /\ \A k \in DOMAIN kept : \E i \in I : kept[k] = hops[i]
  BY <1>7, KeepingIs
<1>9. \A k \in DOMAIN kept :
          /\ kept[k] \in Loose /\ kept[k].amount > 0
          /\ kept[k].parent = 0 /\ Near(kept[k], d) = a /\ kept[k].dir = d
          /\ \E f \in facts : f.tx = kept[k].tx /\ f.block = kept[k].block
  <2> TAKE k \in DOMAIN kept
  <2>1. PICK i \in I : kept[k] = hops[i]
    BY <1>8
  <2>2. i \in 1 .. n /\ Payment(order, i, a, d) > 0
    BY <1>4
  <2> QED  BY <1>6, <2>1, <2>2
<1>10. \A e \in Loose : e.amount > 0 => e \in Edges
  BY DEF Loose, Edges
<1>11. kept \in Seq(Edges)
  BY <1>8, <1>9, <1>10
<1> QED  BY <1>9, <1>11

\* A transaction that the chain or the graph has, in its block.
Datable(e) ==
    \/ \E f \in facts : f.tx = e.tx /\ f.block = e.block
    \/ \E j \in DOMAIN edges : edges[j].tx = e.tx /\ edges[j].block = e.block

\* What an extension leaves of the nodes, the edges and the accounts.
Added(a, d, fresh) ==
    /\ edges' = edges \o fresh
    /\ \A k \in DOMAIN fresh :
           /\ fresh[k].parent = 0 /\ fresh[k].dir = d
           /\ Near(fresh[k], d) = a /\ Peer(fresh[k], d) \in DOMAIN nodes'
           /\ Datable(fresh[k])
Booked(kept) == money' = Consume(AppendUnique(money, MoneyOf(kept))) /\ \A k \in DOMAIN kept : Datable(kept[k])
Extended(a, d) ==
    /\ NodesOK(nodes') /\ Grows(nodes, nodes')
    /\ \E fresh \in Seq(Edges) : Added(a, d, fresh)
    /\ \E kept \in Seq(Edges) : Booked(kept)
    /\ data' \in {data, "partial"}
    /\ data' = "synced" => \A p \in DOMAIN nodes' :
           \/ nodes'[p].why \notin Cuts
           \/ p \in DOMAIN nodes /\ nodes'[p].why = nodes[p].why

\* Merging the hops that leave a.
LEMMA Merging ==
    ASSUME TypeOK, NEW a, NEW d, NEW kept \in Seq(Edges), MergeResults(kept),
           \A k \in DOMAIN kept :
               /\ kept[k].parent = 0 /\ Near(kept[k], d) = a /\ kept[k].dir = d
               /\ Peer(kept[k], d) \in DOMAIN nodes' /\ Datable(kept[k])
    PROVE  (\E fresh \in Seq(Edges) : Added(a, d, fresh)) /\ Booked(kept)
<1>1. PICK fresh \in Keeping(kept, Fresh(kept)) : edges' = edges \o fresh
  BY DEF MergeResults
<1>2. /\ fresh \in Seq(Edges)
      /\ \A k \in DOMAIN fresh : \E i \in DOMAIN kept : fresh[k] = kept[i]
  <2>1. Fresh(kept) \subseteq DOMAIN kept
    BY DEF Fresh
  <2> QED  BY <2>1, KeepingIs
<1>3. \A k \in DOMAIN fresh :
            /\ fresh[k].parent = 0 /\ fresh[k].dir = d
            /\ Near(fresh[k], d) = a /\ Peer(fresh[k], d) \in DOMAIN nodes'
            /\ Datable(fresh[k])
  BY <1>2
<1>4. Added(a, d, fresh)
  BY <1>1, <1>3 DEF Added
<1>5. Booked(kept)
  BY DEF Booked, MergeResults
<1> QED  BY <1>2, <1>4, <1>5

\* One hop on from an address, in three parts: the hops that are merged, the nodes
\* with their marks, and the status.
OwnMark(a, d, kept) ==
    IF Open(a, d) # Anchored(a, d) THEN SetTerminal(nodes, {a}, "high_frequency")
    ELSE IF kept = <<>> THEN SetTerminal(nodes, {a}, "no_matching_transfers") ELSE nodes
PeersOf(d, kept) == {Peer(kept[i], d) : i \in DOMAIN kept}
Lacks(d, kept, p) ==
    \E i \in DOMAIN kept :
        /\ Peer(kept[i], d) = p /\ kind[p] # "wallet" /\ ~High(p)
        /\ ~Covered(p, IF d = "out" THEN <<kept[i].block, Through>> ELSE <<1, kept[i].block>>)
PeerWhy(d, kept, p) ==
    IF kind[p] = "wallet" THEN "terminal" ELSE IF Lacks(d, kept, p) THEN "missing_data" ELSE ""
OneHopLeaves(a, d, kept) ==
    /\ nodes' = [p \in DOMAIN nodes \cup PeersOf(d, kept) |->
                   IF p \in PeersOf(d, kept) /\ (PeerWhy(d, kept, p) # "" \/ High(p))
                   THEN [terminal |-> TRUE, why |-> PeerWhy(d, kept, p)]
                   ELSE IF p \in DOMAIN nodes THEN OwnMark(a, d, kept)[p] ELSE [terminal |-> FALSE, why |-> ""]]
    /\ data' = IF Open(a, d) # Anchored(a, d) \/ \E p \in PeersOf(d, kept) : Lacks(d, kept, p)
               THEN "partial" ELSE data
    /\ MergeResults(kept)

Leaving(a, d, kept) ==
    \A k \in DOMAIN kept :
        /\ kept[k].parent = 0 /\ Near(kept[k], d) = a /\ kept[k].dir = d
        /\ \E f \in facts : f.tx = kept[k].tx /\ f.block = kept[k].block

LEMMA OneHopIs ==
    ASSUME TypeOK, NEW a, NEW d \in {"in", "out"}, ExtendOneHop(a, d)
    PROVE  \E kept \in Seq(Edges) : OneHopLeaves(a, d, kept) /\ Leaving(a, d, kept)
<1>1. PICK order \in NearestFirst(Payable(a, d), d) :
          \E kept \in Keeping([i \in DOMAIN order |-> Hop(order[i], Payment(order, i, a, d), a, d)],
                              {i \in DOMAIN order : Payment(order, i, a, d) > 0
                                                       /\ Enough(order[i], Payment(order, i, a, d))}) :
              OneHopLeaves(a, d, kept)
  <2>1. \A order : \A i \in DOMAIN order :
          [j \in DOMAIN order |-> Payment(order, j, a, d)][i] = Payment(order, i, a, d)
    OBVIOUS
  <2> QED  BY <2>1 DEF ExtendOneHop, OneHopLeaves, OwnMark, PeersOf, PeerWhy, Lacks
<1> DEFINE hops == [i \in DOMAIN order |-> Hop(order[i], Payment(order, i, a, d), a, d)]
<1> DEFINE I == {i \in DOMAIN order : Payment(order, i, a, d) > 0 /\ Enough(order[i], Payment(order, i, a, d))}
<1>2. PICK kept \in Keeping(hops, I) : OneHopLeaves(a, d, kept)
  BY <1>1
<1>3. I \subseteq {i \in DOMAIN order : Payment(order, i, a, d) > 0}
  OBVIOUS
<1>4. hops = [i \in DOMAIN order |-> Hop(order[i], Payment(order, i, a, d), a, d)]
  OBVIOUS
<1> HIDE DEF I, hops
<1>5. /\ kept \in Seq(Edges)
      /\ \A k \in DOMAIN kept :
             /\ kept[k].parent = 0 /\ Near(kept[k], d) = a /\ kept[k].dir = d
             /\ \E f \in facts : f.tx = kept[k].tx /\ f.block = kept[k].block
  BY <1>3, <1>4, HopsAre
<1> QED  BY <1>2, <1>5 DEF Leaving

LEMMA OwnMarkIs ==
    ASSUME TypeOK, NEW a, NEW d, NEW kept
    PROVE  /\ NodesOK(OwnMark(a, d, kept)) /\ DOMAIN OwnMark(a, d, kept) = DOMAIN nodes
           /\ Grows(nodes, OwnMark(a, d, kept))
           /\ Open(a, d) = Anchored(a, d) =>
                  \A p \in DOMAIN nodes : OwnMark(a, d, kept)[p].why \in {nodes[p].why, "no_matching_transfers"}
<1> DEFINE own == OwnMark(a, d, kept)
<1>1. NodesOK(nodes)
  BY DEF TypeOK, NodesOK, Node
<1>2. "high_frequency" \in Reasons /\ "no_matching_transfers" \in Reasons
  BY DEF Reasons
<1>3. CASE Open(a, d) # Anchored(a, d)
  <2>1. own = SetTerminal(nodes, {a}, "high_frequency")
    BY <1>3 DEF OwnMark
  <2> QED  BY <1>1, <1>2, <1>3, <2>1, SetTerminalIs
<1>4. CASE Open(a, d) = Anchored(a, d) /\ kept = <<>>
  <2>1. own = SetTerminal(nodes, {a}, "no_matching_transfers")
    BY <1>4 DEF OwnMark
  <2>2. \A p \in DOMAIN nodes : own[p].why \in {nodes[p].why, "no_matching_transfers"}
    BY <2>1 DEF SetTerminal
  <2> QED  BY <1>1, <1>2, <2>1, <2>2, SetTerminalIs
<1>5. CASE Open(a, d) = Anchored(a, d) /\ kept # <<>>
  <2>1. own = nodes
    BY <1>5 DEF OwnMark
  <2> QED  BY <1>1, <2>1 DEF Grows
<1> QED  BY <1>3, <1>4, <1>5

LEMMA OneHopAdds ==
    ASSUME TypeOK, NEW a, NEW d \in {"in", "out"}, ExtendOneHop(a, d)
    PROVE  Extended(a, d)
<1>1. PICK kept \in Seq(Edges) : OneHopLeaves(a, d, kept) /\ Leaving(a, d, kept)
  BY OneHopIs
<1> DEFINE peers == PeersOf(d, kept)
<1> DEFINE why(p) == PeerWhy(d, kept, p)
<1> DEFINE own == OwnMark(a, d, kept)
<1> DEFINE whole == Open(a, d) = Anchored(a, d)
<1>2. /\ nodes' = [p \in DOMAIN nodes \cup peers |->
               IF p \in peers /\ (why(p) # "" \/ High(p)) THEN [terminal |-> TRUE, why |-> why(p)]
               ELSE IF p \in DOMAIN nodes THEN own[p] ELSE [terminal |-> FALSE, why |-> ""]]
      /\ data' = IF ~whole \/ \E p \in peers : Lacks(d, kept, p) THEN "partial" ELSE data
      /\ MergeResults(kept)
  BY <1>1 DEF OneHopLeaves
<1>3. \A p : /\ why(p) \in {"terminal", "missing_data", ""} /\ why(p) \in Reasons
             /\ (why(p) = "missing_data" => Lacks(d, kept, p))
  BY DEF PeerWhy, Reasons
<1>4. peers \subseteq Addresses /\ \A i \in DOMAIN kept : Peer(kept[i], d) \in peers
  <2>1. \A i \in DOMAIN kept : kept[i] \in Edges
    BY <1>1
  <2>2. \A e \in Edges : Peer(e, d) \in Addresses
    BY DEF Edges, Peer
  <2> QED  BY <2>1, <2>2 DEF PeersOf
<1>5. /\ NodesOK(own) /\ DOMAIN own = DOMAIN nodes /\ Grows(nodes, own)
      /\ whole => \A p \in DOMAIN nodes : own[p].why \in {nodes[p].why, "no_matching_transfers"}
  BY OwnMarkIs
<1> HIDE DEF peers, why, own, whole
<1>6. NodesOK(nodes') /\ Grows(nodes, nodes') /\ DOMAIN nodes' = DOMAIN nodes \cup peers
  <2>1. "" \in Reasons
    BY DEF Reasons
  <2>2. NodesOK(nodes') /\ DOMAIN nodes' = DOMAIN nodes \cup peers
    <3>1. NodesOK(nodes)
      BY DEF TypeOK, NodesOK, Node
    <3> QED  BY <1>2, <1>3, <1>4, <1>5, <2>1, <3>1 DEF NodesOK, Node
  <2>3. Grows(nodes, nodes')
    BY <1>2, <1>5 DEF Grows
  <2> QED  BY <2>2, <2>3
<1>7. ASSUME data' = "synced", NEW p \in DOMAIN nodes', nodes'[p].why \in Cuts
      PROVE  p \in DOMAIN nodes /\ nodes'[p].why = nodes[p].why
  <2>1. whole /\ \A q \in peers : ~Lacks(d, kept, q)
    BY <1>2, <1>7
  <2>2. p \in DOMAIN nodes \cup peers
    BY <1>6
  <2>3. nodes'[p].why \in {"node_limit", "missing_data", "high_frequency"}
    BY <1>7 DEF Cuts
  <2>4. ~(p \in peers /\ (why(p) # "" \/ High(p)))
    BY <1>2, <1>3, <2>1, <2>2, <2>3
  <2>5. p \in DOMAIN nodes /\ nodes'[p] = own[p]
    BY <1>2, <2>2, <2>3, <2>4
  <2> QED  BY <1>5, <2>1, <2>3, <2>5
<1>8. \A k \in DOMAIN kept :
         /\ kept[k].parent = 0 /\ Near(kept[k], d) = a /\ kept[k].dir = d
         /\ Peer(kept[k], d) \in DOMAIN nodes' /\ Datable(kept[k])
  BY <1>1, <1>4, <1>6 DEF Datable, Leaving
<1>9. (\E fresh \in Seq(Edges) : Added(a, d, fresh)) /\ Booked(kept)
  BY <1>1, <1>2, <1>8, Merging
<1>10. data' \in {data, "partial"}
  BY <1>2
<1> QED  BY <1>1, <1>6, <1>7, <1>9, <1>10 DEF Extended

\* What a router sends on is an edge from it, in the transaction of the payment.
LEMMA SentOnIs ==
    ASSUME TypeOK, NEW e \in Edges, Routes(e)
    PROVE  /\ SentOn(e) \in Edges /\ SentOn(e).from = e.to /\ SentOn(e).dir = "out" /\ SentOn(e).parent = 0
           /\ SentOn(e).tx = e.tx /\ SentOn(e).block = e.block /\ SentOn(e).to \in Addresses
<1> DEFINE w == Swapped(e.tx)
<1>1. w \in Output /\ w.asset = e.asset /\ w.amount = e.amount
  BY SwappedIs DEF Routes
<1>2. w.peer \in Addresses
  BY <1>1 DEF Output
<1>3. SentOn(e) = [tx |-> e.tx, from |-> e.to, to |-> w.peer, asset |-> w.asset, amount |-> w.amount,
                   block |-> e.block, dir |-> "out", parent |-> 0, path |-> Append(e.path, w.peer)]
  BY DEF SentOn
<1> HIDE DEF w
<1>4. Append(e.path, w.peer) \in Paths
  <2>1. e.path \in Seq(Addresses)
    BY DEF Edges, Paths
  <2> QED  BY <1>2, <2>1 DEF Paths
<1> QED  BY <1>1, <1>2, <1>3, <1>4 DEF Edges

\* The router's payments, and what it sends on of them.
RouterLeaves(a, sent) ==
    /\ nodes' = [p \in DOMAIN nodes \cup PeersOf("out", sent) |->
                   IF p \in DOMAIN nodes
                   THEN (IF sent = <<>> THEN SetTerminal(nodes, {a}, "ambiguous_conversion") ELSE nodes)[p]
                   ELSE [terminal |-> FALSE, why |-> ""]]
    /\ MergeResults(sent)
LEMMA RouterIs ==
    ASSUME TypeOK, NEW a, ExtendRouter(a)
    PROVE  \E sent \in Seq(Edges) :
               /\ RouterLeaves(a, sent)
               /\ \A k \in DOMAIN sent :
                      /\ sent[k].parent = 0 /\ Near(sent[k], "out") = a /\ sent[k].dir = "out"
                      /\ Datable(sent[k])
<1> DEFINE I == {i \in DOMAIN edges : EndsAt(edges[i], a) /\ Routes(edges[i])}
<1>1. PICK paid \in Keeping(edges, I) : RouterLeaves(a, [k \in DOMAIN paid |-> SentOn(paid[k])])
  <2>1. I = {i \in {i \in DOMAIN edges : EndsAt(edges[i], a)} : Routes(edges[i])}
    OBVIOUS
  <2>2. \A s : PeersOf("out", s) = {s[k].to : k \in DOMAIN s}
    BY DEF PeersOf, Peer
  <2> HIDE DEF I
  <2> QED  BY <2>1, <2>2 DEF ExtendRouter, RouterLeaves
<1>2. edges \in Seq(Edges) /\ I \subseteq DOMAIN edges
  BY DEF TypeOK
<1>3. paid \in Seq(Edges) /\ \A k \in DOMAIN paid : \E i \in I : paid[k] = edges[i]
  BY <1>2, KeepingIs
<1>4. \A k \in DOMAIN paid : /\ paid[k] \in Edges /\ Routes(paid[k]) /\ paid[k].to = a
                             /\ \E j \in DOMAIN edges : edges[j].tx = paid[k].tx /\ edges[j].block = paid[k].block
  <2> TAKE k \in DOMAIN paid
  <2>1. PICK i \in I : paid[k] = edges[i]
    BY <1>3
  <2>2. i \in DOMAIN edges /\ Routes(edges[i]) /\ edges[i].to = a
    BY DEF EndsAt
  <2> QED  BY <1>3, <2>1, <2>2
<1> DEFINE sent == [k \in DOMAIN paid |-> SentOn(paid[k])]
<1>5. \A k \in DOMAIN paid :
          /\ sent[k] \in Edges /\ sent[k].parent = 0 /\ sent[k].from = a /\ sent[k].dir = "out"
          /\ Datable(sent[k])
  <2> TAKE k \in DOMAIN paid
  <2>1. sent[k] = SentOn(paid[k])
    OBVIOUS
  <2> HIDE DEF sent
  <2> QED  BY <1>4, <2>1, SentOnIs DEF Datable
<1>6. sent \in Seq(Edges) /\ DOMAIN sent = DOMAIN paid
  <2>1. Len(paid) \in Nat /\ DOMAIN paid = 1 .. Len(paid)
    BY <1>3
  <2> QED  BY <1>5, <2>1
<1>7. RouterLeaves(a, sent)
  BY <1>1 DEF RouterLeaves
<1> HIDE DEF sent
<1> QED  BY <1>5, <1>6, <1>7 DEF Near

LEMMA RouterAdds ==
    ASSUME TypeOK, NEW a, ExtendRouter(a)
    PROVE  Extended(a, "out")
<1>1. PICK sent \in Seq(Edges) :
               /\ RouterLeaves(a, sent)
               /\ \A k \in DOMAIN sent :
                      /\ sent[k].parent = 0 /\ Near(sent[k], "out") = a /\ sent[k].dir = "out"
                      /\ Datable(sent[k])
  BY RouterIs
<1> DEFINE peers == PeersOf("out", sent)
<1> DEFINE own == IF sent = <<>> THEN SetTerminal(nodes, {a}, "ambiguous_conversion") ELSE nodes
<1>2. /\ nodes' = [p \in DOMAIN nodes \cup peers |->
                   IF p \in DOMAIN nodes THEN own[p] ELSE [terminal |-> FALSE, why |-> ""]]
      /\ MergeResults(sent)
  BY <1>1 DEF RouterLeaves
<1>3. NodesOK(nodes) /\ "ambiguous_conversion" \in Reasons /\ "" \in Reasons
  BY DEF TypeOK, NodesOK, Node, Reasons
<1>4. /\ NodesOK(own) /\ DOMAIN own = DOMAIN nodes /\ Grows(nodes, own)
      /\ \A p \in DOMAIN nodes : own[p].why \in {nodes[p].why, "ambiguous_conversion"}
  <2>1. CASE sent = <<>>
    <3>1. own = SetTerminal(nodes, {a}, "ambiguous_conversion")
      BY <2>1
    <3>2. \A p \in DOMAIN nodes : own[p].why \in {nodes[p].why, "ambiguous_conversion"}
      BY <3>1 DEF SetTerminal
    <3> QED  BY <1>3, <3>1, <3>2, SetTerminalIs
  <2>2. CASE sent # <<>>
    <3>1. own = nodes
      BY <2>2
    <3> QED  BY <1>3, <3>1 DEF Grows
  <2> QED  BY <2>1, <2>2
<1>5. peers \subseteq Addresses /\ \A i \in DOMAIN sent : Peer(sent[i], "out") \in peers
  <2>1. \A i \in DOMAIN sent : sent[i] \in Edges
    BY <1>1
  <2>2. \A e \in Edges : Peer(e, "out") \in Addresses
    BY DEF Edges, Peer
  <2> QED  BY <2>1, <2>2 DEF PeersOf
<1> HIDE DEF peers, own
<1>6. NodesOK(nodes') /\ Grows(nodes, nodes') /\ DOMAIN nodes' = DOMAIN nodes \cup peers
  <2>1. NodesOK(nodes') /\ DOMAIN nodes' = DOMAIN nodes \cup peers
    BY <1>2, <1>3, <1>4, <1>5 DEF NodesOK, Node
  <2>2. Grows(nodes, nodes')
    BY <1>2, <1>4 DEF Grows
  <2> QED  BY <2>1, <2>2
<1>7. data' = data
  BY DEF ExtendRouter
<1>8. ASSUME NEW p \in DOMAIN nodes', nodes'[p].why \in Cuts
      PROVE  p \in DOMAIN nodes /\ nodes'[p].why = nodes[p].why
  <2>1. nodes'[p].why \in {"node_limit", "missing_data", "high_frequency"}
    BY <1>8 DEF Cuts
  <2>2. p \in DOMAIN nodes /\ nodes'[p] = own[p]
    BY <1>2, <1>6, <2>1
  <2> QED  BY <1>4, <2>1, <2>2
<1>9. \A k \in DOMAIN sent :
         /\ sent[k].parent = 0 /\ Near(sent[k], "out") = a /\ sent[k].dir = "out"
         /\ Peer(sent[k], "out") \in DOMAIN nodes' /\ Datable(sent[k])
  BY <1>1, <1>5, <1>6
<1>10. (\E fresh \in Seq(Edges) : Added(a, "out", fresh)) /\ Booked(sent)
  BY <1>1, <1>2, <1>9, Merging
<1> QED  BY <1>1, <1>6, <1>7, <1>8, <1>10 DEF Extended

LEMMA Extension ==
    ASSUME TypeOK, NEW a, NEW d \in {"in", "out"}, Extend(a, d)
    PROVE  pc = "done" /\ a \in DOMAIN nodes /\ Extended(a, d)
<1>1. CASE kind[a] = "router" /\ d = "out"
  BY <1>1, RouterAdds DEF Extend
<1>2. CASE ~(kind[a] = "router" /\ d = "out")
  BY <1>2, OneHopAdds DEF Extend
<1> QED  BY <1>1, <1>2 DEF Extend

\* The edges of a graph have dates, and so what is added has.
LEMMA DatableIs ==
    ASSUME TypeOK, EdgesHold, NEW e, Datable(e)
    PROVE  Dated(e.tx, e.block)
<1>1. CASE \E f \in facts : f.tx = e.tx /\ f.block = e.block
  BY <1>1, World DEF Dated
<1>2. CASE \E j \in DOMAIN edges : edges[j].tx = e.tx /\ edges[j].block = e.block
  BY <1>2 DEF EdgesHold
<1> QED  BY <1>1, <1>2 DEF Datable

LEMMA TypeExtend ==
    ASSUME TypeOK, NEW a \in Addresses, NEW d \in {"in", "out"}, Extend(a, d)
    PROVE  TypeOK'
<1>0. PICK fresh \in Seq(Edges) : Added(a, d, fresh)
  BY Extension DEF Extended
<1>1. edges' = edges \o fresh /\ \A k \in DOMAIN fresh : fresh[k].parent = 0
  BY <1>0 DEF Added
<1>2. NodesOK(nodes') /\ data' \in {data, "partial"}
  BY Extension DEF Extended
<1>3. UNCHANGED <<world, store, pc, manager, verdict, btc, branches, round, walk>> /\ extensions' \in Nat
  <2>1. extensions \in Nat
    BY DEF TypeOK
  <2> QED  BY <2>1 DEF Extend
<1>4. edges' \in Seq(Edges) /\ \A j \in DOMAIN edges' : edges'[j].parent \in DOMAIN branches \cup {0}
  <2>1. edges \in Seq(Edges) /\ \A j \in DOMAIN edges : edges[j].parent \in DOMAIN branches \cup {0}
    BY DEF TypeOK
  <2>2. edges' \in Seq(Edges)
    BY <1>1, <2>1
  <2>3. \A j \in DOMAIN edges' : edges'[j].parent \in DOMAIN branches \cup {0}
    <3> SUFFICES ASSUME NEW j \in DOMAIN edges' PROVE edges'[j].parent \in DOMAIN branches \cup {0}
      OBVIOUS
    <3>1. CASE j \in DOMAIN edges
      BY <1>1, <2>1, <3>1
    <3>2. CASE j \notin DOMAIN edges
      <4>1. j - Len(edges) \in DOMAIN fresh /\ edges'[j] = fresh[j - Len(edges)]
        BY <1>1, <2>1, <3>2
      <4> QED  BY <1>1, <4>1
    <3> QED  BY <3>1, <3>2
  <2> QED  BY <2>2, <2>3
<1> QED  BY <1>2, <1>3, <1>4 DEF TypeOK, NodesOK, Node, world, store, manager, round, walk

\* The steps, in the groups that the proofs treat alike.
Takings == \E i \in frontier : Drop(i) \/ TakeQuery(i) \/ TakeConversion(i)
Expansions == Skip \/ Dust \/ NodeLimit \/ Burn
Others == \/ Start \/ Expanded \/ EndRound \/ Finish \/ UNCHANGED vars
          \/ \E tx \in Asked : Analyse(tx) \/ AnalysisFails
LEMMA StepsAre ==
    ASSUME [Next]_vars
    PROVE  \/ Takings \/ Expansions \/ (\E outcome : Follow(outcome)) \/ Miss \/ MissSeed \/ Others
           \/ (\E a \in Addresses : ClientSync(a) \/ SyncEnds(a))
           \/ (\E a \in Addresses, d \in {"in", "out"} : Extend(a, d))
<1>1. CASE UNCHANGED vars
  BY <1>1 DEF Others
<1>2. CASE TraceStep
  BY <1>2 DEF TraceStep, Takings, Expansions, Others
<1> QED  BY <1>1, <1>2 DEF Next

LEMMA TypeStep ==
    ASSUME TypeOK, BranchesHold, WalkHolds, [Next]_vars
    PROVE  TypeOK'
<1>1. CASE Takings
  BY <1>1, TypeTake DEF Takings
<1>2. CASE Expansions
  BY <1>2, TypeExpand DEF Expansions
<1>3. CASE \E outcome : Follow(outcome)
  BY <1>3, TypeFollow
<1>4. CASE Miss \/ MissSeed
  BY <1>4, TypeMiss
<1>5. CASE Others
  BY <1>5, TypeRest DEF Others
<1>6. CASE \E a \in Addresses : ClientSync(a) \/ SyncEnds(a)
  BY <1>6, TypeSync
<1>7. CASE \E a \in Addresses, d \in {"in", "out"} : Extend(a, d)
  BY <1>7, TypeExtend
<1> QED  BY <1>1, <1>2, <1>3, <1>4, <1>5, <1>6, <1>7, StepsAre

-----------------------------------------------------------------------------
(* Address documents.                                                      *)

LEMMA WorldStays == ASSUME [Next]_vars PROVE UNCHANGED world
<1>1. CASE Takings
  BY <1>1 DEF Takings, Drop, TakeQuery, TakeConversion, Walk, StopAt
<1>2. CASE Expansions
  BY <1>2 DEF Expansions, Skip, Dust, NodeLimit, Burn
<1>3. CASE (\E outcome : Follow(outcome)) \/ Miss \/ MissSeed
  BY <1>3 DEF Follow, Miss, MissSeed
<1>4. CASE Others
  BY <1>4 DEF Others, Start, Expanded, EndRound, Finish, vars, Analyse, AnalysisFails
<1>5. CASE \E a \in Addresses : ClientSync(a) \/ SyncEnds(a)
  BY <1>5 DEF ClientSync, SyncEnds
<1>6. CASE \E a \in Addresses, d \in {"in", "out"} : Extend(a, d)
  BY <1>6 DEF Extend
<1> QED  BY <1>1, <1>2, <1>3, <1>4, <1>5, <1>6, StepsAre

\* Only the synchroniser and a stop for a dependency touch the documents.
LEMMA StoreStays ==
    ASSUME Takings \/ Expansions \/ (\E outcome : Follow(outcome)) \/ Others
           \/ (\E a \in Addresses, d \in {"in", "out"} : Extend(a, d))
    PROVE  UNCHANGED store
<1>1. CASE Takings
  BY <1>1 DEF Takings, Drop, TakeQuery, TakeConversion, Walk, StopAt
<1>2. CASE Expansions
  BY <1>2 DEF Expansions, Skip, Dust, NodeLimit, Burn
<1>3. CASE \E outcome : Follow(outcome)
  BY <1>3 DEF Follow
<1>4. CASE Others
  BY <1>4 DEF Others, Start, Expanded, EndRound, Finish, vars, Analyse, AnalysisFails
<1>5. CASE \E a \in Addresses, d \in {"in", "out"} : Extend(a, d)
  BY <1>5 DEF Extend
<1> QED  BY <1>1, <1>2, <1>3, <1>4, <1>5

\* The documents are as they were, or a range is asked for of one that is not high-frequency.
LEMMA StopsAsk ==
    ASSUME TypeOK, WalkHolds, Miss \/ MissSeed
    PROVE  /\ UNCHANGED <<windows, stored>> /\ pc' \in {"wait", "start"}
           /\ \/ UNCHANGED store
              \/ \E a \in Addresses : ~High(a) /\ \E range : Ask(a, range)
<1>1. CASE MissSeed
  BY <1>1, ConstantsAssumption DEF MissSeed, Depend, SeedReady, store
<1>2. CASE Miss
  <2>1. ~High(Other) /\ Other \in Addresses
    BY <1>2, Candidate DEF Miss, Available, Followed, Kept, Considered
  <2>2. Depend(Other, <<Other, B.dir, F.block>>, Required)
    BY <1>2 DEF Miss
  <2>3. /\ UNCHANGED <<windows, stored>> /\ pc' \in {"wait", "start"}
        /\ UNCHANGED store \/ Ask(Other, Required)
    BY <2>2 DEF Depend, store
  <2> QED  BY <2>1, <2>3
<1> QED  BY <1>1, <1>2

\* What is claimed of a merged range was claimed before or lies in the new one.
LEMMA MergeClaims ==
    ASSUME NEW want \in Nat \X Nat, NEW have \in Nat \X Nat, NEW n \in Nat,
           n \in Cov!Claimed(Cov!Merge(want, have))
    PROVE  n \in Cov!Claimed(have) \/ n \in want[1] .. want[2]
BY DEF Cov!Merge, Cov!Claimed, Cov!Valid, Cov!Lesser, Cov!Greater

LEMMA StoreStep ==
    ASSUME TypeOK, WalkHolds, StoreHolds, [Next]_vars
    PROVE  StoreHolds'
<1>0. UNCHANGED <<facts, kind>> /\ UNCHANGED world
  BY WorldStays DEF world
<1>1. CASE UNCHANGED store
  BY <1>0, <1>1 DEF StoreHolds, store, Ends
<1>2. ASSUME NEW a \in Addresses, NEW range, Ask(a, range), UNCHANGED <<windows, stored>>
      PROVE  StoreHolds'
  <2>1. \A c \in Addresses : wanted'[c] # Cov!NoCoverage => status'[c] = "running"
    BY <1>2 DEF Ask, StoreHolds, TypeOK
  <2> QED  BY <1>0, <1>2, <2>1 DEF StoreHolds, Ends
<1>3. CASE Miss \/ MissSeed
  <2>1. /\ UNCHANGED <<windows, stored>>
        /\ UNCHANGED store \/ \E a \in Addresses : ~High(a) /\ \E range : Ask(a, range)
    BY <1>3, StopsAsk
  <2> QED  BY <1>1, <1>2, <2>1
<1>4. ASSUME NEW a \in Addresses, ClientSync(a) PROVE StoreHolds'
  BY <1>2, <1>4 DEF ClientSync
<1>5. ASSUME NEW a \in Addresses, SyncEnds(a) PROVE StoreHolds'
  <2>1. \A c \in Addresses : wanted'[c] # Cov!NoCoverage => status'[c] = "running"
    BY <1>5 DEF SyncEnds, StoreHolds, TypeOK
  <2>2. CASE UNCHANGED <<windows, stored>>
    BY <1>0, <2>1, <2>2 DEF StoreHolds, Ends
  <2>3. CASE /\ windows' = [windows EXCEPT ![a] = Cov!Merge(wanted[a], @)]
             /\ stored' = stored \cup {f \in facts : a \in {f.from, f.to}
                                       /\ f.block \in wanted[a][1] .. wanted[a][2]}
    <3> SUFFICES ASSUME NEW c \in Addresses, NEW f \in facts, c \in Ends(f),
                        f.block \in Cov!Claimed(windows'[c])
                 PROVE  f \in stored'
      BY <1>0, <2>1 DEF StoreHolds, Ends
    <3>1. CASE c # a
      BY <2>3, <3>1 DEF StoreHolds, TypeOK
    <3>2. CASE c = a
      <4>1. windows'[a] = Cov!Merge(wanted[a], windows[a])
        BY <2>3 DEF TypeOK
      <4>2. f.block \in Nat /\ wanted[a] \in Nat \X Nat /\ windows[a] \in Nat \X Nat
        <5>1. f \in Fact
          BY World
        <5>2. f.block \in Nat
          BY <5>1, ConstantsAssumption DEF Fact
        <5> QED  BY <5>2 DEF TypeOK
      <4>3. f.block \in Cov!Claimed(windows[a]) \/ f.block \in wanted[a][1] .. wanted[a][2]
        BY <3>2, <4>1, <4>2, MergeClaims
      <4> QED  BY <2>3, <3>2, <4>3 DEF StoreHolds, Ends
    <3> QED  BY <3>1, <3>2
  <2> QED  BY <1>5, <2>2, <2>3 DEF SyncEnds
<1> QED  BY <1>1, <1>3, <1>4, <1>5, StepsAre, StoreStays

-----------------------------------------------------------------------------
(* Within one traversal the result only grows.                             *)

Same(s, t) == \A i \in DOMAIN s : i \in DOMAIN t /\ t[i] = s[i]
\* Nothing is taken back; what is stored and the high-frequency documents stay.
Grown ==
    /\ UNCHANGED <<facts, kind>> /\ stored \subseteq stored'
    /\ Grows(nodes, nodes') /\ Same(edges, edges') /\ Same(branches, branches')
    /\ \A a \in Addresses : High(a) => High(a)'

\* The elements of two sequences, one after the other.
LEMMA Concat ==
    ASSUME NEW T, NEW s \in Seq(T), NEW t \in Seq(T), NEW u, u = s \o t
    PROVE  /\ Same(s, u) /\ Len(u) = Len(s) + Len(t)
           /\ \A j \in DOMAIN u : j \in DOMAIN s \/ (j - Len(s) \in DOMAIN t /\ u[j] = t[j - Len(s)])
<1>1. u \in Seq(T) /\ Len(u) = Len(s) + Len(t)
  OBVIOUS
<1>2. \A j \in 1 .. Len(s) + Len(t) : u[j] = IF j <= Len(s) THEN s[j] ELSE t[j - Len(s)]
  OBVIOUS
<1>3. DOMAIN u = 1 .. Len(s) + Len(t) /\ DOMAIN s = 1 .. Len(s) /\ DOMAIN t = 1 .. Len(t)
  BY <1>1
<1>4. Len(s) \in Nat /\ Len(t) \in Nat
  OBVIOUS
<1>5. Same(s, u)
  BY <1>2, <1>3, <1>4 DEF Same
<1>6. \A j \in DOMAIN u : j \in DOMAIN s \/ (j - Len(s) \in DOMAIN t /\ u[j] = t[j - Len(s)])
  <2> TAKE j \in DOMAIN u
  <2> DEFINE m == Len(s)
  <2> DEFINE n == Len(t)
  <2>1. /\ j \in 1 .. m + n /\ m \in Nat /\ n \in Nat
        /\ u[j] = (IF j <= m THEN s[j] ELSE t[j - m]) /\ DOMAIN s = 1 .. m /\ DOMAIN t = 1 .. n
    BY <1>2, <1>3, <1>4
  <2>3. SUFFICES j \in DOMAIN s \/ (j - m \in DOMAIN t /\ u[j] = t[j - m])
    OBVIOUS
  <2> HIDE DEF m, n
  <2>2. j \in 1 .. m \/ (~(j <= m) /\ j - m \in 1 .. n)
    BY <2>1
  <2> QED  BY <2>1, <2>2
<1> QED  BY <1>1, <1>5, <1>6

LEMMA GrowsNot == Grows(nodes, nodes)
BY DEF Grows

LEMMA StoreGrows ==
    ASSUME TypeOK, WalkHolds, StoreHolds, [Next]_vars
    PROVE  stored \subseteq stored' /\ \A a \in Addresses : High(a) => High(a)'
<1>1. CASE UNCHANGED store
  BY <1>1 DEF store, High
<1>2. ASSUME NEW a \in Addresses, ~High(a), NEW range, Ask(a, range), UNCHANGED stored
      PROVE  stored \subseteq stored' /\ \A c \in Addresses : High(c) => High(c)'
  BY <1>2 DEF Ask, High, TypeOK
<1>3. CASE Miss \/ MissSeed
  <2>1. /\ UNCHANGED <<windows, stored>>
        /\ UNCHANGED store \/ \E a \in Addresses : ~High(a) /\ \E range : Ask(a, range)
    BY <1>3, StopsAsk
  <2> QED  BY <1>1, <1>2, <2>1
<1>4. ASSUME NEW a \in Addresses, ClientSync(a)
      PROVE  stored \subseteq stored' /\ \A c \in Addresses : High(c) => High(c)'
  <2>1. ~High(a) /\ UNCHANGED stored /\ \E range : Ask(a, range)
    BY <1>4 DEF ClientSync
  <2> QED  BY <1>2, <2>1
<1>5. ASSUME NEW a \in Addresses, SyncEnds(a)
      PROVE  stored \subseteq stored' /\ \A c \in Addresses : High(c) => High(c)'
  <2>1. ~High(a)
    BY <1>5 DEF SyncEnds, StoreHolds, High
  <2>2. stored \subseteq stored'
    BY <1>5 DEF SyncEnds
  <2>3. status' = [status EXCEPT ![a] = status'[a]]
    BY <1>5 DEF SyncEnds, TypeOK
  <2> QED  BY <2>1, <2>2, <2>3 DEF High, TypeOK
<1> QED  BY <1>1, <1>3, <1>4, <1>5, StepsAre, StoreStays

LEMMA GrownStep ==
    ASSUME TypeOK, BranchesHold, WalkHolds, StoreHolds, [Next]_vars, ~Start
    PROVE  Grown
<1>0. /\ UNCHANGED <<facts, kind>> /\ stored \subseteq stored' /\ \A a \in Addresses : High(a) => High(a)'
  BY WorldStays, StoreGrows DEF world
<1>1. SUFFICES Grows(nodes, nodes') /\ Same(edges, edges') /\ Same(branches, branches')
  BY <1>0 DEF Grown
<1>2. CASE UNCHANGED <<nodes, edges, branches>>
  BY <1>2, GrowsNot DEF Same
<1>3. NodesOK(nodes)
  BY DEF TypeOK, NodesOK, Node
<1>4. ASSUME NEW A, NEW why \in Reasons, nodes' = SetTerminal(nodes, A, why), UNCHANGED <<edges, branches>>
      PROVE  Grows(nodes, nodes') /\ Same(edges, edges') /\ Same(branches, branches')
  <2>1. Grows(nodes, nodes')
    BY <1>3, <1>4, SetTerminalIs
  <2> QED  BY <1>4, <2>1 DEF Same
<1>5. CASE Takings
  <2>1. PICK i \in frontier : Drop(i) \/ TakeQuery(i) \/ TakeConversion(i)
    BY <1>5 DEF Takings
  <2>2. CASE UNCHANGED <<nodes, edges, branches>>
    BY <1>2, <2>2
  <2>3. ASSUME NEW stop, stop[2] \in Reasons, StopAt(i, stop)
        PROVE  Grows(nodes, nodes') /\ Same(edges, edges') /\ Same(branches, branches')
    BY <1>4, <2>3 DEF StopAt
  <2>4. /\ <<{branches[i].addr}, "high_frequency">>[2] \in Reasons
        /\ <<{branches[i].addr}, "ambiguous_conversion">>[2] \in Reasons /\ <<{}, "">>[2] \in Reasons
    BY DEF Reasons
  <2>5. \/ UNCHANGED <<nodes, edges, branches>>
        \/ StopAt(i, <<{branches[i].addr}, "high_frequency">>)
        \/ StopAt(i, <<{branches[i].addr}, "ambiguous_conversion">>)
        \/ StopAt(i, <<{}, "">>)
    BY <2>1 DEF Drop, Takes, TakeQuery, TakeConversion, result
  <2> QED  BY <2>2, <2>3, <2>4, <2>5, Zenon
<1>6. CASE Expansions
  <2>1. CASE Skip \/ Dust
    BY <1>2, <2>1 DEF Skip, Dust, result
  <2>2. CASE NodeLimit
    BY <1>4, <2>2 DEF NodeLimit, Reasons
  <2>3. CASE Burn
    <3>1. Kept /\ edges' = Append(edges, Edge) /\ UNCHANGED branches
      BY <2>3 DEF Burn, Followed
    <3>2. Same(edges, edges')
      BY <3>1, EdgesType DEF Same
    <3>3. Grows(nodes, nodes')
      BY <2>3 DEF Burn, Grows
    <3> QED  BY <3>1, <3>2, <3>3 DEF Same
  <2> QED  BY <1>6, <2>1, <2>2, <2>3 DEF Expansions
<1>7. ASSUME NEW outcome, Follow(outcome)
      PROVE  Grows(nodes, nodes') /\ Same(edges, edges') /\ Same(branches, branches')
  <2>1. /\ Kept /\ edges' = Append(edges, Edge) /\ Grows(nodes, nodes') /\ Other # Zero
        /\ UNCHANGED branches \/ branches' = Append(branches, Opened)
    BY <1>7, Followings
  <2>2. Opened \in Branches
    BY <2>1, NewBranch
  <2>3. Same(branches, branches')
    <3>1. CASE UNCHANGED branches
      BY <3>1 DEF Same
    <3>2. CASE branches' = Append(branches, Opened)
      BY <2>2, <3>2, BranchesType DEF Same
    <3> QED  BY <2>1, <3>1, <3>2
  <2>4. Same(edges, edges')
    BY <2>1, <2>3, EdgesType DEF Same
  <2> QED  BY <2>1, <2>3, <2>4
<1>8. CASE Others
  <2>1. CASE EndRound
    <3> DEFINE idle == {a \in processed \ expanded : ~nodes[a].terminal}
    <3> DEFINE marked == SetTerminal(nodes, idle, "no_matching_transfers")
    <3>1. "no_matching_transfers" \in Reasons /\ "node_limit" \in Reasons
      BY DEF Reasons
    <3>2. NodesOK(marked) /\ Grows(nodes, marked)
      BY <1>3, <3>1, SetTerminalIs
    <3>3. nodes' = marked \/ nodes' = SetTerminal(marked, {branches[i].addr : i \in next}, "node_limit")
      BY <2>1 DEF EndRound
    <3>4. nodes' = marked \/ Grows(marked, nodes')
      BY <3>1, <3>2, <3>3, SetTerminalIs
    <3>5. Grows(nodes, nodes')
      BY <3>2, <3>4 DEF Grows
    <3> QED  BY <2>1, <3>5 DEF EndRound, Same
  <2> QED  BY <1>2, <1>8, <2>1 DEF Others, Expanded, Finish, vars, result, Analyse, AnalysisFails
<1>9. CASE Miss \/ MissSeed \/ \E a \in Addresses : ClientSync(a) \/ SyncEnds(a)
  BY <1>2, <1>9 DEF Miss, MissSeed, ClientSync, SyncEnds, result
<1>10. ASSUME NEW a \in Addresses, NEW d \in {"in", "out"}, Extend(a, d)
       PROVE  Grows(nodes, nodes') /\ Same(edges, edges') /\ Same(branches, branches')
  <2>1. Grows(nodes, nodes') /\ \E fresh \in Seq(Edges) : Added(a, d, fresh)
    BY <1>10, Extension DEF Extended
  <2>2. PICK fresh \in Seq(Edges) : edges' = edges \o fresh
    BY <2>1 DEF Added
  <2>3. Same(edges, edges')
    <3>1. edges \in Seq(Edges)
      BY DEF TypeOK
    <3> QED  BY <2>2, <3>1, Concat
  <2>4. UNCHANGED branches
    BY <1>10 DEF Extend
  <2> QED  BY <2>1, <2>3, <2>4 DEF Same
<1> QED  BY <1>5, <1>6, <1>7, <1>8, <1>9, <1>10, StepsAre

\* Only what is followed opens branches.
LEMMA OnlyFollowOpens ==
    ASSUME [Next]_vars, ~Start, ~(\E outcome : Follow(outcome))
    PROVE  UNCHANGED branches /\ (frontier \cup next)' \subseteq frontier \cup next
<1>1. CASE Takings
  BY <1>1 DEF Takings, Drop, Takes, TakeQuery, TakeConversion, Walk, StopAt, result
<1>2. CASE Expansions
  BY <1>2 DEF Expansions, Skip, Dust, NodeLimit, Burn, result, round
<1>3. CASE Miss \/ MissSeed
  BY <1>3 DEF Miss, MissSeed, result, round
<1>4. CASE Others
  BY <1>4 DEF Others, Expanded, EndRound, Finish, vars, Analyse, AnalysisFails, result, round
<1>5. CASE \E a \in Addresses : ClientSync(a) \/ SyncEnds(a)
  BY <1>5 DEF ClientSync, SyncEnds, result, round
<1>6. CASE \E a \in Addresses, d \in {"in", "out"} : Extend(a, d)
  BY <1>6 DEF Extend, round
<1> QED  BY <1>1, <1>2, <1>3, <1>4, <1>5, <1>6, StepsAre

\* Only what is followed or burned, and an extension, adds edges.
LEMMA OnlyHopsAdd ==
    ASSUME [Next]_vars, ~Start, ~(\E outcome : Follow(outcome)), ~Burn,
           ~(\E a \in Addresses, d \in {"in", "out"} : Extend(a, d))
    PROVE  UNCHANGED edges
<1>1. CASE Takings
  BY <1>1 DEF Takings, Drop, Takes, TakeQuery, TakeConversion, Walk, StopAt, result
<1>2. CASE Expansions
  BY <1>2 DEF Expansions, Skip, Dust, NodeLimit, result
<1>3. CASE Miss \/ MissSeed
  BY <1>3 DEF Miss, MissSeed, result
<1>4. CASE Others
  BY <1>4 DEF Others, Expanded, EndRound, Finish, vars, Analyse, AnalysisFails, result
<1>5. CASE \E a \in Addresses : ClientSync(a) \/ SyncEnds(a)
  BY <1>5 DEF ClientSync, SyncEnds, result
<1> QED  BY <1>1, <1>2, <1>3, <1>4, <1>5, StepsAre

LEMMA StartIs ==
    ASSUME TypeOK, Start
    PROVE  /\ UNCHANGED world /\ pc' = "round" /\ edges' = <<>> /\ next' = {} /\ todo' = <<>>
           /\ nodes' = [a \in {Seed} |-> [terminal |-> SeedStop # "", why |-> SeedStop]]
           /\ branches' = SeedBranches /\ frontier' = DOMAIN branches'
           /\ \A i \in DOMAIN branches' :
                  /\ branches'[i].addr = Seed /\ branches'[i].asset = "all" /\ branches'[i].block = 0
                  /\ branches'[i].tx = None /\ branches'[i].amount = None
BY SeedBranchesAre DEF Start

\* What is kept of the candidate in hand.
LEMMA KeptIs ==
    ASSUME TypeOK, WalkHolds, Kept
    PROVE  /\ pc = "walk" /\ cur \in DOMAIN branches \ (frontier \cup next) /\ Near(F, B.dir) = B.addr
           /\ InTime(F.block, B) /\ Dated(F.tx, F.block)
           /\ ~Converts(B) => B.asset \in {"all", F.asset}
           /\ Ends(Edge) = {B.addr, Other} /\ B.dir \in {"in", "out"}
<1>1. pc = "walk" /\ todo # <<>> /\ cur \in DOMAIN branches \ (frontier \cup next)
  BY DEF Kept, Considered, WalkHolds
<1>2. F = todo[1] /\ 1 \in DOMAIN todo /\ B \in Branches
  BY <1>1, Candidate
<1>3. /\ Near(F, B.dir) = B.addr /\ InTime(F.block, B) /\ Dated(F.tx, F.block)
      /\ ~Converts(B) => B.asset \in {"all", F.asset}
  BY <1>1, <1>2 DEF WalkHolds
<1>4. B.dir \in {"in", "out"}
  BY <1>2 DEF Branches
<1>5. Ends(Edge) = {B.addr, Other}
  BY <1>3, <1>4 DEF Ends, Edge, Near, Other, Peer
<1> QED  BY <1>1, <1>3, <1>4, <1>5

-----------------------------------------------------------------------------
(* Branches start at nodes, edges continue branches.                       *)

LEMMA DatedStays ==
    ASSUME UNCHANGED facts, NEW tx, NEW block, Dated(tx, block) PROVE Dated(tx, block)'
BY DEF Dated

LEMMA BranchesStep ==
    ASSUME TypeOK, StoreHolds, BranchesHold, WalkHolds, [Next]_vars
    PROVE  BranchesHold'
<1>1. CASE Start
  <2>1. \A i \in DOMAIN branches' : /\ branches'[i].addr = Seed /\ branches'[i].tx = None
                                    /\ branches'[i].amount = None
    BY <1>1, StartIs
  <2>2. Seed \in DOMAIN nodes'
    BY <1>1, StartIs
  <2> QED  BY <2>1, <2>2 DEF BranchesHold
<1> SUFFICES ASSUME ~Start PROVE BranchesHold'
  BY <1>1
<1>2. Grown
  BY GrownStep
<1>3. UNCHANGED facts /\ DOMAIN nodes \subseteq DOMAIN nodes'
  BY <1>2 DEF Grown, Grows
<1>4. CASE UNCHANGED branches
  BY <1>3, <1>4 DEF BranchesHold, Dated
<1>5. ASSUME NEW outcome, Follow(outcome) PROVE BranchesHold'
  <2>1. /\ Kept /\ Other # Zero /\ Other \in DOMAIN nodes'
        /\ UNCHANGED branches \/ branches' = Append(branches, Opened)
    BY <1>5, Followings
  <2>2. SUFFICES ASSUME branches' = Append(branches, Opened) PROVE BranchesHold'
    BY <1>4, <2>1
  <2>3. /\ Opened \in Branches /\ Opened.tx # None /\ Opened.block # 0
        /\ Opened.amount # None /\ Opened.asset # "all"
    BY <2>1, NewBranch
  <2>4. Opened.addr = Other /\ Opened.tx = F.tx /\ Opened.block = F.block
    BY DEF Opened, Branch
  <2>5. Dated(Opened.tx, Opened.block)
    BY <2>1, <2>4, KeptIs
  <2> DEFINE o == Opened
  <2>6. /\ o \in Branches /\ branches' = Append(branches, o) /\ o.addr \in DOMAIN nodes' /\ o.block # 0
        /\ Dated(o.tx, o.block) /\ o.asset # "all"
    BY <2>1, <2>2, <2>3, <2>4, <2>5
  <2> HIDE DEF o
  <2>7. \A i \in DOMAIN branches' : i \in DOMAIN branches \/ branches'[i] = o
    BY <2>6, BranchesType
  <2>8. \A i \in DOMAIN branches : branches'[i] = branches[i]
    BY <2>6, BranchesType
  <2>9. SUFFICES ASSUME NEW i \in DOMAIN branches'
                 PROVE  /\ branches'[i].addr \in DOMAIN nodes'
                        /\ branches'[i].tx # None =>
                               Dated(branches'[i].tx, branches'[i].block) /\ branches'[i].block # 0
                        /\ branches'[i].amount # None => branches'[i].asset # "all"
    BY <1>3 DEF BranchesHold, Dated
  <2> QED  BY <1>3, <2>6, <2>7, <2>8 DEF BranchesHold
<1> QED  BY <1>4, <1>5, OnlyFollowOpens

\* What EdgesHold says of an edge.
Fits(e) ==
    /\ Ends(e) \subseteq DOMAIN nodes /\ Dated(e.tx, e.block)
    /\ e.parent \notin frontier \cup next
    /\ e.parent # 0 => /\ e.dir = branches[e.parent].dir
                       /\ InTime(e.block, branches[e.parent])
LEMMA EdgesFit == EdgesHold <=> \A j \in DOMAIN edges : Fits(edges[j])
BY DEF EdgesHold, Fits

\* What one step does to what is still to be expanded.
LEMMA FrontierStep ==
    ASSUME TypeOK, WalkHolds, [Next]_vars, ~Start
    PROVE  (frontier \cup next)' \subseteq frontier \cup next \cup {Len(branches) + 1}
<1>1. ASSUME NEW outcome, Follow(outcome)
      PROVE  (frontier \cup next)' \subseteq frontier \cup next \cup {Len(branches) + 1}
  <2>1. next' \subseteq next \cup {Len(branches) + 1}
    BY <1>1, Followings
  <2>2. frontier' = frontier
    BY <1>1 DEF Follow
  <2> QED  BY <2>1, <2>2
<1> QED  BY <1>1, OnlyFollowOpens

LEMMA OldEdgesFit ==
    ASSUME TypeOK, BranchesHold, StoreHolds, EdgesHold, WalkHolds, [Next]_vars, ~Start, NEW j \in DOMAIN edges
    PROVE  Fits(edges[j])'
<1>1. Grown /\ Fits(edges[j])
  BY GrownStep, EdgesFit
<1>2. UNCHANGED facts /\ DOMAIN nodes \subseteq DOMAIN nodes' /\ Same(branches, branches')
  BY <1>1 DEF Grown, Grows
<1>3. j \in DOMAIN edges' /\ edges'[j] = edges[j]
  BY <1>1 DEF Grown, Same
<1>0. PICK e : e = edges[j]
  OBVIOUS
<1>4. e.parent \in DOMAIN branches \cup {0} /\ e.parent # Len(branches) + 1
  BY <1>0 DEF TypeOK
<1>5. e.parent \notin (frontier \cup next)'
  BY <1>0, <1>1, <1>4, FrontierStep DEF Fits
<1>6. e.parent # 0 => /\ branches'[e.parent] = branches[e.parent] /\ e.dir = branches'[e.parent].dir
                      /\ InTime(e.block, branches[e.parent])
  BY <1>0, <1>1, <1>2, <1>4 DEF Fits, Same
<1>7. Ends(e) \subseteq DOMAIN nodes' /\ Dated(e.tx, e.block)'
  BY <1>0, <1>1, <1>2 DEF Fits, Dated
<1>8. edges'[j] = e
  BY <1>0, <1>3
<1> QED  BY <1>5, <1>6, <1>7, <1>8 DEF Fits, InTime, Dated

\* The edge of a candidate that is kept.
LEMMA NewEdgeFits ==
    ASSUME TypeOK, BranchesHold, StoreHolds, WalkHolds, [Next]_vars, ~Start, Kept,
           B.addr \in DOMAIN nodes', Other \in DOMAIN nodes'
    PROVE  LET e == Edge IN
           /\ Ends(e) \subseteq DOMAIN nodes' /\ Dated(e.tx, e.block) /\ e.parent \notin (frontier \cup next)'
           /\ e.parent \in DOMAIN branches /\ e.dir = branches'[e.parent].dir
           /\ InTime(e.block, branches'[e.parent])
<1>1. /\ cur \in DOMAIN branches \ (frontier \cup next)
      /\ InTime(F.block, B) /\ Dated(F.tx, F.block) /\ Ends(Edge) = {B.addr, Other}
  BY KeptIs
<1>2. Edge.parent = cur /\ Edge.tx = F.tx /\ Edge.block = F.block /\ Edge.dir = B.dir
  BY DEF Edge
<1>3. branches'[cur] = B
  BY <1>1, GrownStep DEF Grown, Same, B
<1>4. cur \notin (frontier \cup next)'
  <2>1. cur # Len(branches) + 1
    BY <1>1 DEF TypeOK
  <2> QED  BY <1>1, <2>1, FrontierStep
<1> QED  BY <1>1, <1>2, <1>3, <1>4

LEMMA EdgesStep ==
    ASSUME TypeOK, BranchesHold, StoreHolds, EdgesHold, WalkHolds, [Next]_vars
    PROVE  EdgesHold'
<1>1. CASE Start
  <2>1. edges' = <<>>
    BY <1>1, StartIs
  <2> QED  BY <2>1 DEF EdgesHold
<1> SUFFICES ASSUME ~Start PROVE EdgesHold'
  BY <1>1
<1>2. UNCHANGED facts /\ Grows(nodes, nodes')
  BY GrownStep DEF Grown
<1>3. SUFFICES \A j \in DOMAIN edges' : Fits(edges[j])'
  BY DEF EdgesHold, Fits
<1>4. \A j \in DOMAIN edges : Fits(edges[j])'
  BY OldEdgesFit
<1>5. CASE UNCHANGED edges
  BY <1>4, <1>5
<1>6. CASE Burn \/ \E outcome : Follow(outcome)
  <2>1. Kept /\ edges' = Append(edges, Edge) /\ Other \in DOMAIN nodes'
    <3>1. CASE Burn
      BY <3>1 DEF Burn, Followed
    <3>2. CASE \E outcome : Follow(outcome)
      BY <3>2, Followings
    <3> QED  BY <1>6, <3>1, <3>2
  <2>2. B.addr \in DOMAIN nodes'
    BY <1>2, <2>1, KeptIs DEF BranchesHold, B, Grows
  <2> DEFINE e == Edge
  <2>3. /\ Ends(e) \subseteq DOMAIN nodes' /\ Dated(e.tx, e.block) /\ e.parent \notin (frontier \cup next)'
        /\ e.parent \in DOMAIN branches /\ e.dir = branches'[e.parent].dir
        /\ InTime(e.block, branches'[e.parent])
    BY <2>1, <2>2, NewEdgeFits
  <2>4. e \in Edges /\ edges' = Append(edges, e) /\ edges \in Seq(Edges)
    BY <2>1, NewEdge DEF TypeOK
  <2> HIDE DEF e
  <2>5. \A j \in DOMAIN edges' : j \in DOMAIN edges \/ edges'[j] = e
    BY <2>4
  <2>6. ASSUME NEW j \in DOMAIN edges', edges'[j] = e PROVE Fits(edges[j])'
    BY <1>2, <2>3, <2>6 DEF Fits, Dated, InTime
  <2> QED  BY <1>4, <2>5, <2>6
<1>7. ASSUME NEW a \in Addresses, NEW d \in {"in", "out"}, Extend(a, d)
      PROVE  \A j \in DOMAIN edges' : Fits(edges[j])'
  <2>1. PICK fresh \in Seq(Edges) : Added(a, d, fresh)
    BY <1>7, Extension DEF Extended
  <2>2. a \in DOMAIN nodes' /\ pc = "done"
    BY <1>2, <1>7, Extension DEF Grows
  <2>3. edges \in Seq(Edges) /\ edges' = edges \o fresh
    BY <2>1 DEF TypeOK, Added
  <2>4. 0 \notin (frontier \cup next)'
    BY <1>7 DEF Extend, round, TypeOK
  <2>5. ASSUME NEW j \in DOMAIN edges', j \notin DOMAIN edges PROVE Fits(edges[j])'
    <3>1. PICK k \in DOMAIN fresh : edges'[j] = fresh[k]
      BY <2>3, <2>5, Concat
    <3>2. /\ fresh[k].parent = 0 /\ fresh[k].dir = d
          /\ Near(fresh[k], d) = a /\ Peer(fresh[k], d) \in DOMAIN nodes'
          /\ Datable(fresh[k])
      BY <2>1 DEF Added
    <3>3. Ends(fresh[k]) \subseteq DOMAIN nodes'
      BY <2>2, <3>2 DEF Ends, Near, Peer
    <3>4. Dated(fresh[k].tx, fresh[k].block)
      BY <3>2, DatableIs
    <3> QED  BY <1>2, <2>4, <3>1, <3>2, <3>3, <3>4 DEF Fits, Dated
  <2> QED  BY <1>4, <2>5
<1> QED  BY <1>5, <1>6, <1>7, OnlyHopsAdd

-----------------------------------------------------------------------------
(* The branch in expansion and its candidates.                             *)

\* What WalkHolds says of a candidate f of the branch b.
Continues(b, f) ==
    /\ Near(f, b.dir) = b.addr /\ InTime(f.block, b) /\ Dated(f.tx, f.block)
    /\ ~Converts(b) => b.asset \in {"all", f.asset}

\* An expansion goes on with the rest of its candidates, or begins with those of a branch.
Proceeds == pc = "walk" /\ cur' = cur /\ (todo' = todo \/ (todo # <<>> /\ todo' = Tail(todo)))
Begins(i) ==
    /\ pc = "round" /\ i \in frontier /\ frontier' = frontier \ {i} /\ cur' = i
    /\ UNCHANGED <<result, next>> /\ ~nodes[branches[i].addr].terminal
    /\ LET b == branches[i] IN
       \/ /\ ~Converts(b) /\ budget' = b.amount
          /\ todo' \in NearestFirst(Query(b.addr, b.dir, b.asset, b.block), b.dir)
       \/ /\ Converts(b) /\ budget' = None /\ verdict[b.tx].is = "swap"
          /\ todo' = <<Semantic(b, Swapped(b.tx))>>

LEMMA Walks ==
    ASSUME [Next]_vars, pc' = "walk"
    PROVE  Proceeds \/ \E i \in frontier : Begins(i)
<1>1. CASE Takings
  <2>1. PICK i \in frontier : Drop(i) \/ TakeQuery(i) \/ TakeConversion(i)
    BY <1>1 DEF Takings
  <2>2. pc = "round"
    BY <2>1 DEF Drop, TakeQuery, TakeConversion, Takes
  <2>3. CASE Drop(i)
    BY <2>2, <2>3 DEF Drop
  <2>4. CASE TakeQuery(i)
    <3>1. Takes(i) /\ ~nodes[branches[i].addr].terminal /\ ~Converts(branches[i])
      BY <2>4 DEF TakeQuery
    <3>2. ~StopAt(i, <<{branches[i].addr}, "high_frequency">>)
      BY <2>2 DEF StopAt
    <3>3. PICK order \in NearestFirst(Query(branches[i].addr, branches[i].dir, branches[i].asset, branches[i].block), branches[i].dir) :
              Walk(i, order, branches[i].amount) /\ UNCHANGED result
      BY <2>4, <3>2 DEF TakeQuery
    <3>4. cur' = i /\ todo' = order /\ budget' = branches[i].amount /\ UNCHANGED next
      BY <3>3 DEF Walk
    <3> QED  BY <3>1, <3>3, <3>4 DEF Begins, Takes
  <2>5. CASE TakeConversion(i)
    <3>1. /\ ~StopAt(i, <<{branches[i].addr}, "ambiguous_conversion">>)
          /\ ~StopAt(i, <<{}, "">>)
      BY <2>2 DEF StopAt
    <3>2. /\ Takes(i) /\ ~nodes[branches[i].addr].terminal /\ Converts(branches[i])
          /\ verdict[branches[i].tx].is = "swap" /\ UNCHANGED result
          /\ Walk(i, <<Semantic(branches[i], Swapped(branches[i].tx))>>, None)
      BY <2>5, <3>1 DEF TakeConversion, result
    <3> QED  BY <3>2 DEF Begins, Takes, Walk
  <2> QED  BY <2>1, <2>3, <2>4, <2>5
<1>2. CASE Expansions
  BY <1>2 DEF Expansions, Skip, Dust, NodeLimit, Burn, Followed, Kept, Considered, Consumed, Proceeds
<1>3. CASE \E outcome : Follow(outcome)
  BY <1>3 DEF Follow, Followed, Kept, Considered, Consumed, Proceeds
<1>4. CASE Miss \/ MissSeed
  BY <1>4 DEF Miss, MissSeed, Depend
<1>5. CASE Others
  BY <1>5 DEF Others, Start, Expanded, EndRound, Finish, vars, Analyse, AnalysisFails, walk, Proceeds
<1>6. CASE \E a \in Addresses : ClientSync(a) \/ SyncEnds(a)
  BY <1>6 DEF ClientSync, SyncEnds, walk, Proceeds
<1>7. CASE \E a \in Addresses, d \in {"in", "out"} : Extend(a, d)
  BY <1>7 DEF Extend
<1> QED  BY <1>1, <1>2, <1>3, <1>4, <1>5, <1>6, <1>7, StepsAre

LEMMA WalkStep ==
    ASSUME TypeOK, StoreHolds, BranchesHold, WalkHolds, [Next]_vars
    PROVE  WalkHolds'
<1>0. (frontier \cap next = {})'
  <2>1. CASE Start
    BY <2>1, StartIs
  <2>2. ASSUME NEW outcome, Follow(outcome) PROVE (frontier \cap next = {})'
    <3>1. next' \subseteq next \cup {Len(branches) + 1} /\ frontier' = frontier
      BY <2>2, Followings DEF Follow
    <3>2. Len(branches) + 1 \notin frontier
      BY DEF TypeOK
    <3> QED  BY <3>1, <3>2 DEF WalkHolds
  <2>3. CASE EndRound
    BY <2>3 DEF EndRound
  <2>4. ASSUME ~Start, ~EndRound, ~(\E outcome : Follow(outcome))
        PROVE  frontier' \subseteq frontier /\ next' \subseteq next
    <3>1. CASE Takings
      BY <3>1 DEF Takings, Drop, Takes, TakeQuery, TakeConversion, Walk, StopAt
    <3>2. CASE Expansions
      BY <3>2 DEF Expansions, Skip, Dust, NodeLimit, Burn, round
    <3>3. CASE Miss \/ MissSeed
      BY <3>3 DEF Miss, MissSeed, round
    <3>4. CASE Others
      BY <2>4, <3>4 DEF Others, Expanded, Finish, vars, Analyse, AnalysisFails, round
    <3>5. CASE \E a \in Addresses : ClientSync(a) \/ SyncEnds(a)
      BY <3>5 DEF ClientSync, SyncEnds, round
    <3>6. CASE \E a \in Addresses, d \in {"in", "out"} : Extend(a, d)
      BY <3>6 DEF Extend, round
    <3> QED  BY <2>4, <3>1, <3>2, <3>3, <3>4, <3>5, <3>6, StepsAre
  <2> QED  BY <2>1, <2>2, <2>3, <2>4 DEF WalkHolds
<1> SUFFICES ASSUME pc' = "walk"
             PROVE  WalkHolds'
  BY <1>0 DEF WalkHolds
<1>1. ~Start
  BY StartIs
<1>2. Grown
  BY <1>1, GrownStep
<1>3. UNCHANGED <<facts, kind>> /\ Same(branches, branches')
  BY <1>2 DEF Grown
<1>4. SUFFICES /\ cur' \in DOMAIN branches /\ cur' \notin (frontier \cup next)'
               /\ \A k \in DOMAIN todo' : Continues(branches[cur'], todo'[k])
  <2>1. B' = branches[cur'] /\ cur' \in DOMAIN branches'
    BY <1>3, <1>4 DEF B, Same
  <2> QED  BY <1>0, <1>3, <1>4, <2>1 DEF WalkHolds, Continues, Converts, Contract, Dated, InTime
<1>5. CASE Proceeds
  <2>1. cur \in DOMAIN branches \ (frontier \cup next) /\ \A k \in DOMAIN todo : Continues(branches[cur], todo[k])
    BY <1>5 DEF Proceeds, WalkHolds, Continues, B
  <2>2. cur # Len(branches) + 1
    BY <2>1 DEF TypeOK
  <2>3. cur' \notin (frontier \cup next)'
    BY <1>1, <1>5, <2>1, <2>2, FrontierStep DEF Proceeds
  <2>4. \A k \in DOMAIN todo' : \E l \in DOMAIN todo : todo'[k] = todo[l]
    <3>1. CASE todo' = todo
      BY <3>1
    <3>2. CASE todo # <<>> /\ todo' = Tail(todo)
      BY <3>2, RestOfTodo
    <3> QED  BY <1>5, <3>1, <3>2 DEF Proceeds
  <2> QED  BY <1>5, <2>1, <2>3, <2>4 DEF Proceeds
<1>6. ASSUME NEW i \in frontier, Begins(i)
      PROVE  /\ cur' \in DOMAIN branches /\ cur' \notin (frontier \cup next)'
             /\ \A k \in DOMAIN todo' : Continues(branches[cur'], todo'[k])
  <2>0. i \in DOMAIN branches /\ cur' = i
    BY <1>6 DEF Begins, TypeOK
  <2> DEFINE b == branches[i]
  <2>1. cur' \in DOMAIN branches /\ cur' \notin (frontier \cup next)'
    <3>1. i \notin next
      BY <1>6 DEF WalkHolds
    <3> QED  BY <1>6, <2>0, <3>1 DEF Begins
  <2>2. CASE ~Converts(b) /\ todo' \in NearestFirst(Query(b.addr, b.dir, b.asset, b.block), b.dir)
    <3> DEFINE found == Query(b.addr, b.dir, b.asset, b.block)
    <3>1. found \subseteq facts /\ IsFiniteSet(found)
      BY QueryType
    <3>2. todo' \in Seq(found)
      BY <2>2, <3>1, NearestFirstIs
    <3>3. \A f \in found : Continues(b, f)
      BY <3>1, World DEF Query, Continues, Near, InTime, Dated
    <3> HIDE DEF found, b
    <3>4. \A k \in DOMAIN todo' : Continues(b, todo'[k])
      BY <3>2, <3>3
    <3> QED  BY <2>0, <2>1, <3>4 DEF b
  <2>3. CASE /\ Converts(b) /\ verdict[b.tx].is = "swap"
             /\ todo' = <<Semantic(b, Swapped(b.tx))>>
    <3> DEFINE f == Semantic(b, Swapped(b.tx))
    <3>1. Near(f, b.dir) = b.addr /\ InTime(f.block, b) /\ Dated(f.tx, f.block)
      BY <2>0, <2>3, SwapTransfer
    <3>2. Continues(b, f)
      BY <2>3, <3>1 DEF Continues
    <3>3. \A k \in DOMAIN todo' : todo'[k] = f
      BY <2>3
    <3> HIDE DEF f, b
    <3> QED  BY <2>0, <2>1, <3>2, <3>3 DEF b
  <2> QED  BY <1>6, <2>2, <2>3 DEF Begins
<1> QED  BY <1>5, <1>6, Walks

-----------------------------------------------------------------------------
(* The node limit, and what is recorded until it is met.                   *)

LEMMA OnlyExtendCounts ==
    ASSUME TypeOK, [Next]_vars, extensions' = 0
    PROVE  extensions = 0 /\ ~(\E a \in Addresses, d \in {"in", "out"} : Extend(a, d))
<1>6. ~(\E a \in Addresses, d \in {"in", "out"} : Extend(a, d))
  BY DEF Extend, TypeOK
<1> SUFFICES extensions = 0
  BY <1>6
<1>1. CASE Takings
  BY <1>1 DEF Takings, Drop, Takes, TakeQuery, TakeConversion, Walk, StopAt
<1>2. CASE Expansions
  BY <1>2 DEF Expansions, Skip, Dust, NodeLimit, Burn
<1>3. CASE Miss \/ MissSeed \/ \E outcome : Follow(outcome)
  BY <1>3 DEF Miss, MissSeed, Follow
<1>4. CASE Others
  BY <1>4 DEF Others, Start, Expanded, EndRound, Finish, vars, Analyse, AnalysisFails
<1>5. CASE \E a \in Addresses : ClientSync(a) \/ SyncEnds(a)
  BY <1>5 DEF ClientSync, SyncEnds
<1> QED  BY <1>1, <1>2, <1>3, <1>4, <1>5, <1>6, StepsAre

\* What neither starts, follows, burns nor extends keeps the nodes.
LEMMA DomainStays ==
    ASSUME [Next]_vars, ~Start, ~Burn, ~(\E outcome : Follow(outcome)),
           ~(\E a \in Addresses, d \in {"in", "out"} : Extend(a, d))
    PROVE  DOMAIN nodes' = DOMAIN nodes
<1>1. \A A, why : DOMAIN SetTerminal(nodes, A, why) = DOMAIN nodes
  BY DEF SetTerminal
<1>2. CASE Takings
  <2>1. nodes' = nodes \/ \E A, why : nodes' = SetTerminal(nodes, A, why)
    BY <1>2 DEF Takings, Drop, Takes, TakeQuery, TakeConversion, StopAt, result
  <2> QED  BY <1>1, <2>1
<1>3. CASE Expansions
  BY <1>1, <1>3 DEF Expansions, Skip, Dust, NodeLimit, result
<1>4. CASE Miss \/ MissSeed
  BY <1>4 DEF Miss, MissSeed, result
<1>5. CASE Others
  <2>1. CASE EndRound
    BY <1>1, <2>1 DEF EndRound, SetTerminal
  <2> QED  BY <1>5, <2>1 DEF Others, Expanded, Finish, vars, Analyse, AnalysisFails, result
<1>6. CASE \E a \in Addresses : ClientSync(a) \/ SyncEnds(a)
  BY <1>6 DEF ClientSync, SyncEnds, result
<1> QED  BY <1>2, <1>3, <1>4, <1>5, <1>6, StepsAre

\* Only what is followed or burned adds a node, and a limit that is met stays met.
LEMMA NodesStep ==
    ASSUME TypeOK, BranchesHold, WalkHolds, StoreHolds, RecordsHold, [Next]_vars, extensions' = 0
    PROVE  /\ IsFiniteSet(DOMAIN nodes') /\ Cardinality(DOMAIN nodes') <= MaxNodes
           /\ Full /\ ~Start => Full'
<1>0. MaxNodes \in Nat \ {0}
  BY ConstantsAssumption
<1>1. /\ extensions = 0 /\ ~(\E a \in Addresses, d \in {"in", "out"} : Extend(a, d))
      /\ IsFiniteSet(DOMAIN nodes) /\ Cardinality(DOMAIN nodes) <= MaxNodes
  BY OnlyExtendCounts DEF RecordsHold
<1>2. CASE Start
  <2>1. DOMAIN nodes' = {Seed}
    BY <1>2, StartIs
  <2>2. IsFiniteSet({Seed}) /\ Cardinality({Seed}) = 1
    BY FS_Singleton
  <2> QED  BY <1>0, <1>2, <2>1, <2>2
<1>3. CASE DOMAIN nodes' = DOMAIN nodes
  BY <1>1, <1>3 DEF Full
<1>4. ASSUME Full => Other \in DOMAIN nodes, DOMAIN nodes' = DOMAIN nodes \cup {Other}
      PROVE  /\ IsFiniteSet(DOMAIN nodes') /\ Cardinality(DOMAIN nodes') <= MaxNodes
             /\ Full => Full'
  <2>1. CASE Other \in DOMAIN nodes
    <3>1. DOMAIN nodes' = DOMAIN nodes
      BY <1>4, <2>1
    <3> QED  BY <1>1, <3>1 DEF Full
  <2>2. CASE Other \notin DOMAIN nodes
    <3>1. /\ IsFiniteSet(DOMAIN nodes') /\ Cardinality(DOMAIN nodes') = Cardinality(DOMAIN nodes) + 1
      BY <1>1, <1>4, <2>2, FS_AddElement
    <3>2. ~Full /\ Cardinality(DOMAIN nodes) \in Nat
      BY <1>1, <1>4, <2>2, FS_CardinalityType
    <3> QED  BY <1>0, <3>1, <3>2 DEF Full
  <2> QED  BY <2>1, <2>2
<1>5. CASE Burn
  <2>1. (Full => Other \in DOMAIN nodes) /\ DOMAIN nodes' = DOMAIN nodes \cup {Other}
    BY <1>5 DEF Burn, Followed
  <2> QED  BY <1>4, <2>1
<1>6. ASSUME NEW outcome, Follow(outcome)
      PROVE  /\ IsFiniteSet(DOMAIN nodes') /\ Cardinality(DOMAIN nodes') <= MaxNodes
             /\ Full => Full'
  <2>1. (Full => Other \in DOMAIN nodes) /\ DOMAIN nodes' = DOMAIN nodes \cup {Other}
    BY <1>6, Followings DEF Follow, Followed
  <2> QED  BY <1>4, <2>1
<1>7. ASSUME ~Start, ~Burn, ~(\E outcome : Follow(outcome)) PROVE DOMAIN nodes' = DOMAIN nodes
  BY <1>1, <1>7, DomainStays
<1> QED  BY <1>2, <1>3, <1>5, <1>6, <1>7

\* The state of the branch that an edge opens.
EdgeKey(e) == <<Peer(e, e.dir), e.dir, e.asset, e.block, e.tx>>
\* What RecordsHold says of two edges.
Distinct == \A i, j \in DOMAIN edges :
                i # j /\ Zero \notin Ends(edges[i]) => ~SameTransfer(edges[i], edges[j])
Recorded == \A j \in DOMAIN edges : Zero \notin Ends(edges[j]) => EdgeKey(edges[j]) \in Visited

LEMMA RecordsAre ==
    RecordsHold <=> /\ extensions = 0 => IsFiniteSet(DOMAIN nodes) /\ Cardinality(DOMAIN nodes) <= MaxNodes
                    /\ extensions = 0 /\ ~Full => Recorded /\ Distinct
<1>1. \A e : LeadsOn(e) <=> EdgeKey(e) \in Visited
  BY DEF LeadsOn, EdgeKey, Visited
<1>2. AllLeadOn <=> Recorded
  BY <1>1 DEF AllLeadOn, Recorded
<1> QED  BY <1>2 DEF RecordsHold, Distinct

\* The transfer of a candidate that is followed has no edge yet.
LEMMA NewTransfer ==
    ASSUME TypeOK, WalkHolds, EdgesHold, Kept, Recorded, NEW j \in DOMAIN edges, Zero \notin Ends(edges[j])
    PROVE  ~SameTransfer(edges[j], Edge) /\ ~SameTransfer(Edge, edges[j])
<1> DEFINE e == Edge
<1> DEFINE g == edges[j]
<1>1. CandidateKey = <<Other, B.dir, F.asset, F.block, F.tx>>
  BY DEF CandidateKey, Key, Branch
<1>2. CandidateKey \notin Visited
  BY DEF Kept, Considered, Ignored
<1>3. /\ e.dir = B.dir /\ e.tx = F.tx /\ e.asset = F.asset /\ e.block = F.block
      /\ Peer(e, e.dir) = Other
  BY DEF Edge, Other, Peer
<1>4. EdgeKey(g) \in Visited
  BY DEF Recorded
<1>5. EdgeKey(e) \notin Visited
  BY <1>1, <1>2, <1>3 DEF EdgeKey
<1>6. Dated(g.tx, g.block) /\ Dated(F.tx, F.block)
  BY KeptIs DEF EdgesHold
<1> HIDE DEF e, g
<1>7. ASSUME SameTransfer(g, e) \/ SameTransfer(e, g) PROVE FALSE
  <2>1. g.dir = e.dir /\ g.tx = e.tx /\ g.asset = e.asset /\ g.from = e.from /\ g.to = e.to
    BY <1>7 DEF SameTransfer
  <2>2. g.block = e.block
    BY <1>3, <1>6, <2>1 DEF Dated
  <2>3. EdgeKey(g) = EdgeKey(e)
    BY <2>1, <2>2 DEF EdgeKey, Peer
  <2> QED  BY <1>4, <1>5, <2>3
<1> QED  BY <1>7 DEF e, g

\* Adding the edge of a candidate keeps the transfers apart.
LEMMA DistinctStep ==
    ASSUME TypeOK, WalkHolds, EdgesHold, Kept, Recorded, Distinct, edges' = Append(edges, Edge)
    PROVE  Distinct'
<1> DEFINE e == Edge
<1>1. e \in Edges /\ edges \in Seq(Edges) /\ edges' = Append(edges, e)
  BY NewEdge DEF TypeOK
<1>2. \A j \in DOMAIN edges : Zero \notin Ends(edges[j]) =>
          ~SameTransfer(edges[j], e) /\ ~SameTransfer(e, edges[j])
  BY NewTransfer
<1> HIDE DEF e
<1>3. \A j \in DOMAIN edges' : \/ j \in DOMAIN edges /\ edges'[j] = edges[j]
                               \/ j = Len(edges) + 1 /\ edges'[j] = e
  BY <1>1
<1>4. \A g : SameTransfer(g, e) \/ SameTransfer(e, g) => Ends(g) = Ends(e)
  BY DEF SameTransfer, Ends
<1> SUFFICES ASSUME NEW i \in DOMAIN edges', NEW j \in DOMAIN edges', i # j, Zero \notin Ends(edges'[i]),
                    SameTransfer(edges'[i], edges'[j])
             PROVE  FALSE
  BY DEF Distinct, SameTransfer, Ends
<1>5. CASE i \in DOMAIN edges /\ j \in DOMAIN edges
  BY <1>3, <1>5, <1>1 DEF Distinct
<1>6. CASE i \in DOMAIN edges /\ j \notin DOMAIN edges
  BY <1>2, <1>3, <1>6, <1>1
<1>7. CASE i \notin DOMAIN edges /\ j \in DOMAIN edges
  BY <1>2, <1>3, <1>4, <1>7, <1>1
<1>8. CASE i \notin DOMAIN edges /\ j \notin DOMAIN edges
  BY <1>3, <1>8
<1> QED  BY <1>5, <1>6, <1>7, <1>8

\* Adding the edge and its branch, or a burn, keeps the edges recorded.
LEMMA RecordedStep ==
    ASSUME TypeOK, WalkHolds, Kept, Recorded, edges' = Append(edges, Edge), Same(branches, branches'),
           Zero \notin Ends(Edge) => EdgeKey(Edge) \in Visited'
    PROVE  Recorded'
<1> DEFINE e == Edge
<1>1. e \in Edges /\ edges \in Seq(Edges) /\ edges' = Append(edges, e)
  BY NewEdge DEF TypeOK
<1>2. Zero \notin Ends(e) => EdgeKey(e) \in Visited'
  OBVIOUS
<1> HIDE DEF e
<1>3. \A j \in DOMAIN edges' : edges'[j] = e \/ (j \in DOMAIN edges /\ edges'[j] = edges[j])
  BY <1>1
<1>4. Visited \subseteq Visited'
  BY DEF Visited, Same, Key
<1>5. \A j \in DOMAIN edges' : Zero \notin Ends(edges'[j]) => EdgeKey(edges'[j]) \in Visited'
  BY <1>2, <1>3, <1>4 DEF Recorded
<1> QED  BY <1>5 DEF Recorded, Ends, EdgeKey, Peer

LEMMA RecordsStep ==
    ASSUME TypeOK, BranchesHold, StoreHolds, EdgesHold, WalkHolds, RecordsHold, [Next]_vars
    PROVE  RecordsHold'
<1> SUFFICES ASSUME extensions' = 0
             PROVE  /\ IsFiniteSet(DOMAIN nodes') /\ Cardinality(DOMAIN nodes') <= MaxNodes
                    /\ ~Full' => Recorded' /\ Distinct'
  <2> DEFINE W == extensions = 0 => IsFiniteSet(DOMAIN nodes) /\ Cardinality(DOMAIN nodes) <= MaxNodes
  <2> DEFINE V == extensions = 0 /\ ~Full => Recorded /\ Distinct
  <2>1. W' /\ V'
    OBVIOUS
  <2>2. (RecordsHold <=> W /\ V)'
    BY RecordsAre, PTL
  <2> QED  BY <2>1, <2>2
<1>1. IsFiniteSet(DOMAIN nodes') /\ Cardinality(DOMAIN nodes') <= MaxNodes
  BY NodesStep
<1> SUFFICES ASSUME ~Full' PROVE Recorded' /\ Distinct'
  BY <1>1
<1>2. CASE Start
  <2>1. edges' = <<>>
    BY <1>2, StartIs
  <2> QED  BY <2>1 DEF Recorded, Distinct
<1> SUFFICES ASSUME ~Start PROVE Recorded' /\ Distinct'
  BY <1>2
<1>3. /\ extensions = 0 /\ ~(\E a \in Addresses, d \in {"in", "out"} : Extend(a, d)) /\ ~Full
  BY NodesStep, OnlyExtendCounts
<1>4. Recorded /\ Distinct
  BY <1>3, RecordsAre
<1>5. Same(branches, branches')
  BY GrownStep DEF Grown
<1>6. CASE UNCHANGED edges
  <2>1. Visited \subseteq Visited'
    BY <1>5 DEF Visited, Same, Key
  <2> QED  BY <1>4, <1>6, <2>1 DEF Recorded, Distinct, Ends, EdgeKey, Peer, SameTransfer
<1>7. ASSUME Kept, edges' = Append(edges, Edge), Zero \notin Ends(Edge) => EdgeKey(Edge) \in Visited'
      PROVE  Recorded' /\ Distinct'
  BY <1>4, <1>5, <1>7, DistinctStep, RecordedStep
<1>8. CASE Burn
  <2>1. Kept /\ edges' = Append(edges, Edge) /\ Other = Zero
    BY <1>8 DEF Burn, Followed
  <2>2. Zero \in Ends(Edge)
    BY <2>1, KeptIs
  <2> QED  BY <1>7, <2>1, <2>2
<1>9. ASSUME NEW outcome, Follow(outcome) PROVE Recorded' /\ Distinct'
  <2>1. Kept /\ Other # Zero /\ edges' = Append(edges, Edge) /\ branches' = Append(branches, Opened)
    BY <1>3, <1>9, Followings
  <2>2. /\ Len(branches) + 1 \in DOMAIN branches' /\ branches'[Len(branches) + 1] = Opened
    BY <2>1, NewBranch, BranchesType
  <2>3. Key(Opened) \in Visited'
    BY <2>2 DEF Visited, Key
  <2>4. Key(Opened) = EdgeKey(Edge)
    BY DEF Key, Opened, Branch, EdgeKey, Edge, Peer, Other
  <2> QED  BY <1>7, <2>1, <2>3, <2>4
<1> QED  BY <1>3, <1>6, <1>8, <1>9, OnlyHopsAdd

-----------------------------------------------------------------------------
(* Every branch has been entered, and what has been spent from it.         *)

LEMMA ReachedStays ==
    ASSUME Same(edges, edges'), NEW f, NEW d, Reached(f, d)
    PROVE  Reached(f, d)'
BY DEF Reached, Same, Peer

Entry(b) == [tx |-> b.tx, asset |-> b.asset, from |-> b.addr, to |-> b.addr]

LEMMA EntriesStep ==
    ASSUME TypeOK, BranchesHold, StoreHolds, WalkHolds, EntriesHold, [Next]_vars
    PROVE  EntriesHold'
<1>1. CASE Start
  <2>1. \A i \in DOMAIN branches' : branches'[i].tx = None
    BY <1>1, StartIs
  <2> QED  BY <2>1 DEF EntriesHold
<1> SUFFICES ASSUME ~Start PROVE EntriesHold'
  BY <1>1
<1>2. Same(edges, edges') /\ Same(branches, branches')
  BY GrownStep DEF Grown
<1>3. \A i \in DOMAIN branches : branches[i].tx # None => Reached(Entry(branches[i]), branches[i].dir)
  BY DEF EntriesHold, Entry
<1>4. SUFFICES ASSUME NEW b, b.tx # None, \E i \in DOMAIN branches' : branches'[i] = b
               PROVE  Reached(Entry(b), b.dir)'
  BY DEF EntriesHold, Entry
<1>5. CASE \E i \in DOMAIN branches : branches[i] = b
  BY <1>2, <1>3, <1>4, <1>5, ReachedStays
<1>6. ASSUME NEW outcome, Follow(outcome), branches' = Append(branches, Opened), b = Opened
      PROVE  Reached(Entry(b), b.dir)'
  <2>1. Kept /\ Other # Zero /\ edges' = Append(edges, Edge)
    BY <1>6, Followings
  <2>2. Len(edges') \in DOMAIN edges' /\ edges'[Len(edges')] = Edge
    BY <2>1, <1>2, EdgesType DEF Same
  <2>3. /\ b.tx = F.tx /\ b.asset = F.asset /\ b.dir = B.dir /\ b.addr = Other
    BY <1>6 DEF Opened, Branch
  <2>4. Edge.tx = b.tx /\ Edge.asset = b.asset /\ Edge.dir = b.dir /\ Peer(Edge, b.dir) = b.addr
    BY <2>3 DEF Edge, Other, Peer
  <2>5. Peer(Entry(b), b.dir) = b.addr
    BY DEF Peer, Entry
  <2>6. Entry(b).tx = b.tx /\ Entry(b).asset = b.asset
    BY DEF Entry
  <2>7. edges'[Len(edges')].dir = b.dir /\ Peer(edges'[Len(edges')], b.dir) = Peer(Entry(b), b.dir)
    BY <2>2, <2>4, <2>5
  <2>8. edges'[Len(edges')].tx = Entry(b).tx /\ edges'[Len(edges')].asset = Entry(b).asset
    BY <2>2, <2>4, <2>6
  <2> QED  BY <2>2, <2>7, <2>8 DEF Reached, Peer
<1>7. UNCHANGED branches \/ \E outcome : Follow(outcome) /\ branches' = Append(branches, Opened)
  BY OnlyFollowOpens, Followings
<1>8. ASSUME NEW outcome, Follow(outcome), branches' = Append(branches, Opened)
      PROVE  b = Opened \/ \E i \in DOMAIN branches : branches[i] = b
  <2>1. Opened \in Branches
    BY <1>8, Followings, NewBranch
  <2> QED  BY <1>4, <1>8, <2>1, BranchesType
<1> QED  BY <1>4, <1>5, <1>6, <1>7, <1>8

\* The numbers that SpentBy adds up.
Spendings(i) == [j \in DOMAIN edges |-> IF edges[j].parent = i THEN edges[j].amount ELSE 0]

LEMMA SpendingsType ==
    ASSUME TypeOK, NEW i
    PROVE  Spendings(i) \in Seq(Nat) /\ Len(Spendings(i)) = Len(edges) /\ SpentBy(i) = Sum(Spendings(i))
<1>1. DOMAIN edges = 1 .. Len(edges) /\ Len(edges) \in Nat /\ \A j \in DOMAIN edges : edges[j].amount \in Nat
  BY EdgesAre
<1>2. \A j \in DOMAIN edges : (IF edges[j].parent = i THEN edges[j].amount ELSE 0) \in Nat
  BY <1>1
<1> QED  BY <1>1, <1>2 DEF Spendings, SpentBy

LEMMA SpentType == ASSUME TypeOK, NEW i PROVE SpentBy(i) \in Nat
BY SpendingsType, SumType

LEMMA SpentNothing ==
    ASSUME TypeOK, NEW i, \A j \in DOMAIN edges : edges[j].parent # i
    PROVE  SpentBy(i) = 0
<1>1. Spendings(i) \in Seq(Nat) /\ SpentBy(i) = Sum(Spendings(i)) /\ Len(Spendings(i)) = Len(edges)
  BY SpendingsType
<1>2. \A k \in 1 .. Len(Spendings(i)) : Spendings(i)[k] = 0
  BY <1>1, EdgesAre DEF Spendings
<1> QED  BY <1>1, <1>2, SumOfZeros

\* An edge more.
LEMMA SpentMore ==
    ASSUME TypeOK, TypeOK', NEW e, edges' = Append(edges, e), NEW i
    PROVE  SpentBy(i)' = SpentBy(i) + (IF e.parent = i THEN e.amount ELSE 0)
<1> DEFINE s == Spendings(i)
<1>0. PICK t : t = Spendings(i)'
  OBVIOUS
<1>1. s \in Seq(Nat) /\ Len(s) = Len(edges) /\ SpentBy(i) = Sum(s)
  BY SpendingsType
<1>2. t \in Seq(Nat) /\ Len(t) = Len(edges') /\ SpentBy(i)' = Sum(t)
  <2>1. (Spendings(i) \in Seq(Nat) /\ Len(Spendings(i)) = Len(edges) /\ SpentBy(i) = Sum(Spendings(i)))'
    BY SpendingsType, PTL
  <2> QED  BY <1>0, <2>1
<1>3. /\ Len(edges') = Len(edges) + 1 /\ edges'[Len(edges')] = e
      /\ \A k \in 1 .. Len(edges) : edges'[k] = edges[k]
  BY DEF TypeOK
<1>4. /\ t[Len(t)] = IF e.parent = i THEN e.amount ELSE 0
      /\ \A k \in 1 .. Len(edges) : t[k] = s[k]
  <2>1. t = [j \in DOMAIN edges' |-> IF edges'[j].parent = i THEN edges'[j].amount ELSE 0]
    BY <1>0 DEF Spendings
  <2>2. DOMAIN edges' = 1 .. Len(edges') /\ DOMAIN edges = 1 .. Len(edges) /\ Len(edges) \in Nat
    BY DEF TypeOK
  <2> QED  BY <1>2, <1>3, <2>1, <2>2 DEF Spendings
<1> HIDE DEF s
<1>5. Sum(t) = Sum(s) + t[Len(t)]
  BY <1>1, <1>2, <1>3, <1>4, SumAppend
<1> QED  BY <1>1, <1>2, <1>4, <1>5

\* Edges that continue no branch.
LEMMA SpentExtended ==
    ASSUME TypeOK, TypeOK', NEW fresh \in Seq(Edges), edges' = edges \o fresh,
           \A k \in DOMAIN fresh : fresh[k].parent = 0, NEW i, i # 0
    PROVE  SpentBy(i)' = SpentBy(i)
<1> DEFINE s == Spendings(i)
<1>0. PICK t : t = Spendings(i)'
  OBVIOUS
<1>1. s \in Seq(Nat) /\ Len(s) = Len(edges) /\ SpentBy(i) = Sum(s)
  BY SpendingsType
<1>2. t \in Seq(Nat) /\ Len(t) = Len(edges') /\ SpentBy(i)' = Sum(t)
  <2>1. (Spendings(i) \in Seq(Nat) /\ Len(Spendings(i)) = Len(edges) /\ SpentBy(i) = Sum(Spendings(i)))'
    BY SpendingsType, PTL
  <2> QED  BY <1>0, <2>1
<1>3. /\ edges \in Seq(Edges) /\ Len(edges') = Len(edges) + Len(fresh)
      /\ Same(edges, edges')
      /\ \A j \in DOMAIN edges' : j \in DOMAIN edges \/ edges'[j].parent = 0
  <2>1. edges \in Seq(Edges)
    BY DEF TypeOK
  <2>2. PICK u : u = edges'
    OBVIOUS
  <2>3. u = edges \o fresh
    BY <2>2
  <2>5. Len(u) = Len(edges) + Len(fresh) /\ Same(edges, u)
    BY <2>1, <2>3, Concat
  <2>6. \A j \in DOMAIN u :
               j \in DOMAIN edges \/ (j - Len(edges) \in DOMAIN fresh /\ u[j] = fresh[j - Len(edges)])
    BY <2>1, <2>3, Concat
  <2>4. \A j \in DOMAIN u : j \in DOMAIN edges \/ u[j].parent = 0
    BY <2>6
  <2> QED  BY <2>1, <2>2, <2>4, <2>5
<1>4. /\ DOMAIN edges' = 1 .. Len(edges') /\ DOMAIN edges = 1 .. Len(edges)
      /\ Len(edges) \in Nat /\ Len(fresh) \in Nat /\ Len(edges') \in Nat
  <2>1. edges \in Seq(Edges) /\ edges' \in Seq(Edges)
    BY DEF TypeOK
  <2> QED  BY <2>1
<1>5. t = [j \in DOMAIN edges' |-> IF edges'[j].parent = i THEN edges'[j].amount ELSE 0]
  BY <1>0 DEF Spendings
<1>6. \A k \in 1 .. Len(s) : t[k] = s[k]
  BY <1>1, <1>3, <1>4, <1>5 DEF Spendings, Same
<1>7. \A k \in Len(s) + 1 .. Len(t) : t[k] = 0
  BY <1>1, <1>2, <1>3, <1>4, <1>5
<1>8. Len(s) <= Len(t)
  BY <1>1, <1>2, <1>3, <1>4
<1> HIDE DEF s
<1>9. Sum(t) = Sum(s)
  BY <1>1, <1>2, <1>6, <1>7, <1>8, SumZeros
<1> QED  BY <1>1, <1>2, <1>9

\* A step spends nothing, or the edge of the candidate in hand.
LEMMA SpentStep ==
    ASSUME TypeOK, TypeOK', WalkHolds, [Next]_vars, ~Start, NEW i, i # 0
    PROVE  \/ SpentBy(i)' = SpentBy(i)
           \/ /\ Kept /\ i = cur /\ SpentBy(i)' = SpentBy(i) + Paid
              /\ Burn \/ \E outcome : Follow(outcome)
<1>1. CASE UNCHANGED edges
  BY <1>1 DEF SpentBy
<1>2. ASSUME NEW a \in Addresses, NEW d \in {"in", "out"}, Extend(a, d)
      PROVE  SpentBy(i)' = SpentBy(i)
  <2>1. PICK fresh \in Seq(Edges) : Added(a, d, fresh)
    BY <1>2, Extension DEF Extended
  <2>2. edges' = edges \o fresh /\ \A k \in DOMAIN fresh : fresh[k].parent = 0
    BY <2>1 DEF Added
  <2> QED  BY <2>2, SpentExtended
<1>3. CASE Burn \/ \E outcome : Follow(outcome)
  <2>1. Kept /\ edges' = Append(edges, Edge)
    BY <1>3, Followings DEF Burn, Followed
  <2>2. Edge.parent = cur /\ Edge.amount = Paid /\ SpentBy(i) \in Nat
    BY <2>1, NewEdge, SpentType
  <2> DEFINE e == Edge
  <2>3. edges' = Append(edges, e) /\ e.parent = cur /\ e.amount = Paid
    BY <2>1, <2>2
  <2> HIDE DEF e
  <2>4. SpentBy(i)' = SpentBy(i) + (IF e.parent = i THEN e.amount ELSE 0)
    BY <2>3, SpentMore
  <2>5. CASE i = cur
    BY <1>3, <2>1, <2>3, <2>4, <2>5
  <2>6. CASE i # cur
    <3> DEFINE x == SpentBy(i)
    <3>1. SpentBy(i)' = x + 0 /\ x \in Nat
      BY <2>2, <2>3, <2>4, <2>6
    <3> HIDE DEF x
    <3>2. x + 0 = x
      BY <3>1
    <3> QED  BY <3>1, <3>2 DEF x
  <2> QED  BY <2>5, <2>6
<1> QED  BY <1>1, <1>2, <1>3, OnlyHopsAdd

-----------------------------------------------------------------------------
(* The budget of the branch in expansion.                                  *)

LEMMA Budgets ==
    ASSUME [Next]_vars, pc = "walk", pc' = "walk"
    PROVE  \/ UNCHANGED <<edges, budget>>
           \/ /\ budget' = Rest /\ Considered
              /\ \/ Burn \/ \E outcome : Follow(outcome)
                 \/ UNCHANGED edges /\ (Dust \/ NodeLimit)
<1>1. CASE Takings
  BY <1>1 DEF Takings, Drop, Takes, TakeQuery, TakeConversion
<1>2. CASE Skip
  BY <1>2 DEF Skip, result
<1>3. CASE Dust
  BY <1>3 DEF Dust, Consumed, result
<1>4. CASE NodeLimit
  BY <1>4 DEF NodeLimit, Consumed, Kept
<1>5. CASE Burn
  BY <1>5 DEF Burn, Consumed, Followed, Kept
<1>6. ASSUME NEW outcome, Follow(outcome) PROVE budget' = Rest /\ Considered
  BY <1>6 DEF Follow, Consumed, Followed, Kept
<1>7. CASE Miss \/ MissSeed
  BY <1>7 DEF Miss, MissSeed, Depend
<1>8. CASE Others
  BY <1>8 DEF Others, Start, Expanded, EndRound, Finish, vars, Analyse, AnalysisFails, walk, result
<1>9. CASE \E a \in Addresses : ClientSync(a) \/ SyncEnds(a)
  BY <1>9 DEF ClientSync, SyncEnds, walk, result
<1>10. CASE \E a \in Addresses, d \in {"in", "out"} : Extend(a, d)
  BY <1>10 DEF Extend
<1> QED  BY <1>1, <1>2, <1>3, <1>4, <1>5, <1>6, <1>7, <1>8, <1>9, <1>10, StepsAre DEF Expansions

\* The branches, what they convert and whether their amount is limited, stay.
LEMMA BranchStays ==
    ASSUME TypeOK, BranchesHold, StoreHolds, WalkHolds, [Next]_vars, ~Start, NEW i \in DOMAIN branches
    PROVE  /\ i \in DOMAIN branches' /\ branches'[i] = branches[i] /\ i # 0 /\ branches[i] \in Branches
           /\ Converts(branches[i])' = Converts(branches[i]) /\ Limited(i)' = Limited(i)
           /\ branches[i].addr \in DOMAIN nodes
           /\ nodes[branches[i].addr].terminal => nodes'[branches[i].addr].terminal
<1>1. Grown
  BY GrownStep
<1>2. i \in DOMAIN branches' /\ branches'[i] = branches[i]
  BY <1>1 DEF Grown, Same
<1>3. Converts(branches[i])' = Converts(branches[i])
  BY <1>1, <1>2 DEF Grown, Converts, Contract
<1>4. Limited(i)' = Limited(i)
  BY <1>2, <1>3 DEF Limited
<1>5. i # 0 /\ branches[i] \in Branches /\ branches[i].addr \in DOMAIN nodes
  BY DEF TypeOK, BranchesHold
<1>6. nodes[branches[i].addr].terminal => nodes'[branches[i].addr].terminal
  BY <1>1, <1>5 DEF Grown, Grows
<1> QED  BY <1>2, <1>3, <1>4, <1>5, <1>6

LEMMA WithinStep ==
    ASSUME TypeOK, TypeOK', BranchesHold, StoreHolds, WalkHolds, BudgetHolds, [Next]_vars
    PROVE  WithinBudget'
<1>1. CASE Start
  <2>1. \A i \in DOMAIN branches' : branches'[i].amount = None
    BY <1>1, StartIs
  <2> QED  BY <2>1 DEF WithinBudget
<1> SUFFICES ASSUME ~Start PROVE WithinBudget'
  BY <1>1
<1> SUFFICES ASSUME NEW i \in DOMAIN branches', Limited(i)'
             PROVE  SpentBy(i)' <= branches'[i].amount
  BY DEF WithinBudget, Limited
<1>2. branches'[i].amount \in Nat /\ i # 0
  <2>0. branches' \in Seq(Branches)
    BY DEF TypeOK
  <2>1. branches'[i] \in Branches /\ i # 0
    BY <2>0
  <2>2. branches'[i].amount # None
    BY DEF Limited
  <2> QED  BY <2>1, <2>2 DEF Branches
<1>3. CASE i \in DOMAIN branches
  <2>1. /\ branches'[i] = branches[i] /\ Limited(i) /\ SpentBy(i) \in Nat
        /\ SpentBy(i) <= branches[i].amount
    BY <1>3, BranchStays, SpentType DEF BudgetHolds, WithinBudget, Limited
  <2>2. CASE SpentBy(i)' = SpentBy(i)
    BY <2>1, <2>2
  <2>3. CASE Kept /\ i = cur /\ SpentBy(i)' = SpentBy(i) + Paid
    <3>1. pc = "walk" /\ todo # <<>>
      BY <2>3 DEF Kept, Considered
    <3>2. budget # None /\ budget <= branches[i].amount - SpentBy(i)
      BY <2>1, <2>3, <3>1 DEF BudgetHolds, B
    <3>3. Paid \in Nat /\ Paid <= budget
      BY <3>1, <3>2, Candidate
    <3> DEFINE x == SpentBy(i)
    <3> DEFINE y == Paid
    <3> DEFINE z == branches[i].amount
    <3>6. budget \in Int
      BY DEF TypeOK, None
    <3>4. /\ x \in Nat /\ y \in Nat /\ z \in Nat /\ budget \in Int /\ y <= budget /\ budget <= z - x
          /\ SpentBy(i)' = x + y /\ branches'[i].amount = z
      BY <1>2, <2>1, <2>3, <3>2, <3>3, <3>6
    <3> HIDE DEF x, y, z
    <3>5. x + y <= z
      BY <3>4
    <3> QED  BY <3>4, <3>5
  <2> QED  BY <1>2, <2>2, <2>3, SpentStep
<1>4. CASE i \notin DOMAIN branches
  <2>1. \A j \in DOMAIN edges : edges[j].parent # i
    BY <1>2, <1>4, EdgesAre
  <2>2. SpentBy(i) = 0
    BY <2>1, SpentNothing
  <2>3. ~(Kept /\ i = cur)
    BY <1>4, KeptIs
  <2>4. SpentBy(i)' = 0
    BY <1>2, <2>2, <2>3, SpentStep
  <2> QED  BY <1>2, <2>4
<1> QED  BY <1>3, <1>4

\* What BudgetHolds says of the branch i in expansion, with b still to be spent.
Balanced(i, b) ==
    /\ IF Limited(i) THEN b # None /\ b <= branches[i].amount - SpentBy(i) ELSE b = None
    /\ Limited(i) => \/ b = branches[i].amount - SpentBy(i) \/ nodes[branches[i].addr].terminal
                     \/ b = 0 /\ Exhausted(i)
LEMMA BudgetIs == BudgetHolds <=> WithinBudget /\ (pc = "walk" => Balanced(cur, budget))
BY DEF BudgetHolds, Balanced, B

\* A branch that begins to be expanded has spent nothing.
LEMMA BudgetBegins ==
    ASSUME TypeOK, BranchesHold, StoreHolds, EdgesHold, WalkHolds, [Next]_vars,
           NEW i \in frontier, Begins(i)
    PROVE  Balanced(i, budget)'
<1>1. i \in DOMAIN branches /\ pc = "round"
  BY DEF Begins, TypeOK
<1>2. ~Start
  BY <1>1 DEF Start
<1>3. /\ branches'[i] = branches[i] /\ Limited(i)' = Limited(i) /\ branches[i] \in Branches
  BY <1>1, <1>2, BranchStays
<1>4. SpentBy(i)' = 0
  <2>1. \A j \in DOMAIN edges : edges[j].parent # i
    BY DEF EdgesHold
  <2>2. SpentBy(i) = 0
    BY <2>1, SpentNothing
  <2>3. UNCHANGED edges
    BY DEF Begins, result
  <2> QED  BY <2>2, <2>3 DEF SpentBy
<1>5. budget' = IF Limited(i) THEN branches[i].amount ELSE None
  BY DEF Begins, Limited
<1>6. Limited(i) => branches[i].amount \in Nat /\ branches[i].amount # None
  BY <1>3 DEF Limited, Branches
<1> DEFINE m == branches[i].amount
<1>7. Limited(i) => m <= m - 0 /\ m = m - 0
  <2>1. Limited(i) => m \in Nat
    BY <1>6
  <2> HIDE DEF m
  <2> QED  BY <2>1
<1> QED  BY <1>3, <1>4, <1>5, <1>6, <1>7 DEF Balanced

\* What is taken from the budget is spent, or is nothing but dust, or the branch is a stop.
LEMMA BudgetProceeds ==
    ASSUME TypeOK, TypeOK', BranchesHold, StoreHolds, WalkHolds, BudgetHolds, [Next]_vars,
           pc = "walk", pc' = "walk"
    PROVE  Balanced(cur, budget)'
<1>0. ~Start /\ cur \in DOMAIN branches /\ Balanced(cur, budget) /\ cur' = cur
  <2>1. cur' = cur
    BY Walks DEF Proceeds, Begins
  <2> QED  BY <2>1, BudgetIs DEF Start, WalkHolds
<1> PICK i : i = cur
  OBVIOUS
<1>1. /\ branches'[i] = branches[i] /\ Limited(i)' = Limited(i) /\ branches[i] \in Branches /\ i # 0
      /\ nodes[branches[i].addr].terminal => nodes'[branches[i].addr].terminal
      /\ branches[i].addr \in DOMAIN nodes /\ B = branches[i]
  BY <1>0, BranchStays DEF B
<1> SUFFICES Balanced(i, budget)'
  BY <1>0 DEF Balanced
<1>2. Balanced(i, budget) /\ SpentBy(i) \in Nat /\ budget \in Nat \cup {None}
  BY <1>0, SpentType DEF TypeOK
<1>3. CASE UNCHANGED <<edges, budget>>
  <2>1. SpentBy(i)' = SpentBy(i)
    BY <1>3 DEF SpentBy
  <2>2. Exhausted(i)' = Exhausted(i)
    BY <1>1, <2>1 DEF Exhausted
  <2> QED  BY <1>1, <1>2, <1>3, <2>1, <2>2 DEF Balanced
<1>4. CASE budget' = Rest /\ Considered /\ ~Limited(i)
  <2>1. budget = None
    BY <1>2, <1>4 DEF Balanced
  <2> QED  BY <1>1, <1>4, <2>1 DEF Rest, Balanced
<1>5. CASE /\ budget' = Rest /\ Considered /\ Limited(i)
           /\ \/ Burn \/ \E outcome : Follow(outcome)
              \/ UNCHANGED edges /\ (Dust \/ NodeLimit)
  <2> DEFINE x == SpentBy(i)
  <2> DEFINE y == Paid
  <2> DEFINE z == branches[i].amount
  <2>1. todo # <<>> /\ budget # None /\ budget # 0 /\ budget \in Nat
    BY <1>2, <1>5 DEF Considered, Ignored, Balanced
  <2>2. y \in Nat /\ y <= budget /\ budget' = budget - y
    BY <1>5, <2>1, Candidate
  <2>3. z \in Nat
    BY <1>1, <1>5 DEF Branches, Limited
  <2>4. /\ budget <= z - x /\ x \in Nat
        /\ budget = z - x \/ nodes[branches[i].addr].terminal
    BY <1>2, <1>5, <2>1 DEF Balanced
  <2>5. CASE Burn \/ \E outcome : Follow(outcome)
    <3>1. Kept
      BY <2>5, Followings DEF Burn, Followed
    <3>2. SpentBy(i)' = x + y
      <4>1. edges' = Append(edges, Edge)
        BY <2>5, Followings DEF Burn
      <4>2. Edge.parent = i /\ Edge.amount = y
        BY <3>1, NewEdge
      <4> DEFINE e == Edge
      <4>3. edges' = Append(edges, e) /\ e.parent = i /\ e.amount = y
        BY <4>1, <4>2
      <4> HIDE DEF e
      <4> QED  BY <4>3, SpentMore
    <3> HIDE DEF x, y, z
    <3>3. budget' <= z - (x + y) /\ budget' \in Nat /\ (budget = z - x => budget' = z - (x + y))
      BY <2>1, <2>2, <2>3, <2>4
    <3>4. budget' # None
      BY <3>3 DEF None
    <3> QED  BY <1>1, <1>5, <2>4, <3>2, <3>3, <3>4 DEF Balanced, z
  <2>6. CASE UNCHANGED edges /\ NodeLimit
    <3>1. SpentBy(i)' = x
      BY <2>6 DEF SpentBy
    <3>2. nodes'[branches[i].addr].terminal
      BY <1>1, <2>6 DEF NodeLimit, SetTerminal
    <3> HIDE DEF x, y, z
    <3>3. budget' <= z - x /\ budget' \in Nat
      BY <2>1, <2>2, <2>3, <2>4
    <3>4. budget' # None
      BY <3>3 DEF None
    <3> QED  BY <1>1, <1>5, <3>1, <3>2, <3>3, <3>4 DEF Balanced, z
  <2>7. CASE UNCHANGED edges /\ Dust
    <3>1. SpentBy(i)' = x
      BY <2>7 DEF SpentBy
    <3>2. ~Enough(F, Paid) /\ Enough(F, F.amount) /\ Supported(F)
      BY <2>7 DEF Dust, Considered, Ignored
    <3>3. y = budget
      BY <2>1, <3>2 DEF Paid
    <3>4. branches[i].asset = F.asset
      <4>1. ~Converts(B) /\ B.amount # None
        BY <1>1, <1>5 DEF Limited
      <4>2. B.asset # "all"
        BY <1>0, <4>1 DEF BranchesHold, B
      <4>3. F = todo[1] /\ 1 \in DOMAIN todo
        BY <2>1, Candidate
      <4>4. B.asset \in {"all", F.asset}
        BY <4>1, <4>3 DEF WalkHolds
      <4> QED  BY <1>1, <4>2, <4>4
    <3>5. Threshold[F.asset] \in Nat /\ ~(y >= Threshold[F.asset])
      BY <3>2, ConstantsAssumption DEF Enough, Supported
    <3> DEFINE h == Threshold[F.asset]
    <3>6. budget = z - x => z - x < h
      <4> HIDE DEF x, y, z, h
      <4>1. h \in Nat /\ ~(y >= h)
        BY <3>5 DEF h
      <4> QED  BY <2>1, <2>3, <2>4, <3>3, <4>1
    <3>7. budget' = 0 /\ budget' <= z - x
      <4> HIDE DEF x, y, z
      <4> QED  BY <2>1, <2>2, <2>3, <2>4, <3>3
    <3>8. budget = z - x => Exhausted(i)'
      BY <1>1, <1>5, <3>1, <3>4, <3>6 DEF Exhausted, Limited
    <3>9. budget' # None
      BY <3>7 DEF None
    <3> HIDE DEF x, y
    <3> QED  BY <1>1, <1>5, <2>4, <3>1, <3>7, <3>8, <3>9 DEF Balanced
  <2> QED  BY <1>5, <2>5, <2>6, <2>7
<1> QED  BY <1>3, <1>4, <1>5, Budgets

LEMMA BudgetStep ==
    ASSUME TypeOK, TypeOK', BranchesHold, StoreHolds, EdgesHold, WalkHolds, BudgetHolds, [Next]_vars
    PROVE  BudgetHolds'
<1>1. WithinBudget'
  BY WithinStep
<1>2. ASSUME pc' = "walk" PROVE Balanced(cur, budget)'
  <2>1. CASE Proceeds
    BY <1>2, <2>1, BudgetProceeds DEF Proceeds
  <2>2. ASSUME NEW i \in frontier, Begins(i) PROVE Balanced(cur, budget)'
    <3>1. Balanced(i, budget)' /\ cur' = i
      BY <2>2, BudgetBegins DEF Begins
    <3> QED  BY <3>1 DEF Balanced
  <2> QED  BY <1>2, <2>1, <2>2, Walks
<1>3. (BudgetHolds <=> WithinBudget /\ (pc = "walk" => Balanced(cur, budget)))'
  BY BudgetIs, PTL
<1> QED  BY <1>1, <1>2, <1>3

-----------------------------------------------------------------------------
(* What is a stop, and what is admitted.                                   *)

\* What StopsHold says of the reasons.
Honest == data = "synced" => \A a \in DOMAIN nodes : nodes[a].why \notin Cuts

\* Marking nodes for another reason.
LEMMA MarkHonest ==
    ASSUME Honest, NEW A, NEW why, why \notin Cuts, nodes' = SetTerminal(nodes, A, why), data' \in {data, "partial"}
    PROVE  Honest'
BY DEF Honest, SetTerminal

LEMMA FollowHonest ==
    ASSUME TypeOK, WalkHolds, Honest, NEW outcome, Follow(outcome)
    PROVE  Honest'
<1> DEFINE crossed == outcome = "resolved"
<1> DEFINE why == StopReason(crossed)
<1> DEFINE marked == IF crossed THEN SetTerminal(nodes, {Other}, why) ELSE nodes
<1>1. /\ data' = IF outcome = "unavailable" \/ High(Other) \/ (~Full /\ Other \in given)
                   THEN "partial" ELSE data
      /\ \/ Full /\ nodes' = marked
         \/ /\ ~Full
            /\ nodes' = [a \in DOMAIN nodes \cup {Other} |->
                     IF a \in DOMAIN nodes THEN marked[a] ELSE [terminal |-> why # "", why |-> why]]
  BY DEF Follow
<1>2. why \in Cuts => ~crossed /\ (High(Other) \/ Other \in given)
  BY DEF StopReason, Cuts
<1> HIDE DEF why
<1>3. SUFFICES ASSUME data' = "synced" PROVE \A a \in DOMAIN nodes' : nodes'[a].why \notin Cuts
  BY DEF Honest
<1>4. data = "synced" /\ ~High(Other) /\ ~(~Full /\ Other \in given)
  BY <1>1, <1>3
<1>5. DOMAIN marked = DOMAIN nodes /\ \A a \in DOMAIN nodes : marked[a].why \notin Cuts
  <2>1. CASE crossed
    BY <1>2, <1>4, <2>1 DEF Honest, SetTerminal
  <2>2. CASE ~crossed
    BY <1>4, <2>2 DEF Honest
  <2> QED  BY <2>1, <2>2
<1> HIDE DEF marked
<1>6. ~Full => why \notin Cuts
  BY <1>2, <1>4
<1>7. CASE Full /\ nodes' = marked
  BY <1>5, <1>7
<1>8. CASE /\ ~Full
           /\ nodes' = [a \in DOMAIN nodes \cup {Other} |->
                     IF a \in DOMAIN nodes THEN marked[a] ELSE [terminal |-> why # "", why |-> why]]
  <2>1. \A a \in DOMAIN nodes' : nodes'[a].why = IF a \in DOMAIN nodes THEN marked[a].why ELSE why
    BY <1>8
  <2>2. DOMAIN nodes' = DOMAIN nodes \cup {Other}
    BY <1>8
  <2> QED  BY <1>5, <1>6, <1>8, <2>1, <2>2
<1> QED  BY <1>1, <1>7, <1>8

LEMMA HonestStep ==
    ASSUME TypeOK, BranchesHold, StoreHolds, WalkHolds, Honest, [Next]_vars
    PROVE  Honest'
<1>0. CASE UNCHANGED <<nodes, data>>
  BY <1>0 DEF Honest
<1>1. CASE Takings
  <2>1. PICK i \in frontier : Drop(i) \/ TakeQuery(i) \/ TakeConversion(i)
    BY <1>1 DEF Takings
  <2>2. CASE Drop(i)
    BY <2>2 DEF Drop, Takes, result, Honest
  <2>3. CASE TakeQuery(i)
    BY <2>3 DEF TakeQuery, StopAt, result, Honest
  <2>4. CASE TakeConversion(i)
    <3>1. UNCHANGED data
      BY <2>4 DEF TakeConversion
    <3>2. \/ UNCHANGED nodes
          \/ nodes' = SetTerminal(nodes, {branches[i].addr}, "ambiguous_conversion")
          \/ nodes' = SetTerminal(nodes, {}, "")
      BY <2>4 DEF TakeConversion, StopAt
    <3>3. "ambiguous_conversion" \notin Cuts /\ "" \notin Cuts
      BY DEF Cuts
    <3> QED  BY <1>0, <3>1, <3>2, <3>3, MarkHonest
  <2> QED  BY <2>1, <2>2, <2>3, <2>4
<1>2. CASE Expansions
  <2>1. CASE Skip \/ Dust \/ NodeLimit
    BY <2>1 DEF Skip, Dust, NodeLimit, result, Honest
  <2>2. CASE Burn
    BY <2>2 DEF Burn, Honest, Cuts
  <2> QED  BY <1>2, <2>1, <2>2 DEF Expansions
<1>3. CASE \E outcome : Follow(outcome)
  BY <1>3, FollowHonest
<1>4. CASE Miss \/ MissSeed
  BY <1>0, <1>4 DEF Miss, MissSeed, result
<1>5. CASE Others
  <2>1. CASE Start
    <3>1. nodes' = [a \in {Seed} |-> [terminal |-> SeedStop # "", why |-> SeedStop]]
      BY <2>1, StartIs
    <3>2. data' = IF High(Seed) \/ Seed \in given THEN "partial" ELSE "synced"
      BY <2>1 DEF Start
    <3>3. SeedStop \in Cuts => High(Seed) \/ Seed \in given
      BY DEF SeedStop, Cuts
    <3> QED  BY <3>1, <3>2, <3>3 DEF Honest
  <2>2. CASE EndRound
    <3> DEFINE idle == {a \in processed \ expanded : ~nodes[a].terminal}
    <3> DEFINE marked == SetTerminal(nodes, idle, "no_matching_transfers")
    <3>1. data' = "partial" \/ (nodes' = marked /\ UNCHANGED data)
      BY <2>2 DEF EndRound
    <3>2. "no_matching_transfers" \notin Cuts
      BY DEF Cuts
    <3>3. CASE nodes' = marked /\ UNCHANGED data
      BY <3>2, <3>3, MarkHonest
    <3>4. CASE data' = "partial"
      BY <3>4 DEF Honest
    <3> QED  BY <3>1, <3>3, <3>4
  <2> QED  BY <1>0, <1>5, <2>1, <2>2 DEF Others, Expanded, Finish, vars, Analyse, AnalysisFails, result
<1>6. CASE \E a \in Addresses : ClientSync(a) \/ SyncEnds(a)
  BY <1>0, <1>6 DEF ClientSync, SyncEnds, result
<1>7. CASE \E a \in Addresses, d \in {"in", "out"} : Extend(a, d)
  <2>1. /\ data' \in {data, "partial"}
        /\ data' = "synced" => \A p \in DOMAIN nodes' :
                  \/ nodes'[p].why \notin Cuts
                  \/ p \in DOMAIN nodes /\ nodes'[p].why = nodes[p].why
    BY <1>7, Extension DEF Extended
  <2> QED  BY <2>1 DEF Honest
<1> QED  BY <1>1, <1>2, <1>3, <1>4, <1>5, <1>6, <1>7, StepsAre

\* Where a traversal goes on, and where it has been.
LEMMA PlacesStep ==
    ASSUME [Next]_vars, ~Start
    PROVE  /\ pc' \in {"round", "walk"} => pc \in {"round", "walk"} /\ UNCHANGED given
           /\ pc' \in {"end", "done"} =>
                  \/ pc \in {"end", "done"} /\ UNCHANGED <<frontier, next>>
                  \/ EndRound
<1>1. CASE Takings
  BY <1>1 DEF Takings, Drop, Takes, TakeQuery, TakeConversion, Walk, StopAt, manager
<1>2. CASE Expansions
  BY <1>2 DEF Expansions, Skip, Dust, NodeLimit, Burn, Followed, Kept, Considered, manager
<1>3. CASE \E outcome : Follow(outcome)
  BY <1>3 DEF Follow, Followed, Kept, Considered, manager
<1>4. CASE Miss \/ MissSeed
  BY <1>4 DEF Miss, MissSeed, Depend
<1>5. CASE Others
  BY <1>5 DEF Others, Expanded, EndRound, Finish, vars, Analyse, AnalysisFails, manager, round
<1>6. CASE \E a \in Addresses : ClientSync(a) \/ SyncEnds(a)
  BY <1>6 DEF ClientSync, SyncEnds, manager, round
<1>7. CASE \E a \in Addresses, d \in {"in", "out"} : Extend(a, d)
  BY <1>7 DEF Extend, manager, round
<1> QED  BY <1>1, <1>2, <1>3, <1>4, <1>5, <1>6, <1>7, StepsAre

\* The node of a candidate that was given up, is a wallet, or has crossed to another chain.
LEMMA FollowStops ==
    ASSUME TypeOK, WalkHolds, StopsHold, NEW outcome, Follow(outcome),
           outcome = "resolved" \/ Other \in given \/ kind[Other] = "wallet"
    PROVE  nodes'[Other].terminal
<1> DEFINE crossed == outcome = "resolved"
<1> DEFINE why == StopReason(crossed)
<1> DEFINE marked == IF crossed THEN SetTerminal(nodes, {Other}, why) ELSE nodes
<1>1. /\ Followed /\ Other # Zero
      /\ \/ Full /\ nodes' = marked
         \/ /\ ~Full
            /\ nodes' = [a \in DOMAIN nodes \cup {Other} |->
                     IF a \in DOMAIN nodes THEN marked[a] ELSE [terminal |-> why # "", why |-> why]]
  BY DEF Follow
<1>2. why # ""
  BY DEF StopReason
<1> HIDE DEF why
<1>3. Other \in DOMAIN nodes => marked[Other].terminal
  <2>1. CASE crossed
    BY <2>1 DEF SetTerminal
  <2>2. CASE ~crossed
    BY <1>1, <2>2 DEF StopsHold, Followed, Kept, Considered
  <2> QED  BY <2>1, <2>2
<1>4. Full => Other \in DOMAIN nodes
  BY <1>1 DEF Followed
<1> HIDE DEF marked
<1>5. CASE Full /\ nodes' = marked
  BY <1>3, <1>4, <1>5
<1>6. CASE nodes' = [a \in DOMAIN nodes \cup {Other} |->
                     IF a \in DOMAIN nodes THEN marked[a] ELSE [terminal |-> why # "", why |-> why]]
  <2>1. CASE Other \in DOMAIN nodes
    BY <1>3, <1>6, <2>1
  <2>2. CASE Other \notin DOMAIN nodes
    <3>1. nodes'[Other] = [terminal |-> why # "", why |-> why]
      BY <1>6, <2>2
    <3>2. [terminal |-> why # "", why |-> why].terminal
      BY <1>2
    <3> QED  BY <3>1, <3>2, Zenon
  <2> QED  BY <2>1, <2>2
<1> QED  BY <1>1, <1>5, <1>6

LEMMA StopsStep ==
    ASSUME TypeOK, TypeOK', BranchesHold, StoreHolds, WalkHolds, StopsHold, [Next]_vars
    PROVE  StopsHold'
<1>1. Honest'
  <2>1. Honest
    BY DEF StopsHold, Honest, Cuts
  <2> QED  BY <2>1, HonestStep
<1>2. UNCHANGED <<facts, kind>>
  BY WorldStays DEF world
<1>3. SUFFICES /\ pc' \in {"round", "walk"} => \A a \in DOMAIN nodes' \ {Zero} :
                      a \in given' \/ kind[a] = "wallet" => nodes'[a].terminal
               /\ pc' \in {"end", "done"} => \A i \in (frontier \cup next)' : nodes'[branches'[i].addr].terminal
  BY <1>1, <1>2 DEF StopsHold, Honest, Cuts
<1>4. CASE Start
  <2>1. nodes' = [a \in {Seed} |-> [terminal |-> SeedStop # "", why |-> SeedStop]] /\ pc' = "round"
    BY <1>4, StartIs
  <2>2. UNCHANGED given
    BY <1>4 DEF Start, manager
  <2>3. Seed \in given \/ kind[Seed] = "wallet" => SeedStop # ""
    BY DEF SeedStop
  <2> QED  BY <2>1, <2>2, <2>3
<1>5. CASE ~Start
  <2>1. Grown
    BY <1>5, GrownStep
  <2>2. Grows(nodes, nodes') /\ Same(branches, branches')
    BY <2>1 DEF Grown
  <2>3. ASSUME pc' \in {"round", "walk"}, NEW a \in DOMAIN nodes', a # Zero, a \in given' \/ kind[a] = "wallet"
        PROVE  nodes'[a].terminal
    <3>1. pc \in {"round", "walk"} /\ UNCHANGED given
      BY <1>5, <2>3, PlacesStep
    <3>2. CASE a \in DOMAIN nodes
      BY <2>2, <2>3, <3>1, <3>2 DEF StopsHold, Grows
    <3>3. CASE a \notin DOMAIN nodes
      <4>1. ~(\E c \in Addresses, d \in {"in", "out"} : Extend(c, d))
        BY <3>1 DEF Extend
      <4>2. CASE Burn
        BY <2>3, <3>3, <4>2 DEF Burn
      <4>3. ASSUME NEW outcome, Follow(outcome) PROVE nodes'[a].terminal
        <5>1. a = Other
          BY <3>3, <4>3, Followings
        <5> QED  BY <2>3, <3>1, <4>3, <5>1, FollowStops
      <4> QED  BY <1>5, <3>3, <4>1, <4>2, <4>3, DomainStays
    <3> QED  BY <3>2, <3>3
  <2>4. ASSUME pc' \in {"end", "done"}, NEW i \in (frontier \cup next)' PROVE nodes'[branches'[i].addr].terminal
    <3>1. CASE pc \in {"end", "done"} /\ UNCHANGED <<frontier, next>>
      <4>1. i \in DOMAIN branches /\ nodes[branches[i].addr].terminal
        BY <2>4, <3>1 DEF StopsHold, TypeOK
      <4>2. branches'[i] = branches[i] /\ branches[i].addr \in DOMAIN nodes
        BY <2>2, <4>1 DEF Same, BranchesHold
      <4> QED  BY <2>2, <4>1, <4>2 DEF Grows
    <3>2. CASE EndRound
      <4>1. next # {} /\ i \in next /\ pc' = "end"
        BY <2>4, <3>2 DEF EndRound
      <4> DEFINE idle == {a \in processed \ expanded : ~nodes[a].terminal}
      <4> DEFINE marked == SetTerminal(nodes, idle, "no_matching_transfers")
      <4>2. nodes' = SetTerminal(marked, {branches[j].addr : j \in next}, "node_limit") /\ UNCHANGED branches
        BY <3>2, <4>1 DEF EndRound
      <4>3. DOMAIN marked = DOMAIN nodes
        BY DEF SetTerminal
      <4>4. branches[i].addr \in DOMAIN marked
        BY <4>1, <4>3 DEF BranchesHold, TypeOK
      <4> HIDE DEF marked
      <4> QED  BY <4>1, <4>2, <4>4 DEF SetTerminal
    <3> QED  BY <1>5, <2>4, <3>1, <3>2, PlacesStep
  <2> QED  BY <2>3, <2>4
<1> QED  BY <1>4, <1>5

-----------------------------------------------------------------------------
(* The data the traversal sees.                                            *)

LEMMA LiveStays ==
    ASSUME [Next]_vars, ~Start, Live'
    PROVE  Live
<1>1. CASE Takings
  BY <1>1 DEF Takings, Drop, Takes, TakeQuery, TakeConversion, Live
<1>2. CASE Expansions
  BY <1>2 DEF Expansions, Skip, Dust, NodeLimit, Burn, Followed, Kept, Considered, Live
<1>3. CASE \E outcome : Follow(outcome)
  BY <1>3 DEF Follow, Followed, Kept, Considered, Live
<1>4. CASE Miss \/ MissSeed
  BY <1>4 DEF Miss, MissSeed, Depend, Live
<1>5. CASE Others
  BY <1>5 DEF Others, Expanded, EndRound, Finish, vars, Analyse, AnalysisFails, Live
<1>6. CASE \E a \in Addresses : ClientSync(a) \/ SyncEnds(a)
  BY <1>6 DEF ClientSync, SyncEnds, Live
<1>7. CASE \E a \in Addresses, d \in {"in", "out"} : Extend(a, d)
  BY <1>7 DEF Extend, Live
<1> QED  BY <1>1, <1>2, <1>3, <1>4, <1>5, <1>6, <1>7, StepsAre

\* An exempt branch stays exempt, and what lies onwards from a branch is the chain's.
LEMMA ExemptStays ==
    ASSUME TypeOK, BranchesHold, StoreHolds, WalkHolds, [Next]_vars, ~Start, NEW i \in DOMAIN branches
    PROVE  /\ i \in DOMAIN branches' /\ branches'[i] = branches[i]
           /\ Exempt(branches[i]) => Exempt(branches[i])'
           /\ Onwards(branches[i])' = Onwards(branches[i])
<1>1. Grown
  BY GrownStep
<1>2. i \in DOMAIN branches' /\ branches'[i] = branches[i]
  BY <1>1 DEF Grown, Same
<1>3. branches[i].addr \in Addresses /\ branches[i].addr \in DOMAIN nodes
  BY BranchStays DEF Branches
<1>4. Onwards(branches[i])' = Onwards(branches[i])
  BY <1>1, <1>2 DEF Grown, Onwards, Supported, Enough
<1>5. ASSUME Exempt(branches[i]) PROVE Exempt(branches[i])'
  BY <1>1, <1>2, <1>3, <1>5 DEF Grown, Grows, Exempt, Contract
<1> QED  BY <1>2, <1>4, <1>5

\* What a document covers is stored.
LEMMA CoveredStored ==
    ASSUME TypeOK, StoreHolds, NEW a \in Addresses, NEW range, Covered(a, range),
           NEW f \in facts, a \in Ends(f), range[1] \in Nat, range[2] \in Nat,
           f.block >= range[1], f.block <= range[2]
    PROVE  f \in stored
<1>1. windows[a] \in Nat \X Nat
  BY DEF TypeOK
<1>2. f.block \in Nat
  BY World DEF Fact
<1>3. f.block \in Cov!Claimed(windows[a])
  BY <1>1, <1>2 DEF Covered, Cov!Contains, Cov!Claimed
<1> QED  BY <1>3 DEF StoreHolds

LEMMA FollowedData ==
    ASSUME TypeOK, StoreHolds, BranchesHold, WalkHolds, StopsHold, NEW outcome, Follow(outcome), ~Full,
           NEW b, b = Opened
    PROVE  nodes'[b.addr].terminal \/ Contract(b.addr) \/ High(b.addr) \/ Onwards(b) \subseteq stored
<1>1. /\ b.addr = Other /\ b.dir = B.dir /\ b.block = F.block /\ Other \in Addresses
      /\ Available(outcome = "resolved") /\ Kept
  BY Followings DEF Opened, Branch, Follow
<1>2. CASE outcome = "resolved" \/ Other \in given \/ kind[Other] = "wallet"
  BY <1>1, <1>2, FollowStops
<1>3. CASE Contract(Other) \/ High(Other)
  BY <1>1, <1>3
<1>4. CASE Covered(Other, Required)
  <2>1. F \in Fact /\ B \in Branches
    BY <1>1, Candidate DEF Kept, Considered
  <2>2. F.block \in 1 .. Through /\ B.dir \in {"in", "out"} /\ Through \in Nat
    BY <2>1, ConstantsAssumption DEF Fact, Branches
  <2>3. ASSUME NEW f \in Onwards(b) PROVE f \in stored
    <3>1. /\ f \in facts /\ b.addr = IF b.dir = "out" THEN f.from ELSE f.to
          /\ IF b.dir = "out" THEN f.block >= b.block ELSE b.block = 0 \/ f.block <= b.block
      BY <2>3 DEF Onwards
    <3>2. Other \in Ends(f) /\ f.block \in 1 .. Through
      BY <1>1, <3>1, World DEF Ends, Fact
    <3>3. /\ Required[1] \in Nat /\ Required[2] \in Nat
          /\ f.block >= Required[1] /\ f.block <= Required[2]
      <4>1. CASE B.dir = "out"
        BY <1>1, <2>2, <3>1, <3>2, <4>1 DEF Required
      <4>2. CASE B.dir # "out"
        BY <1>1, <2>2, <3>1, <3>2, <4>2 DEF Required
      <4> QED  BY <4>1, <4>2
    <3> HIDE DEF Required
    <3> QED  BY <1>1, <1>4, <3>1, <3>2, <3>3, CoveredStored
  <2> QED  BY <2>3
<1> QED  BY <1>1, <1>2, <1>3, <1>4 DEF Available

LEMMA DataStep ==
    ASSUME TypeOK, StoreHolds, BranchesHold, WalkHolds, StopsHold, DataHolds, [Next]_vars
    PROVE  DataHolds'
<1>1. SUFFICES ASSUME Live', NEW i \in DOMAIN branches'
               PROVE  Exempt(branches[i])' \/ Onwards(branches[i])' \subseteq stored'
  BY DEF DataHolds
<1>2. CASE Start
  <2>1. /\ UNCHANGED <<facts, kind>> /\ UNCHANGED <<status, stored>>
        /\ branches'[i].addr = Seed /\ (High(Seed) \/ Covered(Seed, <<1, Through>>))
    BY <1>2, StartIs DEF Start, SeedReady, store, world
  <2>2. CASE High(Seed)
    BY <2>1, <2>2 DEF Exempt, High
  <2>3. CASE Covered(Seed, <<1, Through>>)
    <3>1. ASSUME NEW f \in Onwards(branches[i])' PROVE f \in stored'
      <4>1. f \in facts /\ Seed \in Ends(f)
        BY <2>1, <3>1 DEF Onwards, Ends
      <4>2. f.block \in 1 .. Through /\ Through \in Nat /\ Seed \in Addresses
        BY <4>1, World, ConstantsAssumption DEF Fact
      <4>3. <<1, Through>>[1] = 1 /\ <<1, Through>>[2] = Through
        OBVIOUS
      <4>4. f \in stored
        BY <2>3, <4>1, <4>2, <4>3, CoveredStored
      <4> QED  BY <2>1, <4>4
    <3> QED  BY <3>1
  <2> QED  BY <2>1, <2>2, <2>3
<1>3. CASE ~Start
  <2>0. Live /\ Grown
    BY <1>1, <1>3, LiveStays, GrownStep
  <2>1. CASE i \in DOMAIN branches
    BY <1>3, <2>0, <2>1, ExemptStays DEF DataHolds, Grown
  <2>2. CASE i \notin DOMAIN branches
    <3>1. PICK outcome : Follow(outcome)
      BY <1>1, <1>3, <2>2, OnlyFollowOpens
    <3>2. ~Full /\ branches' = Append(branches, Opened)
      BY <2>2, <3>1, Followings
    <3>3. PICK b : b = Opened
      OBVIOUS
    <3>4. branches'[i] = b
      BY <1>1, <2>2, <3>2, <3>3 DEF TypeOK
    <3>5. UNCHANGED <<kind, status, facts, stored>>
      BY <3>1 DEF Follow, world, store
    <3>6. nodes'[b.addr].terminal \/ Contract(b.addr) \/ High(b.addr) \/ Onwards(b) \subseteq stored
      BY <3>1, <3>2, <3>3, FollowedData
    <3>7. Onwards(branches[i])' = Onwards(b)
      BY <3>4, <3>5 DEF Onwards, Supported, Enough
    <3>8. (Exempt(branches[i])') <=> (nodes'[b.addr].terminal \/ Contract(b.addr) \/ High(b.addr))
      BY <3>4, <3>5 DEF Exempt, Contract, High
    <3> QED  BY <3>5, <3>6, <3>7, <3>8
  <2> QED  BY <2>1, <2>2
<1> QED  BY <1>2, <1>3

-----------------------------------------------------------------------------
(* Nothing is missed.                                                      *)

\* A candidate that is passed over was found by another branch, or the money is used up.
LEMMA PassedOver ==
    ASSUME TypeOK, BranchesHold, EntriesHold, BudgetHolds, WalkHolds, pc = "walk", todo # <<>>,
           ~Exempt(B), F \in Onwards(B), Ignored \/ ~Enough(F, Paid)
    PROVE  Reached(F, B.dir) \/ Exhausted(cur)
<1>1. /\ cur \in DOMAIN branches /\ B \in Branches /\ F \in Fact /\ Paid \in Nat
      /\ budget # None => Paid <= budget
      /\ budget = None => Paid = F.amount
  BY Candidate
<1>2. Supported(F) /\ Enough(F, F.amount) /\ B.asset \in {"all", F.asset}
  BY DEF Onwards
<1>3. CASE CandidateKey \in Visited
  <2>1. PICK i \in DOMAIN branches : Key(branches[i]) = CandidateKey
    BY <1>3 DEF Visited
  <2>2. /\ branches[i].addr = Other /\ branches[i].dir = B.dir /\ branches[i].asset = F.asset
        /\ branches[i].tx = F.tx
    BY <2>1, Zenon DEF CandidateKey, Key, Branch
  <2>3. F.tx # None
    BY <1>1 DEF Fact, None
  <2>4. Reached([tx |-> F.tx, asset |-> F.asset, from |-> Other, to |-> Other], B.dir)
    BY <2>2, <2>3 DEF EntriesHold
  <2> QED  BY <2>4 DEF Reached, Peer, Other
<1>4. CASE budget = 0 \/ ~Enough(F, Paid)
  <2>1. ~Converts(B)
    BY DEF Exempt, Converts
  <2>2. Threshold[F.asset] \in Nat \ {0} /\ F.amount >= Threshold[F.asset]
    BY <1>2, ConstantsAssumption DEF Supported, Enough
  <2>3. budget # None
    BY <1>1, <1>4, <2>2 DEF None, Enough
  <2>4. Limited(cur)
    BY <2>3 DEF BudgetHolds
  <2>5. B.amount # None /\ B.asset = F.asset
    BY <1>1, <1>2, <2>4 DEF Limited, BranchesHold, B
  <2>6. SpentBy(cur) \in Nat /\ B.amount \in Nat /\ budget \in Nat
    BY <1>1, <2>3, <2>5, SpentType DEF Branches, TypeOK
  <2>7. budget < Threshold[F.asset]
    <3>1. CASE budget = 0
      BY <2>2, <3>1
    <3>2. CASE budget # 0
      <4>1. Paid < Threshold[F.asset]
        BY <1>1, <1>4, <2>2, <3>2 DEF Enough
      <4>2. Paid = budget
        BY <1>1, <2>2, <4>1 DEF Paid
      <4> QED  BY <4>1, <4>2
    <3> QED  BY <3>1, <3>2
  <2>8. \/ budget = B.amount - SpentBy(cur)
        \/ Exhausted(cur)
    BY <2>4 DEF BudgetHolds, Exempt
  <2> QED  BY <2>5, <2>7, <2>8 DEF Exhausted, B
<1> QED  BY <1>2, <1>3, <1>4 DEF Ignored

\* The edge of a candidate that is kept.
LEMMA FoundNow ==
    ASSUME TypeOK, TypeOK', WalkHolds, Kept, edges' = Append(edges, Edge), NEW f, f = F, NEW d, d = B.dir
    PROVE  Reached(f, d)'
<1> DEFINE n == Len(edges) + 1
<1>1. edges \in Seq(Edges)
  BY DEF TypeOK
<1>2. n \in DOMAIN edges' /\ edges'[n] = Edge
  BY <1>1
<1>3. Edge.tx = f.tx /\ Edge.asset = f.asset /\ Edge.dir = d /\ Peer(Edge, d) = Peer(f, d)
  BY DEF Edge, Peer
<1>4. /\ edges'[n].tx = f.tx /\ edges'[n].asset = f.asset /\ edges'[n].dir = d
      /\ Peer(edges'[n], d) = Peer(f, d)
  BY <1>2, <1>3
<1> HIDE DEF n
<1> QED  BY <1>2, <1>4 DEF Reached

\* Money that is used up stays used up.
LEMMA ExhaustedStays ==
    ASSUME TypeOK, TypeOK', BranchesHold, StoreHolds, WalkHolds, [Next]_vars, ~Start,
           NEW i \in DOMAIN branches, Exhausted(i), branches[i].asset \in DOMAIN Threshold
    PROVE  Exhausted(i)'
<1>1. i # 0 /\ branches'[i] = branches[i] /\ branches[i] \in Branches
  BY BranchStays
<1>2. SpentBy(i) \in Nat /\ branches[i].amount \in Nat /\ Threshold[branches[i].asset] \in Nat
  BY <1>1, SpentType, ConstantsAssumption DEF Branches, Exhausted
<1>3. \E p \in Nat : SpentBy(i)' = SpentBy(i) + p
  <2>1. CASE SpentBy(i)' = SpentBy(i)
    <3>1. SpentBy(i) = SpentBy(i) + 0
      BY <1>2
    <3>2. SpentBy(i)' = SpentBy(i) + 0
      BY <2>1, <3>1, Zenon
    <3> QED  BY <3>2, Zenon
  <2>2. CASE Kept /\ SpentBy(i)' = SpentBy(i) + Paid
    <3>1. Paid \in Nat
      BY <2>2, Candidate DEF Kept, Considered
    <3> QED  BY <2>2, <3>1
  <2> QED  BY <1>1, <2>1, <2>2, SpentStep
<1>4. PICK p \in Nat : SpentBy(i)' = SpentBy(i) + p
  BY <1>3
<1>5. branches[i].amount - SpentBy(i) < Threshold[branches[i].asset]
  BY DEF Exhausted
<1> DEFINE s == SpentBy(i)
<1> DEFINE m == branches[i].amount
<1> DEFINE t == Threshold[branches[i].asset]
<1>6. s \in Nat /\ m \in Nat /\ t \in Nat /\ m - s < t
  BY <1>2, <1>5
<1> HIDE DEF s, m, t
<1>7. m - (s + p) < t
  BY <1>6
<1>8. branches[i].amount - (SpentBy(i) + p) < Threshold[branches[i].asset]
  BY <1>7 DEF s, m, t
<1> QED  BY <1>1, <1>2, <1>4, <1>8 DEF Exhausted, None

\* A branch leaves the frontier by being taken.
LEMMA LeavesByTaking ==
    ASSUME TypeOK, WalkHolds, [Next]_vars, ~Start,
           NEW i \in frontier \cup next, i \notin (frontier \cup next)'
    PROVE  i \in frontier /\ (Drop(i) \/ TakeQuery(i) \/ TakeConversion(i))
<1>1. CASE Takings
  <2>1. PICK j \in frontier : Drop(j) \/ TakeQuery(j) \/ TakeConversion(j)
    BY <1>1 DEF Takings
  <2>2. frontier' = frontier \ {j} /\ next' = next
    BY <2>1 DEF Drop, Takes, TakeQuery, TakeConversion, Walk, StopAt
  <2>3. i = j
    BY <2>2
  <2> QED  BY <2>1, <2>3
<1>2. CASE Expansions
  BY <1>2 DEF Expansions, Skip, Dust, NodeLimit, Burn, round
<1>3. CASE \E outcome : Follow(outcome)
  BY <1>3 DEF Follow
<1>4. CASE Miss \/ MissSeed
  BY <1>4 DEF Miss, MissSeed, round
<1>5. CASE Others
  BY <1>5 DEF Others, Expanded, EndRound, Finish, vars, Analyse, AnalysisFails, round
<1>6. CASE \E a \in Addresses : ClientSync(a) \/ SyncEnds(a)
  BY <1>6 DEF ClientSync, SyncEnds, round
<1>7. CASE \E a \in Addresses, d \in {"in", "out"} : Extend(a, d)
  BY <1>7 DEF Extend, round
<1> QED  BY <1>1, <1>2, <1>3, <1>4, <1>5, <1>6, <1>7, StepsAre

\* The expansion goes on while it has candidates; it takes one by deciding on it.
LEMMA WalkGoesOn ==
    ASSUME TypeOK, [Next]_vars, pc = "walk", todo # <<>>, Live'
    PROVE  /\ pc' = "walk" /\ cur' = cur
           /\ \/ todo' = todo
              \/ /\ todo' = Tail(todo)
                 /\ Skip \/ Dust \/ NodeLimit \/ Burn \/ \E outcome : Follow(outcome)
<1>1. CASE Takings
  BY <1>1 DEF Takings, Drop, Takes, TakeQuery, TakeConversion
<1>2. CASE Expansions
  BY <1>2 DEF Expansions, Skip, Dust, NodeLimit, Burn, Consumed
<1>3. CASE \E outcome : Follow(outcome)
  BY <1>3 DEF Follow, Consumed
<1>4. CASE Miss \/ MissSeed
  BY <1>4 DEF Miss, MissSeed, Depend, Live
<1>5. CASE Others
  BY <1>5 DEF Others, Start, Expanded, EndRound, Finish, vars, Analyse, AnalysisFails, walk, Live
<1>6. CASE \E a \in Addresses : ClientSync(a) \/ SyncEnds(a)
  BY <1>6 DEF ClientSync, SyncEnds, walk
<1>7. CASE \E a \in Addresses, d \in {"in", "out"} : Extend(a, d)
  BY <1>7 DEF Extend
<1> QED  BY <1>1, <1>2, <1>3, <1>4, <1>5, <1>6, <1>7, StepsAre

\* A transfer onwards from a branch is found, cannot be paid for any more, or is still to come.
Waits(i, f) == pc = "walk" /\ i = cur /\ \E k \in DOMAIN todo : todo[k] = f
Settled(i, f) == Reached(f, branches[i].dir) \/ Exhausted(i) \/ Waits(i, f)

LEMMA ExpandedIs ==
    ExpandedHolds <=> (Live => \A i \in DOMAIN branches \ (frontier \cup next) :
                          Exempt(branches[i]) \/ \A f \in Onwards(branches[i]) : Settled(i, f))
BY DEF ExpandedHolds, Settled, Waits

\* A branch that is taken is given up, or all that lies onwards is among its candidates.
LEMMA TakenSettles ==
    ASSUME TypeOK, BranchesHold, StoreHolds, WalkHolds, DataHolds, [Next]_vars, ~Start, NEW i \in frontier,
           Drop(i) \/ TakeQuery(i) \/ TakeConversion(i), ~Exempt(branches[i]),
           NEW f \in Onwards(branches[i])
    PROVE  nodes'[branches[i].addr].terminal \/ Waits(i, f)'
<1> DEFINE b == branches[i]
<1>1. i \in DOMAIN branches /\ b.addr \in DOMAIN nodes
  BY DEF TypeOK, BranchesHold
<1>2. ~Drop(i) /\ ~TakeConversion(i)
  BY DEF Drop, TakeConversion, Exempt, Converts
<1>3. TakeQuery(i) /\ pc = "round"
  BY <1>2 DEF TakeQuery, Takes
<1> DEFINE found == Query(b.addr, b.dir, b.asset, b.block)
<1>4. f \in found
  BY <1>1, <1>3 DEF DataHolds, Live, Onwards, Query
<1>5. IsFiniteSet(found)
  <2>1. found \subseteq facts /\ IsFiniteSet(facts)
    BY World DEF Query, TypeOK
  <2> QED  BY <2>1, FS_Subset
<1>6. \/ \E order \in NearestFirst(found, b.dir) : Walk(i, order, b.amount)
      \/ StopAt(i, <<{b.addr}, "high_frequency">>)
  BY <1>3 DEF TakeQuery
<1>7. CASE \E order \in NearestFirst(found, b.dir) : Walk(i, order, b.amount)
  <2>1. PICK order \in NearestFirst(found, b.dir) : Walk(i, order, b.amount)
    BY <1>7
  <2>2. \E k \in DOMAIN order : order[k] = f
    BY <1>4, <1>5, NearestFirstIs
  <2>3. pc' = "walk" /\ cur' = i /\ todo' = order
    BY <2>1 DEF Walk
  <2> QED  BY <2>2, <2>3 DEF Waits
<1>8. CASE StopAt(i, <<{b.addr}, "high_frequency">>)
  <2>1. nodes' = SetTerminal(nodes, {b.addr}, "high_frequency")
    BY <1>8 DEF StopAt
  <2> QED  BY <1>1, <2>1 DEF SetTerminal
<1> QED  BY <1>6, <1>7, <1>8

\* What was settled for a branch stays so, or the branch becomes a stop.
LEMMA SettledStays ==
    ASSUME TypeOK, TypeOK', BranchesHold, StoreHolds, WalkHolds, EntriesHold, BudgetHolds,
           [Next]_vars, ~Start, Live', NEW i \in DOMAIN branches, ~Exempt(branches[i]),
           NEW f \in Onwards(branches[i]), Settled(i, f)
    PROVE  nodes'[branches[i].addr].terminal \/ Settled(i, f)'
<1>1. Same(edges, edges') /\ branches'[i] = branches[i]
  BY GrownStep, ExemptStays DEF Grown
<1>2. ASSUME Reached(f, branches[i].dir) PROVE Settled(i, f)'
  <2>1. PICK d : d = branches[i].dir
    OBVIOUS
  <2>2. Reached(f, d)'
    BY <1>1, <1>2, <2>1, ReachedStays
  <2> QED  BY <1>1, <2>1, <2>2 DEF Settled
<1>3. ASSUME Exhausted(i) PROVE Settled(i, f)'
  <2>1. branches[i].amount # None /\ branches[i].asset \in {"all", f.asset} /\ f.asset \in DOMAIN Threshold
    BY <1>3 DEF Exhausted, Onwards, Supported
  <2>2. branches[i].asset \in DOMAIN Threshold
    BY <2>1 DEF BranchesHold
  <2> QED  BY <1>3, <2>2, ExhaustedStays DEF Settled
<1>4. ASSUME Waits(i, f) PROVE nodes'[branches[i].addr].terminal \/ Settled(i, f)'
  <2>1. pc = "walk" /\ i = cur /\ \E k \in DOMAIN todo : todo[k] = f
    BY <1>4 DEF Waits
  <2>2. PICK k \in DOMAIN todo : todo[k] = f
    BY <2>1
  <2>3. todo \in Seq(Fact) /\ todo # <<>>
    BY <2>2 DEF TypeOK
  <2>4. /\ pc' = "walk" /\ cur' = cur
        /\ \/ todo' = todo
           \/ /\ todo' = Tail(todo)
              /\ Skip \/ Dust \/ NodeLimit \/ Burn \/ \E outcome : Follow(outcome)
    BY <2>1, <2>3, WalkGoesOn
  <2>5. CASE todo' = todo
    BY <2>1, <2>4, <2>5 DEF Settled, Waits
  <2>6. CASE todo' = Tail(todo) /\ k # 1
    <3>1. k - 1 \in DOMAIN todo' /\ todo'[k - 1] = f
      BY <2>2, <2>3, <2>6
    <3> QED  BY <2>1, <2>4, <3>1 DEF Settled, Waits
  <2>7. CASE k = 1 /\ (Skip \/ Dust \/ NodeLimit \/ Burn \/ \E outcome : Follow(outcome))
    <3>1. F = f /\ B = branches[i]
      BY <2>1, <2>2, <2>3, <2>7 DEF F, B
    <3>2. CASE Ignored \/ ~Enough(F, Paid)
      <4>1. Reached(F, B.dir) \/ Exhausted(cur)
        BY <2>1, <2>3, <3>1, <3>2, PassedOver
      <4> QED  BY <1>2, <1>3, <2>1, <3>1, <4>1
    <3>3. CASE NodeLimit
      <4>1. nodes' = SetTerminal(nodes, {B.addr}, "node_limit")
        BY <3>3 DEF NodeLimit
      <4> QED  BY <3>1, <4>1 DEF SetTerminal, BranchesHold
    <3>4. CASE Kept /\ edges' = Append(edges, Edge)
      <4>1. PICK d : d = branches[i].dir
        OBVIOUS
      <4>2. Reached(f, d)'
        BY <3>1, <3>4, <4>1, FoundNow
      <4> QED  BY <1>1, <4>1, <4>2 DEF Settled
    <3>5. CASE Skip
      BY <3>2, <3>5 DEF Skip
    <3>6. CASE Dust
      BY <3>2, <3>6 DEF Dust
    <3>7. CASE Burn \/ \E outcome : Follow(outcome)
      <4>1. Kept /\ edges' = Append(edges, Edge)
        BY <3>7 DEF Burn, Follow, Followed
      <4> QED  BY <3>4, <4>1
    <3> QED  BY <2>7, <3>3, <3>5, <3>6, <3>7
  <2> QED  BY <2>4, <2>5, <2>6, <2>7
<1> QED  BY <1>2, <1>3, <1>4 DEF Settled

\* A branch that is opened and not queued is a stop, a contract or high-frequency.
LEMMA ShutIsExempt ==
    ASSUME TypeOK, WalkHolds, StopsHold, NEW outcome, Follow(outcome), ~Full,
           next' # next \cup {Len(branches) + 1}
    PROVE  nodes'[Other].terminal \/ Contract(Other) \/ High(Other)
<1>1. StopReason(outcome = "resolved") # ""
  BY DEF Follow
<1>2. \/ outcome = "resolved" \/ High(Other) \/ Other \in given \/ kind[Other] = "wallet"
      \/ Contract(Other)
  BY <1>1 DEF StopReason, Contract
<1> QED  BY <1>2, FollowStops

LEMMA ExpandedStep ==
    ASSUME TypeOK, TypeOK', BranchesHold, StoreHolds, WalkHolds, EntriesHold, BudgetHolds, StopsHold,
           DataHolds, ExpandedHolds, [Next]_vars
    PROVE  ExpandedHolds'
<1>1. (ExpandedHolds <=> (Live => \A i \in DOMAIN branches \ (frontier \cup next) :
                             Exempt(branches[i]) \/ \A f \in Onwards(branches[i]) : Settled(i, f)))'
  BY ExpandedIs, PTL
<1>2. SUFFICES ASSUME Live', NEW i \in DOMAIN branches', i \notin (frontier \cup next)',
                      ~(Exempt(branches[i])'), NEW f \in Onwards(branches[i])'
               PROVE  Settled(i, f)'
  BY <1>1
<1>3. ~Start
  BY <1>2, StartIs
<1>4. CASE i \notin DOMAIN branches
  <2>1. PICK outcome : Follow(outcome)
    BY <1>2, <1>3, <1>4, OnlyFollowOpens
  <2>2. /\ ~Full /\ branches' = Append(branches, Opened) /\ next' \in {next, next \cup {Len(branches) + 1}}
    BY <1>2, <1>4, <2>1, Followings
  <2>3. PICK b : b = Opened
    OBVIOUS
  <2>4. i = Len(branches) + 1 /\ branches'[i] = b
    <3>1. branches \in Seq(Branches) /\ branches' = Append(branches, b)
      BY <2>2, <2>3 DEF TypeOK
    <3> QED  BY <1>2, <1>4, <3>1
  <2>5. next' # next \cup {Len(branches) + 1}
    BY <1>2, <2>4
  <2>6. b.addr = Other
    BY <2>3 DEF Opened, Branch
  <2>7. nodes'[b.addr].terminal \/ Contract(b.addr) \/ High(b.addr)
    BY <2>1, <2>2, <2>5, <2>6, ShutIsExempt
  <2>8. UNCHANGED <<kind, status>>
    BY <2>1 DEF Follow, world, store
  <2> QED  BY <1>2, <2>4, <2>7, <2>8 DEF Exempt, Contract, High
<1>5. CASE i \in DOMAIN branches
  <2>1. /\ branches'[i] = branches[i] /\ ~Exempt(branches[i])
        /\ f \in Onwards(branches[i])
    BY <1>2, <1>3, <1>5, ExemptStays
  <2>2. ~nodes'[branches[i].addr].terminal
    BY <1>2, <2>1 DEF Exempt
  <2>3. CASE i \in frontier \cup next
    <3>1. i \in frontier /\ (Drop(i) \/ TakeQuery(i) \/ TakeConversion(i))
      BY <1>2, <1>3, <2>3, LeavesByTaking
    <3>2. Waits(i, f)'
      BY <1>3, <2>1, <2>2, <3>1, TakenSettles
    <3> QED  BY <3>2 DEF Settled
  <2>4. CASE i \notin frontier \cup next
    <3>1. Live
      BY <1>2, <1>3, LiveStays
    <3>2. Settled(i, f)
      BY <1>5, <2>1, <2>4, <3>1, ExpandedIs
    <3> QED  BY <1>2, <1>3, <1>5, <2>1, <2>2, <3>2, SettledStays
  <2> QED  BY <2>3, <2>4
<1> QED  BY <1>4, <1>5

-----------------------------------------------------------------------------
(* The inductive invariant, and the theorems.                              *)

LEMMA IInvInit == Init => IInv
<1> SUFFICES ASSUME Init PROVE IInv
  OBVIOUS
<1>0. /\ TypeOK /\ pc = "start" /\ branches = <<>> /\ edges = <<>> /\ frontier = {} /\ next = {}
      /\ nodes = [a \in {} |-> a] /\ DOMAIN nodes = {} /\ extensions = 0 /\ MaxNodes \in Nat \ {0}
      /\ Seed \in Addresses /\ Through \in Nat
      /\ windows = [a \in Addresses |-> IF a = Seed THEN <<1, Through>> ELSE Cov!NoCoverage]
      /\ wanted = [a \in Addresses |-> Cov!NoCoverage]
      /\ stored = {f \in facts : Seed \in {f.from, f.to}}
  BY TypeInit, ConstantsAssumption DEF Init
<1>1. StoreHolds
  <2>1. ASSUME NEW a \in Addresses, NEW f \in facts, a \in Ends(f), f.block \in Cov!Claimed(windows[a])
        PROVE  f \in stored
    <3>1. CASE a = Seed
      BY <1>0, <2>1, <3>1 DEF Ends
    <3>2. CASE a # Seed
      BY <1>0, <2>1, <3>2 DEF Cov!Claimed, Cov!Valid, Cov!NoCoverage
    <3> QED  BY <3>1, <3>2
  <2>2. \A a \in Addresses : wanted[a] = Cov!NoCoverage
    BY <1>0
  <2> QED  BY <2>1, <2>2 DEF StoreHolds
<1>2. BranchesHold /\ EdgesHold /\ WalkHolds /\ EntriesHold
  BY <1>0 DEF BranchesHold, EdgesHold, WalkHolds, EntriesHold
<1>3. RecordsHold
  <2>1. IsFiniteSet(DOMAIN nodes) /\ Cardinality(DOMAIN nodes) = 0
    BY <1>0, FS_EmptySet
  <2> QED  BY <1>0, <2>1 DEF RecordsHold, AllLeadOn
<1>4. BudgetHolds
  BY <1>0 DEF BudgetHolds, WithinBudget
<1>5. DataHolds /\ ExpandedHolds
  BY <1>0 DEF DataHolds, ExpandedHolds, Live
<1>6. StopsHold
  BY <1>0 DEF StopsHold
<1> QED  BY <1>0, <1>1, <1>2, <1>3, <1>4, <1>5, <1>6 DEF IInv

LEMMA IInvStep == IInv /\ [Next]_vars => IInv'
<1> SUFFICES ASSUME IInv, [Next]_vars PROVE IInv'
  OBVIOUS
<1>0. /\ TypeOK /\ StoreHolds /\ BranchesHold /\ EdgesHold /\ WalkHolds /\ RecordsHold
      /\ EntriesHold /\ BudgetHolds /\ DataHolds /\ ExpandedHolds /\ StopsHold
  BY DEF IInv
<1>1. TypeOK'
  BY <1>0, TypeStep
<1>2. StoreHolds'
  BY <1>0, StoreStep
<1>3. BranchesHold'
  BY <1>0, <1>1, BranchesStep
<1>4. EdgesHold'
  BY <1>0, <1>1, EdgesStep
<1>5. WalkHolds'
  BY <1>0, <1>1, <1>3, WalkStep
<1>6. RecordsHold'
  BY <1>0, <1>1, RecordsStep
<1>7. EntriesHold'
  BY <1>0, <1>1, EntriesStep
<1>8. BudgetHolds'
  BY <1>0, <1>1, BudgetStep
<1>9. DataHolds'
  BY <1>0, DataStep
<1>10. ExpandedHolds'
  BY <1>0, <1>1, ExpandedStep
<1>11. StopsHold'
  BY <1>0, <1>1, StopsStep
<1> QED  BY <1>1, <1>2, <1>3, <1>4, <1>5, <1>6, <1>7, <1>8, <1>9, <1>10, <1>11 DEF IInv

\* The inductive invariant holds in every state, for any chain, limits and clients.
THEOREM Inductive == Spec => []IInv
<1>1. Init => IInv
  BY IInvInit
<1>2. IInv /\ [Next]_vars => IInv'
  BY IInvStep
<1> QED  BY <1>1, <1>2, PTL DEF Spec

\* A state of the traversal has its shape, whatever the chain holds, the limits and
\* the other clients' jobs: in particular a budget is never overdrawn, and an edge
\* names a branch that exists.
THEOREM TypeCorrect == Spec => []TypeOK
<1>1. IInv => TypeOK
  BY DEF IInv
<1> QED  BY <1>1, Inductive, PTL

\* A result is a graph: no edge ends at a node it does not have, the node limit of
\* traceSameChain is kept, and until it is met no transfer becomes a second edge.
THEOREM GraphAlwaysClosed == Spec => []GraphClosed
<1>1. IInv => GraphClosed
  BY DEF IInv, GraphClosed, EdgesHold, RecordsHold
<1> QED  BY <1>1, Inductive, PTL

\* Over all its candidates, a branch of an ordinary address (or of a vault) attributes at
\* most the amount that reached it.  What comes out of a conversion and the hops of an
\* extension, which belong to no branch, it does not bound.
THEOREM BudgetsAlwaysKept == Spec => []WithinBudget
<1>1. IInv => WithinBudget
  BY DEF IInv, BudgetHolds
<1> QED  BY <1>1, Inductive, PTL

\* Along a path time only runs one way, over conversions and extensions too.
THEOREM TimeAlwaysMonotone == Spec => []TimeMonotone
<1>1. IInv => TimeMonotone
  BY DEF IInv, EdgesHold, TimeMonotone, InTime
<1> QED  BY <1>1, Inductive, PTL

\* A finished traversal missed no transfer onwards of a branch that is not a stop, unless
\* the branch's money was used up, although it stops and starts anew and other clients'
\* jobs change the documents meanwhile.  A result that is called synced has no stop for a
\* limit, the record cap, a high-frequency address or missing data; and one that keeps
\* below the node limit has a branch for each edge (at the limit it need not).
THEOREM CutsAlwaysAdmitted == Spec => []CutsAdmitted
<1>1. ASSUME IInv, pc = "done" PROVE NothingMissed
  <2> SUFFICES ASSUME NEW i \in DOMAIN branches, ~Exempt(branches[i]), NEW f \in Onwards(branches[i])
               PROVE  Reached(f, branches[i].dir) \/ Exhausted(i)
    BY DEF NothingMissed
  <2>1. i \notin frontier \cup next
    BY <1>1 DEF IInv, StopsHold, Exempt
  <2> QED  BY <1>1, <2>1 DEF IInv, ExpandedHolds, Live
<1>2. ASSUME IInv, extensions = 0, ~Full PROVE AllLeadOn
  BY <1>2 DEF IInv, RecordsHold
<1>3. IInv => CutsAdmitted
  BY <1>1, <1>2 DEF IInv, StopsHold, CutsAdmitted
<1> QED  BY <1>3, Inductive, PTL

-----------------------------------------------------------------------------
(* The accounts of the result.                                             *)

\* Only Finish and an extension write the accounts; none is finished before.
LEMMA MoneyStays ==
    ASSUME [Next]_vars, ~Finish, ~(\E a \in Addresses, d \in {"in", "out"} : Extend(a, d))
    PROVE  (pc' = "done" => pc = "done") /\ UNCHANGED <<money, extensions>>
<1>1. CASE Takings
  BY <1>1 DEF Takings, Drop, Takes, TakeQuery, TakeConversion, Walk, StopAt
<1>2. CASE Expansions
  BY <1>2 DEF Expansions, Skip, Dust, NodeLimit, Burn, Followed, Kept, Considered
<1>3. CASE \E outcome : Follow(outcome)
  BY <1>3 DEF Follow, Followed, Kept, Considered
<1>4. CASE Miss \/ MissSeed
  BY <1>4 DEF Miss, MissSeed, Depend
<1>5. CASE Others
  BY <1>5 DEF Others, Start, Expanded, EndRound, vars, Analyse, AnalysisFails
<1>6. CASE \E a \in Addresses : ClientSync(a) \/ SyncEnds(a)
  BY <1>6 DEF ClientSync, SyncEnds
<1> QED  BY <1>1, <1>2, <1>3, <1>4, <1>5, <1>6, StepsAre

\* LedgerExplains of a sequence of states.
Explains(s, unextended) ==
    \A g \in DOMAIN s :
        /\ s[g].left \in 0 .. s[g].amount
        /\ TotalUsed(s, Outgoing(s, s[g])) <= TotalUsed(s, Incoming(s, s[g]))
        /\ unextended =>
            /\ TotalUsed(s, Outgoing(s, s[g])) = TotalUsed(s, Incoming(s, s[g]))
            /\ \A k \in Outgoing(s, s[g]) : Backed(s, s[g], k)
            /\ \A j, k \in Incoming(s, s[g]) : j < k /\ s[j].left > 0 => Explained(s[k]) = 0

LEMMA LedgerIs ==
    /\ LedgerExplains <=> (pc = "done" => Explains(money, extensions = 0))
    /\ LedgerExplains' <=> (pc' = "done" => Explains(money', extensions' = 0))
<1>1. LedgerExplains <=> (pc = "done" => Explains(money, extensions = 0))
  BY DEF LedgerExplains, Explains, Backed
<1>2. LedgerExplains' <=> (pc' = "done" => Explains(money', extensions' = 0))
  BY DEF LedgerExplains, Explains, Backed
<1> QED  BY <1>1, <1>2

LEMMA ServedExplains ==
    ASSUME NEW s \in Seq(Shares), Agreed(s), InTurn(s), \A g : \A k \in Outgoing(s, g) : Backed(s, g, k)
    PROVE  Explains(s, TRUE)
<1>1. ASSUME NEW g \in DOMAIN s
      PROVE  /\ s[g].left \in 0 .. s[g].amount
             /\ TotalUsed(s, Outgoing(s, s[g])) = TotalUsed(s, Incoming(s, s[g]))
             /\ TotalUsed(s, Outgoing(s, s[g])) <= TotalUsed(s, Incoming(s, s[g]))
  <2>1. s[g] \in Shares
    OBVIOUS
  <2>2. s[g].left \in 0 .. s[g].amount
    BY <2>1, ShareIs
  <2> DEFINE x == TotalUsed(s, Outgoing(s, s[g]))
             y == TotalUsed(s, Incoming(s, s[g]))
  <2>3. x = Sum(Uses(s, "out", s[g])) /\ y = Sum(Uses(s, "in", s[g]))
    BY UsedIs
  <2>4. x = y
    BY <2>3 DEF Agreed
  <2>5. x \in Nat
    BY <2>3, UsesAre
  <2> HIDE DEF x, y
  <2>6. x = y /\ x <= y
    BY <2>4, <2>5
  <2> QED  BY <2>2, <2>6 DEF x, y
<1>2. \A g : \A j, k \in Incoming(s, g) : j < k /\ s[j].left > 0 => Explained(s[k]) = 0
  BY DEF InTurn
<1> QED  BY <1>1, <1>2 DEF Explains

LEMMA KeptExplains ==
    ASSUME NEW s \in Seq(Shares), \A g : Sum(Uses(s, "out", g)) <= Sum(Uses(s, "in", g))
    PROVE  Explains(s, FALSE)
<1>1. ASSUME NEW g \in DOMAIN s
      PROVE  /\ s[g].left \in 0 .. s[g].amount
             /\ TotalUsed(s, Outgoing(s, s[g])) <= TotalUsed(s, Incoming(s, s[g]))
  <2>1. s[g] \in Shares
    OBVIOUS
  <2>2. s[g].left \in 0 .. s[g].amount
    BY <2>1, ShareIs
  <2> QED  BY <2>2, UsedIs
<1> QED  BY <1>1 DEF Explains

\* An account that no state belongs to is empty.
LEMMA AllExplained ==
    ASSUME NEW s \in Seq(Shares), NEW unextended, Explains(s, unextended)
    PROVE  \A g : Sum(Uses(s, "out", g)) <= Sum(Uses(s, "in", g))
<1> TAKE g
<1>1. CASE \E j \in DOMAIN s : SameAccount(s[j], g)
  <2>1. PICK i \in DOMAIN s : SameAccount(s[i], g)
    BY <1>1
  <2>2. \A e : SameAccount(e, s[i]) <=> SameAccount(e, g)
    BY <2>1 DEF SameAccount
  <2>3. \A d : Uses(s, d, s[i]) = Uses(s, d, g)
    BY <2>2 DEF Uses, Use
  <2>4. Sum(Uses(s, "out", s[i])) <= Sum(Uses(s, "in", s[i]))
    BY UsedIs DEF Explains
  <2> QED  BY <2>3, <2>4
<1>2. CASE ~\E j \in DOMAIN s : SameAccount(s[j], g)
  <2>1. ASSUME NEW d PROVE Sum(Uses(s, d, g)) = 0
    <3>1. Uses(s, d, g) \in Seq(Nat) /\ Len(Uses(s, d, g)) = Len(s)
      BY UsesAre
    <3>2. \A k \in 1 .. Len(s) : Uses(s, d, g)[k] = 0
      BY <1>2, UsesAre DEF Use
    <3> QED  BY <3>1, <3>2, SumOfZeros
  <2> QED  BY <2>1
<1> QED  BY <1>1, <1>2

LEMMA MoneyStep == ASSUME TypeOK, MoneyHolds, [Next]_vars PROVE MoneyHolds'
<1>0. edges \in Seq(Edges) /\ extensions \in Nat
  BY DEF TypeOK
<1>1. ASSUME Finish PROVE MoneyHolds'
  <2> DEFINE es == MoneyOf(edges)
             s  == Consume(es)
  <2>1. es \in Seq(Shares) /\ \A k \in 1 .. Len(es) : Explained(es[k]) = 0
    BY <1>0, MoneyIs
  <2> HIDE DEF es
  <2>2. s \in Seq(Shares) /\ Agreed(s) /\ InTurn(s) /\ \A g : \A k \in Outgoing(s, g) : Backed(s, g, k)
    BY <2>1, ConsumeServes
  <2>3. money' = s
    BY <1>1 DEF Finish, es
  <2> HIDE DEF s
  <2>4. Explains(s, TRUE)
    BY <2>2, ServedExplains
  <2>5. Explains(s, extensions' = 0)
    BY <2>4 DEF Explains
  <2>6. LedgerExplains' <=> (pc' = "done" => Explains(money', extensions' = 0))
    BY LedgerIs
  <2> QED  BY <2>2, <2>3, <2>5, <2>6 DEF MoneyHolds
<1>2. ASSUME NEW a \in Addresses, NEW d \in {"in", "out"}, Extend(a, d) PROVE MoneyHolds'
  <2>1. PICK kept \in Seq(Edges) : money' = Consume(AppendUnique(money, MoneyOf(kept)))
    BY <1>2, Extension DEF Extended, Booked
  <2>2. pc = "done" /\ extensions' # 0
    BY <1>0, <1>2 DEF Extend
  <2>3. money \in Seq(Shares) /\ Explains(money, extensions = 0)
    BY <2>2, LedgerIs DEF MoneyHolds
  <2> DEFINE es == MoneyOf(kept)
             m  == AppendUnique(money, es)
             s  == Consume(m)
  <2>4. es \in Seq(Shares) /\ \A k \in 1 .. Len(es) : Explained(es[k]) = 0
    BY MoneyIs
  <2> HIDE DEF es
  <2>5. \A g : Sum(Uses(money, "out", g)) <= Sum(Uses(money, "in", g))
    BY <2>3, AllExplained
  <2>6. m \in Seq(Shares) /\ \A e, g : Sum(Uses(m, e, g)) = Sum(Uses(money, e, g))
    BY <2>3, <2>4, AppendUses
  <2> HIDE DEF m
  <2>7. \A g : Sum(Uses(m, "out", g)) <= Sum(Uses(m, "in", g))
    BY <2>5, <2>6
  <2>8. s \in Seq(Shares) /\ \A g : Sum(Uses(s, "out", g)) <= Sum(Uses(s, "in", g))
    BY <2>6, <2>7, ConsumeKeeps
  <2>9. money' = s
    BY <2>1 DEF s, m, es
  <2> HIDE DEF s
  <2>10. Explains(s, FALSE)
    BY <2>8, KeptExplains
  <2>11. Explains(s, extensions' = 0)
    BY <2>2, <2>10 DEF Explains
  <2>12. LedgerExplains' <=> (pc' = "done" => Explains(money', extensions' = 0))
    BY LedgerIs
  <2> QED  BY <2>8, <2>9, <2>11, <2>12 DEF MoneyHolds
<1>3. ASSUME ~Finish, ~(\E a \in Addresses, d \in {"in", "out"} : Extend(a, d)) PROVE MoneyHolds'
  <2>1. (pc' = "done" => pc = "done") /\ money' = money /\ extensions' = extensions
    BY <1>3, MoneyStays
  <2>2. LedgerExplains' <=> (pc' = "done" => Explains(money', extensions' = 0))
    BY LedgerIs
  <2> QED  BY <2>1, <2>2, LedgerIs DEF MoneyHolds
<1> QED  BY <1>1, <1>2, <1>3

\* The accounts of every result balance: no state has used more than its amount,
\* no account's outgoing states explain more than its incoming ones have given; and
\* of an unextended result the two agree, no state draws on money that came later, and
\* an incoming state is not touched while an earlier one has something left.
THEOREM LedgerAlwaysExplains == Spec => []LedgerExplains
<1>1. Init => MoneyHolds
  BY DEF Init, MoneyHolds, LedgerExplains
<1>2. TypeOK /\ MoneyHolds /\ [Next]_vars => MoneyHolds'
  BY MoneyStep
<1>3. MoneyHolds => LedgerExplains
  BY DEF MoneyHolds
<1> QED  BY <1>1, <1>2, <1>3, TypeCorrect, PTL DEF Spec

\* What a reader takes from the ledgers of a result: of every account, what went out
\* is explained or unexplained, and what is explained came in; so an account whose
\* ledger is complete has not paid out more than it received.
LinesBalance ==
    pc = "done" => \A g \in DOMAIN money :
        LET line == LedgerLine(money, money[g])
        IN  /\ line.outgoing = line.explained + line.unexplained
            /\ line.explained <= line.incoming
            /\ line.status = "complete" => line.outgoing <= line.incoming

LEMMA LinesAre ==
    ASSUME NEW s \in Seq(Shares), NEW J
    PROVE  /\ TotalUsed(s, J) \in Nat /\ TotalLeft(s, J) \in Nat /\ TotalAmount(s, J) \in Nat
           /\ TotalAmount(s, J) = TotalUsed(s, J) + TotalLeft(s, J)
<1> DEFINE u == [j \in DOMAIN s |-> IF j \in J THEN Explained(s[j]) ELSE 0]
           l == [j \in DOMAIN s |-> IF j \in J THEN s[j].left ELSE 0]
           a == [j \in DOMAIN s |-> IF j \in J THEN s[j].amount ELSE 0]
<1>1. \A k \in 1 .. Len(s) : s[k].amount \in Nat /\ s[k].left \in Nat /\ s[k].left <= s[k].amount
  BY DEF Shares
<1>2. \A k \in 1 .. Len(s) : Explained(s[k]) \in Nat /\ s[k].amount = Explained(s[k]) + s[k].left
  BY <1>1 DEF Explained
<1>3. u \in Seq(Nat) /\ Len(u) = Len(s)
  BY <1>2
<1>4. l \in Seq(Nat) /\ Len(l) = Len(s)
  BY <1>1
<1>5. a \in Seq(Nat) /\ Len(a) = Len(s)
  BY <1>1
<1>6. \A k \in 1 .. Len(u) : a[k] = u[k] + l[k]
  BY <1>1, <1>2, <1>3
<1>7. TotalUsed(s, J) = Sum(u) /\ TotalLeft(s, J) = Sum(l) /\ TotalAmount(s, J) = Sum(a)
  BY DEF TotalUsed, TotalLeft, TotalAmount
<1> HIDE DEF u, l, a
<1>8. Sum(a) = Sum(u) + Sum(l)
  BY <1>3, <1>4, <1>5, <1>6, SumPlus
<1>9. Sum(u) \in Nat /\ Sum(l) \in Nat /\ Sum(a) \in Nat
  BY <1>3, <1>4, <1>5, SumType
<1> QED  BY <1>7, <1>8, <1>9

LEMMA LinesHold == MoneyHolds => LinesBalance
<1> SUFFICES ASSUME MoneyHolds, pc = "done", NEW g \in DOMAIN money
             PROVE  LET line == LedgerLine(money, money[g])
                    IN  /\ line.outgoing = line.explained + line.unexplained
                        /\ line.explained <= line.incoming
                        /\ line.status = "complete" => line.outgoing <= line.incoming
  BY DEF LinesBalance
<1> DEFINE ins  == Incoming(money, money[g])
           outs == Outgoing(money, money[g])
           line == LedgerLine(money, money[g])
<1>1. money \in Seq(Shares) /\ TotalUsed(money, outs) <= TotalUsed(money, ins)
  BY DEF MoneyHolds, LedgerExplains
<1>2. /\ line.incoming = TotalAmount(money, ins) /\ line.outgoing = TotalAmount(money, outs)
      /\ line.explained = TotalUsed(money, outs) /\ line.unexplained = TotalLeft(money, outs)
      /\ line.status = IF line.unexplained = 0 THEN "complete" ELSE "partial"
  BY DEF LedgerLine
<1> HIDE DEF ins, outs
<1>3. /\ TotalUsed(money, outs) \in Nat /\ TotalLeft(money, outs) \in Nat
      /\ TotalAmount(money, outs) = TotalUsed(money, outs) + TotalLeft(money, outs)
  BY <1>1, LinesAre
<1>4. /\ TotalUsed(money, ins) \in Nat /\ TotalLeft(money, ins) \in Nat
      /\ TotalAmount(money, ins) = TotalUsed(money, ins) + TotalLeft(money, ins)
  BY <1>1, LinesAre
<1> HIDE DEF line
<1>5. line.outgoing = line.explained + line.unexplained /\ line.explained <= line.incoming
  BY <1>1, <1>2, <1>3, <1>4
<1>6. line.status = "complete" => line.outgoing <= line.incoming
  BY <1>1, <1>2, <1>3, <1>4
<1> QED  BY <1>5, <1>6 DEF line

\* The ledgers of every result balance, extended or not: explained and unexplained make
\* up what went out, what is explained came in, and an account with a complete ledger
\* has not paid out more than it received.
THEOREM LedgersAlwaysBalance == Spec => []LinesBalance
<1>1. Init => MoneyHolds
  BY DEF Init, MoneyHolds, LedgerExplains
<1>2. TypeOK /\ MoneyHolds /\ [Next]_vars => MoneyHolds'
  BY MoneyStep
<1>3. MoneyHolds => LinesBalance
  BY LinesHold
<1> QED  BY <1>1, <1>2, <1>3, TypeCorrect, PTL DEF Spec

\* Every result has a ledger that is not complete: what the first state of a result
\* paid out came from nowhere the traversal has seen, and no extension changes that.
\* So the reconciliation of a result with money in it is always "partial".
NeverReconciled == pc = "done" /\ money # <<>> => Reconciliation(money) = "partial"

LEMMA OpensStep == ASSUME TypeOK, EdgesHold, MoneyHolds, MoneyOpens, [Next]_vars PROVE MoneyOpens'
<1>0. edges \in Seq(Edges) /\ UNCHANGED facts
  BY WorldStays DEF TypeOK, world
<1>1. ASSUME Finish PROVE MoneyOpens'
  <2> DEFINE es == MoneyOf(edges)
             s  == Consume(es)
  <2>1. /\ es \in Seq(Shares) /\ Halved(es)
        /\ \A k \in 1 .. Len(es) : \E i \in 1 .. Len(edges) : es[k].tx = edges[i].tx /\ es[k].block = edges[i].block
    BY <1>0, MoneyIs, MoneyHalved
  <2>2. AllDated(es)
    <3> HIDE DEF es
    <3>1. \A i \in 1 .. Len(edges) : Dated(edges[i].tx, edges[i].block)
      BY <1>0 DEF EdgesHold
    <3> QED  BY <2>1, <3>1 DEF AllDated
  <2> HIDE DEF es
  <2>3. s \in Seq(Shares) /\ Opens(s) /\ AllDated(s)
    <3>1. Paired(es)
      BY <2>1, HalvedPaired
    <3> QED  BY <2>1, <2>2, <3>1, OpensAfter
  <2>4. money' = s
    BY <1>1 DEF Finish, es
  <2> HIDE DEF s
  <2> QED  BY <1>0, <2>3, <2>4, OpensNext
<1>2. ASSUME NEW a \in Addresses, NEW d \in {"in", "out"}, Extend(a, d) PROVE MoneyOpens'
  <2>1. PICK kept \in Seq(Edges) :
            /\ money' = Consume(AppendUnique(money, MoneyOf(kept)))
            /\ \A k \in DOMAIN kept : Datable(kept[k])
    BY <1>2, Extension DEF Extended, Booked
  <2>2. money \in Seq(Shares) /\ Opens(money) /\ AllDated(money)
    <3>1. pc = "done"
      BY <1>2 DEF Extend
    <3>2. money \in Seq(Shares)
      BY <3>1 DEF MoneyHolds
    <3> QED  BY <3>1, <3>2 DEF MoneyOpens, AllDated
  <2> DEFINE es == MoneyOf(kept)
             m  == AppendUnique(money, es)
             s  == Consume(m)
  <2>3. /\ es \in Seq(Shares) /\ Halved(es) /\ \A k \in 1 .. Len(es) : Explained(es[k]) = 0
        /\ \A k \in 1 .. Len(es) : \E i \in 1 .. Len(kept) : es[k].tx = kept[i].tx /\ es[k].block = kept[i].block
    BY MoneyIs, MoneyHalved
  <2>4. AllDated(es)
    <3> HIDE DEF es
    <3>1. \A i \in 1 .. Len(kept) : Dated(kept[i].tx, kept[i].block)
      BY <2>1, DatableIs
    <3> QED  BY <2>3, <3>1 DEF AllDated
  <2> HIDE DEF es
  <2>5. m \in Seq(Shares)
    BY <2>2, <2>3, AppendUses
  <2>6. Paired(m) /\ AllDated(m)
    BY <2>2, <2>3, <2>4, OpensPaired, AppendPaired
  <2> HIDE DEF m
  <2>7. s \in Seq(Shares) /\ Opens(s) /\ AllDated(s)
    BY <2>5, <2>6, OpensAfter
  <2>8. money' = s
    BY <2>1 DEF s, m, es
  <2> HIDE DEF s
  <2> QED  BY <1>0, <2>7, <2>8, OpensNext
<1>3. ASSUME ~Finish, ~(\E a \in Addresses, d \in {"in", "out"} : Extend(a, d)) PROVE MoneyOpens'
  <2>1. (pc' = "done" => pc = "done") /\ money' = money
    BY <1>3, MoneyStays
  <2> QED  BY <1>0, <2>1 DEF MoneyOpens, Opens, Dated
<1> QED  BY <1>1, <1>2, <1>3

LEMMA NotReconciled == MoneyHolds /\ MoneyOpens => NeverReconciled
<1> SUFFICES ASSUME MoneyHolds, MoneyOpens, pc = "done", money # <<>> PROVE Reconciliation(money) = "partial"
  BY DEF NeverReconciled
<1>1. money \in Seq(Shares) /\ 1 \in 1 .. Len(money)
  BY DEF MoneyHolds
<1>2. money[1].dir = "out" /\ money[1].left = money[1].amount /\ money[1].amount > 0
  BY <1>1 DEF MoneyOpens, Opens
<1>3. \A k \in 1 .. Len(money) : money[k].left \in Nat
  BY <1>1 DEF Shares
<1> DEFINE outs == Outgoing(money, money[1])
           w    == [j \in DOMAIN money |-> IF j \in outs THEN money[j].left ELSE 0]
           z    == [j \in DOMAIN money |-> IF j = 1 THEN money[1].left ELSE 0]
<1>4. 1 \in outs
  BY <1>1, <1>2 DEF Outgoing, SameAccount
<1> HIDE DEF outs
<1>5. w \in Seq(Nat) /\ Len(w) = Len(money) /\ z \in Seq(Nat) /\ Len(z) = Len(money)
  BY <1>1, <1>3
<1>6. \A k \in 1 .. Len(z) : z[k] <= w[k]
  BY <1>1, <1>3, <1>4, <1>5
<1>7. 1 \in 1 .. Len(z) /\ z[1] = money[1].left /\ \A k \in 1 .. Len(z) : k # 1 => z[k] = 0
  BY <1>1, <1>5
<1>8. TotalLeft(money, outs) = Sum(w)
  BY DEF TotalLeft
<1> HIDE DEF w, z
<1>9. Sum(z) = money[1].left /\ Sum(z) <= Sum(w) /\ Sum(w) \in Nat
  BY <1>5, <1>6, <1>7, SumOne, SumLess, SumType
<1>10. TotalLeft(money, outs) # 0
  BY <1>1, <1>2, <1>3, <1>8, <1>9
<1>11. LedgerLine(money, money[1]).status = "partial"
  BY <1>10 DEF LedgerLine, outs
<1> QED  BY <1>1, <1>11 DEF Reconciliation

\* Of a result with money in it the reconciliation is never "complete": the states are
\* in the order of their blocks, every payee's comes after its payer's, so the first of
\* them all is a payer's with an empty queue, and all it paid is unexplained.
THEOREM NothingIsReconciled == Spec => []NeverReconciled
<1>1. Init => MoneyOpens
  BY DEF Init, MoneyOpens
<1>2. TypeOK /\ EdgesHold /\ MoneyHolds /\ MoneyOpens /\ [Next]_vars => MoneyOpens'
  BY OpensStep
<1>3. Init => MoneyHolds
  BY DEF Init, MoneyHolds, LedgerExplains
<1>4. TypeOK /\ MoneyHolds /\ [Next]_vars => MoneyHolds'
  BY MoneyStep
<1>5. IInv => TypeOK /\ EdgesHold
  BY DEF IInv
<1>6. MoneyHolds /\ MoneyOpens => NeverReconciled
  BY NotReconciled
<1> QED  BY <1>1, <1>2, <1>3, <1>4, <1>5, <1>6, Inductive, PTL DEF Spec

\* A traversal that stops asks for what was never asked for, or gives an address up
\* that it had not given up: so the traversals of one trace cannot repeat themselves.
THEOREM StopsAlwaysLearn == Spec => StopsLearn
<1>1. ASSUME [Next]_vars, pc = "walk", pc' \in {"wait", "start"} PROVE attempted' # attempted \/ given' # given
  <2>1. CASE Takings
    BY <1>1, <2>1 DEF Takings, Drop, Takes, TakeQuery, TakeConversion
  <2>2. CASE Expansions
    BY <1>1, <2>2 DEF Expansions, Skip, Dust, NodeLimit, Burn
  <2>3. CASE \E outcome : Follow(outcome)
    BY <1>1, <2>3 DEF Follow
  <2>4. CASE Miss
    <3>1. Other \notin given /\ Depend(Other, <<Other, B.dir, F.block>>, Required)
      BY <2>4 DEF Miss, Available
    <3> QED  BY <3>1 DEF Depend
  <2>5. CASE MissSeed
    BY <1>1, <2>5 DEF MissSeed
  <2>6. CASE Others
    BY <1>1, <2>6 DEF Others, Start, Expanded, EndRound, Finish, vars, Analyse, AnalysisFails
  <2>7. CASE \E a \in Addresses : ClientSync(a) \/ SyncEnds(a)
    BY <1>1, <2>7 DEF ClientSync, SyncEnds
  <2>8. CASE \E a \in Addresses, d \in {"in", "out"} : Extend(a, d)
    BY <1>1, <2>8 DEF Extend
  <2> QED  BY <1>1, <2>1, <2>2, <2>3, <2>4, <2>5, <2>6, <2>7, <2>8, StepsAre
<1>2. [Next]_vars => [pc = "walk" /\ pc' \in {"wait", "start"} => attempted' # attempted \/ given' # given]_vars
  BY <1>1
<1> QED  BY <1>2, PTL DEF Spec, StopsLearn
=============================================================================
