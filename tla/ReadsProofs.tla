---------------------------- MODULE ReadsProofs ----------------------------
(***************************************************************************)
(* What readers are served of a collection that synchronisations write to: *)
(* the pages and the profiles of Reads, composed with the listings of      *)
(* Ingest; and the heap of the largest counterparties.                     *)
(***************************************************************************)
EXTENDS IngestProofs

-----------------------------------------------------------------------------
(* The order of documents, and the first of them *)

LEMMA AheadIs ==
    /\ \A d \in Document : ~AheadOf(d, d)
    /\ \A d, e, f \in Document : AheadOf(d, e) /\ AheadOf(e, f) => AheadOf(d, f)
    /\ \A d, e \in Document : (d.key = e.key /\ d.log = e.log) \/ AheadOf(d, e) \/ AheadOf(e, d)
<1>1. \A d \in Document : d.block \in Nat /\ d.key \in Nat /\ d.log \in Int
  BY DEF Document
<1>2. \A d \in Document : ~AheadOf(d, d)
  BY <1>1 DEF AheadOf
<1>3. \A d, e, f \in Document : AheadOf(d, e) /\ AheadOf(e, f) => AheadOf(d, f)
  BY <1>1 DEF AheadOf
<1>4. \A d, e \in Document : (d.key = e.key /\ d.log = e.log) \/ AheadOf(d, e) \/ AheadOf(e, d)
  BY <1>1 DEF AheadOf
<1> QED  BY <1>2, <1>3, <1>4

\* A finite set with a total order has a first element.
LEMMA Foremost ==
    ASSUME NEW D, IsFiniteSet(D), D # {}, NEW O,
           \A a, b \in D : a = b \/ <<a, b>> \in O \/ <<b, a>> \in O,
           \A a, b, c \in D : <<a, b>> \in O /\ <<b, c>> \in O => <<a, c>> \in O
    PROVE  \E d \in D : \A e \in D : e = d \/ <<d, e>> \in O
<1> DEFINE Has(E) == \E d \in E : \A e \in E : e = d \/ <<d, e>> \in O
           S == {n \in Nat : \A E \in SUBSET D : E # {} /\ Cardinality(E) = n => Has(E)}
<1>1. ASSUME NEW E \in SUBSET D PROVE IsFiniteSet(E) /\ Cardinality(E) \in Nat /\ (E # {} => Cardinality(E) # 0)
  BY FS_Subset, FS_CardinalityType, FS_EmptySet
<1>2. 0 \in S
  BY <1>1
<1>3. ASSUME NEW n \in Nat, n \in S PROVE n + 1 \in S
  <2> SUFFICES ASSUME NEW E \in SUBSET D, E # {}, Cardinality(E) = n + 1 PROVE Has(E)
    OBVIOUS
  <2>1. PICK x \in E : TRUE
    OBVIOUS
  <2> DEFINE k == Cardinality(E \ {x})
  <2>2. k = Cardinality(E) - 1 /\ k \in Nat /\ E \ {x} \in SUBSET D
    BY <1>1, <2>1, FS_RemoveElement
  <2> HIDE DEF k
  <2>3. k = n
    BY <2>2
  <2>4. CASE E \ {x} = {}
    BY <2>1, <2>4
  <2>5. CASE E \ {x} # {}
    <3>1. Has(E \ {x})
      BY <1>3, <2>2, <2>3, <2>5 DEF k
    <3>2. PICK y \in E \ {x} : \A e \in E \ {x} : e = y \/ <<y, e>> \in O
      BY <3>1
    <3>3. CASE <<y, x>> \in O
      BY <2>1, <3>2, <3>3
    <3>4. CASE <<x, y>> \in O
      <4>1. \A e \in E : e = x \/ <<x, e>> \in O
        BY <2>1, <3>2, <3>4
      <4> QED  BY <2>1, <4>1
    <3> QED  BY <2>1, <3>2, <3>3, <3>4
  <2> QED  BY <2>4, <2>5
<1> HIDE DEF S
<1>4. Cardinality(D) \in S
  BY <1>1, <1>2, <1>3, SetInduction
<1> QED  BY <1>4 DEF S

Collection(D) == D \subseteq Document /\ IsFiniteSet(D) /\ Unique(D)

LEMMA BothEnds ==
    ASSUME NEW D, Collection(D), D # {}
    PROVE  /\ \E d \in D : \A e \in D : e = d \/ AheadOf(d, e)
           /\ \E d \in D : \A e \in D : e = d \/ AheadOf(e, d)
<1> DEFINE O == {p \in D \X D : AheadOf(p[1], p[2])}
           Q == {p \in D \X D : AheadOf(p[2], p[1])}
<1>1. D \subseteq Document /\ IsFiniteSet(D) /\ Unique(D)
  BY DEF Collection
<1>2. \A a, b \in D : a = b \/ AheadOf(a, b) \/ AheadOf(b, a)
  BY <1>1, AheadIs DEF Unique
<1>3. \A a, b, c \in D : AheadOf(a, b) /\ AheadOf(b, c) => AheadOf(a, c)
  BY <1>1, AheadIs
<1>4. \A a, b \in D : (<<a, b>> \in O <=> AheadOf(a, b)) /\ (<<a, b>> \in Q <=> AheadOf(b, a))
  OBVIOUS
<1> HIDE DEF O, Q
<1>5. \E d \in D : \A e \in D : e = d \/ <<d, e>> \in O
  BY <1>1, <1>2, <1>3, <1>4, Foremost
<1>6. \E d \in D : \A e \in D : e = d \/ <<d, e>> \in Q
  BY <1>1, <1>2, <1>3, <1>4, Foremost
<1> QED  BY <1>4, <1>5, <1>6

Front(S, d) == {e \in S : AheadOf(e, d)}

LEMMA FrontIs ==
    ASSUME NEW S, Collection(S)
    PROVE  /\ \A d : IsFiniteSet(Front(S, d)) /\ Cardinality(Front(S, d)) \in Nat
           /\ \A d, e \in S : AheadOf(d, e) => Cardinality(Front(S, d)) <= Cardinality(Front(S, e))
           /\ \A d \in S : Cardinality(Front(S, d)) < Cardinality(S)
           /\ Cardinality(S) \in Nat
           /\ \A n : First(S, n) = {d \in S : Cardinality(Front(S, d)) < n}
<1>1. S \subseteq Document /\ IsFiniteSet(S) /\ Cardinality(S) \in Nat
  BY FS_CardinalityType DEF Collection
<1>2. \A d : IsFiniteSet(Front(S, d)) /\ Cardinality(Front(S, d)) \in Nat
  BY <1>1, FS_Subset, FS_CardinalityType DEF Front
<1>3. ASSUME NEW d \in S, NEW e \in S, AheadOf(d, e) PROVE Cardinality(Front(S, d)) <= Cardinality(Front(S, e))
  <2>1. Front(S, d) \subseteq Front(S, e)
    BY <1>1, <1>3, AheadIs DEF Front
  <2> QED  BY <1>2, <2>1, FS_Subset
<1>4. ASSUME NEW d \in S PROVE Cardinality(Front(S, d)) < Cardinality(S)
  <2>1. Front(S, d) \subseteq S /\ Front(S, d) # S
    BY <1>1, AheadIs DEF Front
  <2> QED  BY <1>1, <1>2, <2>1, FS_Subset
<1>5. \A n : First(S, n) = {d \in S : Cardinality(Front(S, d)) < n}
  BY Zenon DEF First, Front
<1> QED  BY <1>1, <1>2, <1>3, <1>4, <1>5

\* The first n are ahead of the others, and all if they are fewer.
LEMMA FirstAre ==
    ASSUME NEW S, Collection(S), NEW n \in Nat
    PROVE  /\ First(S, n) \subseteq S
           /\ \A d \in S : \A e \in First(S, n) : AheadOf(d, e) => d \in First(S, n)
           /\ Cardinality(S) <= n => First(S, n) = S
           /\ Cardinality(First(S, n)) < n => First(S, n) = S
           /\ S # {} /\ n # 0 => First(S, n) # {}
<1> DEFINE F == First(S, n)
           a(d) == Cardinality(Front(S, d))
<1>0. S \subseteq Document /\ IsFiniteSet(S)
  BY DEF Collection
<1>1. \A d \in S : a(d) \in Nat /\ a(d) < Cardinality(S)
  BY FrontIs
<1>2. \A d, e \in S : AheadOf(d, e) => a(d) <= a(e)
  BY FrontIs
<1>3. F = {d \in S : a(d) < n} /\ Cardinality(S) \in Nat
  BY FrontIs
<1> HIDE DEF F, a
<1>4. \A d \in S : \A e \in F : AheadOf(d, e) => d \in F
  BY <1>1, <1>2, <1>3
<1>5. Cardinality(S) <= n => F = S
  BY <1>1, <1>3
<1>6. ASSUME Cardinality(F) < n PROVE F = S
  <2> SUFFICES ASSUME S \ F # {} PROVE FALSE
    BY <1>3
  <2>1. Collection(S \ F)
    BY FS_Difference DEF Collection, Unique
  <2>2. PICK x \in S \ F : \A e \in S \ F : e = x \/ AheadOf(x, e)
    BY <2>1, BothEnds
  <2>3. Front(S, x) \subseteq F
    <3> SUFFICES ASSUME NEW e \in S \ F, AheadOf(e, x) PROVE FALSE
      BY DEF Front
    <3>1. e = x \/ AheadOf(x, e)
      BY <2>2
    <3> QED  BY <1>0, <3>1, AheadIs
  <2>4. a(x) <= Cardinality(F)
    <3>1. IsFiniteSet(F)
      BY <1>0, <1>3, FS_Subset
    <3> QED  BY <2>3, <3>1, FS_Subset DEF a
  <2>5. ~(a(x) < n) /\ a(x) \in Nat
    BY <1>1, <1>3, <2>2
  <2>6. Cardinality(F) \in Nat
    BY <1>0, <1>3, FS_Subset, FS_CardinalityType
  <2> QED  BY <1>6, <2>4, <2>5, <2>6
<1>7. ASSUME S # {}, n # 0 PROVE F # {}
  <2>1. PICK x \in S : \A e \in S : e = x \/ AheadOf(x, e)
    BY <1>7, BothEnds
  <2>2. Front(S, x) = {}
    BY <1>0, <2>1, AheadIs DEF Front
  <2>3. a(x) = 0
    BY <2>2, FS_EmptySet DEF a
  <2> QED  BY <1>3, <1>7, <2>3
<1> QED  BY <1>3, <1>4, <1>5, <1>6, <1>7 DEF F

\* A page has all that it goes past; the cursor it leaves is its last.
LEMMA Paged ==
    ASSUME NEW S, Collection(S)
    PROVE  LET found == First(S, PageLimit + 1)
               page  == First(found, PageLimit)
               more  == Cardinality(found) > PageLimit
           IN /\ page \subseteq S
              /\ \A d \in S : (more => \E e \in page : e = d \/ AheadOf(d, e)) => d \in page
              /\ more => /\ LastIn(page) # {} /\ LastIn(page) \subseteq page
                         /\ \A d \in page : \E e \in LastIn(page) : d = e \/ AheadOf(d, e)
<1> DEFINE found == First(S, PageLimit + 1)
           page  == First(found, PageLimit)
           more  == Cardinality(found) > PageLimit
<1>0. PageLimit \in Nat \ {0} /\ PageLimit + 1 \in Nat
  BY ReadsAssumption
<1>1. /\ found \subseteq S /\ (Cardinality(found) < PageLimit + 1 => found = S)
      /\ \A d \in S : \A e \in found : AheadOf(d, e) => d \in found
  BY <1>0, FirstAre
<1>2. Collection(found) /\ Cardinality(found) \in Nat
  BY <1>1, FS_Subset, FS_CardinalityType DEF Collection, Unique
<1> HIDE DEF found
<1>3. /\ page \subseteq found /\ (Cardinality(found) <= PageLimit => page = found)
      /\ \A d \in found : \A e \in page : AheadOf(d, e) => d \in page
      /\ found # {} => page # {}
  BY <1>0, <1>2, FirstAre
<1>4. Collection(page)
  BY <1>2, <1>3, FS_Subset DEF Collection, Unique
<1> HIDE DEF page
<1>5. ASSUME NEW d \in S, more => \E e \in page : e = d \/ AheadOf(d, e) PROVE d \in page
  <2>1. CASE more
    BY <1>1, <1>3, <1>5, <2>1
  <2>2. CASE ~more
    BY <1>0, <1>1, <1>2, <1>3, <2>2
  <2> QED  BY <2>1, <2>2
<1>6. ASSUME more
      PROVE  /\ LastIn(page) # {} /\ LastIn(page) \subseteq page
             /\ \A d \in page : \E e \in LastIn(page) : d = e \/ AheadOf(d, e)
  <2>1. page # {}
    <3>1. found # {}
      BY <1>0, <1>6, FS_EmptySet
    <3> QED  BY <1>3, <3>1
  <2>2. PICK x \in page : \A e \in page : e = x \/ AheadOf(e, x)
    BY <1>4, <2>1, BothEnds
  <2>3. x \in LastIn(page)
    BY <2>2 DEF LastIn
  <2> QED  BY <2>2, <2>3 DEF LastIn
<1> QED  BY <1>1, <1>3, <1>5, <1>6 DEF found, page
-----------------------------------------------------------------------------
(* The documents that rows stand for *)

Keep(R) == {r \in R : Retained(r)}
Numbered(R, key) == Cardinality({s \in R : s.sort = "bare" /\ s.key = key})
Numbers(R, r) == IF r.sort = "bare" THEN {-n : n \in 1 .. Numbered(R, r.key)} ELSE {r.nr}
DocOf(r, log) == [block |-> r.block, key |-> r.key, log |-> log, peer |-> r.peer, amount |-> r.amount]

LEMMA InReference ==
    ASSUME NEW K, NEW i
    PROVE  i \in Reference(K) <=>
              \E r \in K : \/ r.sort # "bare" /\ i = [key |-> r.key, log |-> r.nr]
                           \/ r.sort = "bare" /\ \E n \in 1 .. Numbered(K, r.key) : i = [key |-> r.key, log |-> -n]
<1> DEFINE bare == {s \in K : s.sort = "bare"}
<1>1. \A key : Cardinality({s \in bare : s.key = key}) = Numbered(K, key)
  <2>1. \A key : {s \in bare : s.key = key} = {s \in K : s.sort = "bare" /\ s.key = key}
    OBVIOUS
  <2> QED  BY <2>1, Zenon DEF Numbered
<1>2. Reference(K) = {[key |-> r.key, log |-> r.nr] : r \in K \ bare} \cup
        UNION {{[key |-> r.key, log |-> -n] : n \in 1 .. Cardinality({s \in bare : s.key = r.key})} : r \in bare}
  BY Zenon DEF Reference
<1>3. i \in Reference(K) <=>
        \/ \E r \in K \ bare : i = [key |-> r.key, log |-> r.nr]
        \/ \E r \in bare : \E n \in 1 .. Cardinality({s \in bare : s.key = r.key}) : i = [key |-> r.key, log |-> -n]
  <2> DEFINE A == {[key |-> r.key, log |-> r.nr] : r \in K \ bare}
             B(r) == {[key |-> r.key, log |-> -n] : n \in 1 .. Cardinality({s \in bare : s.key = r.key})}
  <2>1. Reference(K) = A \cup UNION {B(r) : r \in bare}
    BY <1>2, Zenon
  <2>2. i \in A <=> \E r \in K \ bare : i = [key |-> r.key, log |-> r.nr]
    BY Zenon
  <2>3. \A r : i \in B(r) <=> \E n \in 1 .. Cardinality({s \in bare : s.key = r.key}) : i = [key |-> r.key, log |-> -n]
    BY Zenon
  <2> HIDE DEF A, B
  <2>4. i \in Reference(K) <=> i \in A \/ \E r \in bare : i \in B(r)
    BY <2>1
  <2> QED  BY <2>2, <2>3, <2>4, Zenon
<1>4. i \in Reference(K) <=>
        \/ \E r \in K \ bare : i = [key |-> r.key, log |-> r.nr]
        \/ \E r \in bare : \E n \in 1 .. Numbered(K, r.key) : i = [key |-> r.key, log |-> -n]
  BY <1>1, <1>3
<1> QED  BY <1>4

LEMMA KeepNumbers ==
    ASSUME NEW R PROVE \A key : Numbered(Keep(R), key) = Numbered(R, key)
<1>1. \A key : {s \in Keep(R) : s.sort = "bare" /\ s.key = key} = {s \in R : s.sort = "bare" /\ s.key = key}
  BY DEF Keep, Retained
<1> QED  BY <1>1, Zenon DEF Numbered

\* A document is a row with a number: its log index, or one that is counted.
LEMMA DocumentsAre ==
    ASSUME NEW R, R \subseteq Row, NEW d
    PROVE  d \in DocumentsFor(R) <=> \E r \in Keep(R) : \E log \in Numbers(R, r) : d = DocOf(r, log)
<1> DEFINE Of(r) == {j \in Reference(Keep(R)) : j.key = r.key /\ IF r.sort = "bare" THEN j.log < 0 ELSE j.log = r.nr}
<1>1. d \in DocumentsFor(R) <=>
        \E r \in Keep(R) : \E i \in Of(r) :
            d = [block |-> r.block, key |-> i.key, log |-> i.log, peer |-> r.peer, amount |-> r.amount]
  <2> DEFINE B(r) == {[block |-> r.block, key |-> i.key, log |-> i.log, peer |-> r.peer, amount |-> r.amount] : i \in Of(r)}
  <2>1. DocumentsFor(R) = UNION {B(r) : r \in Keep(R)}
    BY Zenon DEF DocumentsFor, Keep
  <2>2. \A r : d \in B(r) <=> \E i \in Of(r) :
            d = [block |-> r.block, key |-> i.key, log |-> i.log, peer |-> r.peer, amount |-> r.amount]
    BY Zenon
  <2> HIDE DEF B, Of
  <2>3. d \in DocumentsFor(R) <=> \E r \in Keep(R) : d \in B(r)
    BY <2>1
  <2> QED  BY <2>2, <2>3, Zenon
<1>2. ASSUME NEW r \in Keep(R), NEW i \in Of(r) PROVE i.key = r.key /\ i.log \in Numbers(R, r)
  <2>1. i \in Reference(Keep(R)) /\ i.key = r.key /\ IF r.sort = "bare" THEN i.log < 0 ELSE i.log = r.nr
    OBVIOUS
  <2>2. CASE r.sort # "bare"
    BY <2>1, <2>2 DEF Numbers
  <2>3. CASE r.sort = "bare"
    <3>1. PICK s \in Keep(R) : \/ s.sort # "bare" /\ i = [key |-> s.key, log |-> s.nr]
                               \/ s.sort = "bare" /\ \E n \in 1 .. Numbered(Keep(R), s.key) : i = [key |-> s.key, log |-> -n]
      BY <2>1, InReference
    <3>2. s.nr \in Nat
      BY DEF Keep, Row
    <3>3. \E n \in 1 .. Numbered(Keep(R), s.key) : i = [key |-> s.key, log |-> -n]
      BY <2>1, <2>3, <3>1, <3>2
    <3>4. s.key = r.key
      BY <2>1, <3>3
    <3> QED  BY <2>3, <3>3, <3>4, KeepNumbers DEF Numbers
  <2> QED  BY <2>1, <2>2, <2>3
<1>3. ASSUME NEW r \in Keep(R), NEW log \in Numbers(R, r) PROVE \E i \in Of(r) : i.key = r.key /\ i.log = log
  <2> DEFINE i == [key |-> r.key, log |-> log]
  <2>1. CASE r.sort # "bare"
    <3>1. i \in Reference(Keep(R))
      BY <2>1, InReference DEF Numbers
    <3> QED  BY <2>1, <3>1 DEF Numbers
  <2>2. CASE r.sort = "bare"
    <3>1. PICK n \in 1 .. Numbered(R, r.key) : log = -n
      BY <2>2 DEF Numbers
    <3>2. n \in 1 .. Numbered(Keep(R), r.key)
      BY KeepNumbers
    <3>3. i \in Reference(Keep(R))
      BY <2>2, <3>1, <3>2, InReference
    <3>4. log < 0
      BY <3>1
    <3> QED  BY <2>2, <3>3, <3>4
  <2> QED  BY <2>1, <2>2
<1> HIDE DEF Of
<1> QED  BY <1>1, <1>2, <1>3 DEF DocOf

LEMMA NumbersAre ==
    ASSUME NEW R, R \subseteq Row, NEW r \in R
    PROVE  /\ r.block \in Nat /\ r.key \in Nat /\ r.nr \in Nat /\ r.peer \in Nat /\ r.amount \in Nat
           /\ \A log \in Numbers(R, r) : log \in Int /\ IF r.sort = "bare" THEN log < 0 ELSE log = r.nr
BY DEF Row, Numbers

LEMMA DocumentsShaped ==
    ASSUME NEW R, R \subseteq Row PROVE DocumentsFor(R) \subseteq Shapes(R)
<1> SUFFICES ASSUME NEW d \in DocumentsFor(R) PROVE d \in Shapes(R)
  OBVIOUS
<1>1. PICK r \in Keep(R) : \E log \in Numbers(R, r) : d = DocOf(r, log)
  BY DocumentsAre
<1>2. PICK log \in Numbers(R, r) : d = DocOf(r, log)
  BY <1>1
<1>3. /\ r \in R /\ Retained(r) /\ r.block \in Nat /\ r.key \in Nat /\ r.peer \in Nat /\ r.amount \in Nat
      /\ log \in Int /\ IF r.sort = "bare" THEN log < 0 ELSE log = r.nr
  BY NumbersAre DEF Keep
<1>4. d \in Document
  BY <1>2, <1>3 DEF Document, DocOf
<1> QED  BY <1>2, <1>3, <1>4 DEF Shapes, DocOf

LEMMA ShapesGrow ==
    ASSUME NEW R, NEW Q, R \subseteq Q PROVE Shapes(R) \subseteq Shapes(Q)
BY DEF Shapes

\* The key and the number of a document tell which it is.
LEMMA ShapesUnique ==
    ASSUME NEW R, R \subseteq Row, Distinct(R), KeysTell(R) PROVE Unique(Shapes(R))
<1> SUFFICES ASSUME NEW d \in Shapes(R), NEW e \in Shapes(R), d.key = e.key, d.log = e.log PROVE d = e
  BY DEF Unique
<1>1. PICK r \in R : /\ d.key = r.key /\ d.block = r.block /\ d.peer = r.peer /\ d.amount = r.amount
                     /\ IF r.sort = "bare" THEN d.log < 0 ELSE d.log = r.nr
  BY DEF Shapes
<1>2. PICK s \in R : /\ e.key = s.key /\ e.block = s.block /\ e.peer = s.peer /\ e.amount = s.amount
                     /\ IF s.sort = "bare" THEN e.log < 0 ELSE e.log = s.nr
  BY DEF Shapes
<1>3. r.nr \in Nat /\ s.nr \in Nat /\ r.key = s.key
  BY <1>1, <1>2 DEF Row
<1>4. r.block = s.block /\ (r.sort = "bare" /\ s.sort = "bare" => r.peer = s.peer /\ r.amount = s.amount)
  BY <1>3 DEF KeysTell
<1>5. d.block = e.block /\ d.peer = e.peer /\ d.amount = e.amount
  <2>1. CASE r.sort = "bare"
    <3>1. s.sort = "bare"
      BY <1>1, <1>2, <1>3, <2>1
    <3> QED  BY <1>1, <1>2, <1>4, <2>1, <3>1
  <2>2. CASE r.sort # "bare"
    <3>1. s.sort # "bare" /\ r.nr = s.nr
      BY <1>1, <1>2, <1>3, <2>2
    <3>2. r = s
      BY <1>4, <3>1 DEF Distinct
    <3> QED  BY <1>1, <1>2, <3>2
  <2> QED  BY <2>1, <2>2
<1>6. d \in Document /\ e \in Document
  BY DEF Shapes
<1> QED  BY <1>5, <1>6 DEF Document

LEMMA MoreNumbered ==
    ASSUME NEW Q, IsFiniteSet(Q), NEW R, R \subseteq Q, NEW key
    PROVE  Numbered(R, key) \in Nat /\ Numbered(Q, key) \in Nat /\ Numbered(R, key) <= Numbered(Q, key)
<1> DEFINE A == {s \in R : s.sort = "bare" /\ s.key = key}
           B == {s \in Q : s.sort = "bare" /\ s.key = key}
<1>1. A \subseteq B /\ IsFiniteSet(B)
  BY FS_Subset
<1> HIDE DEF A, B
<1>2. IsFiniteSet(A) /\ Cardinality(A) <= Cardinality(B) /\ Cardinality(A) \in Nat /\ Cardinality(B) \in Nat
  BY <1>1, FS_Subset, FS_CardinalityType
<1> QED  BY <1>2 DEF A, B, Numbered

\* More rows stand for more documents, and other blocks for others.
LEMMA DocumentsGrow ==
    ASSUME NEW Q, Q \subseteq Row, IsFiniteSet(Q), NEW R, R \subseteq Q
    PROVE  DocumentsFor(R) \subseteq DocumentsFor(Q)
<1> SUFFICES ASSUME NEW d \in DocumentsFor(R) PROVE d \in DocumentsFor(Q)
  OBVIOUS
<1>1. R \subseteq Row
  OBVIOUS
<1>5. PICK r \in Keep(R) : \E log \in Numbers(R, r) : d = DocOf(r, log)
  BY <1>1, DocumentsAre
<1>2. PICK log \in Numbers(R, r) : d = DocOf(r, log)
  BY <1>5
<1>3. r \in Keep(Q)
  BY DEF Keep
<1>4. log \in Numbers(Q, r)
  <2>1. Numbered(R, r.key) \in Nat /\ Numbered(Q, r.key) \in Nat /\ Numbered(R, r.key) <= Numbered(Q, r.key)
    BY MoreNumbered
  <2> QED  BY <2>1 DEF Numbers
<1> QED  BY <1>2, <1>3, <1>4, DocumentsAre

LEMMA OwedSame ==
    ASSUME NEW Q, Q \subseteq Row, KeysTell(Q), NEW R, R \subseteq Q, NEW lo, NEW hi,
           \A r \in Q \ R : r.block \notin lo .. hi
    PROVE  Owed(Q, lo, hi) = Owed(R, lo, hi)
<1>0. R \subseteq Row /\ Q \subseteq Row
  OBVIOUS
<1>1. ASSUME NEW r \in R, r.block \in lo .. hi PROVE Numbers(Q, r) = Numbers(R, r)
  <2>1. \A s \in Q \ R : r.key # s.key
    BY <1>1 DEF KeysTell
  <2>2. {s \in Q : s.sort = "bare" /\ s.key = r.key} = {s \in R : s.sort = "bare" /\ s.key = r.key}
    BY <2>1
  <2> QED  BY <2>2, Zenon DEF Numbers, Numbered
<1>2. ASSUME NEW d, d.block \in lo .. hi PROVE d \in DocumentsFor(Q) <=> d \in DocumentsFor(R)
  <2>1. ASSUME NEW r \in Keep(Q), NEW log, d = DocOf(r, log) PROVE r \in Keep(R) /\ r \in R /\ r.block \in lo .. hi
    BY <1>2, <2>1 DEF Keep, DocOf
  <2>2. Keep(R) \subseteq Keep(Q)
    BY DEF Keep
  <2>3. d \in DocumentsFor(Q) <=> \E r \in Keep(Q) : \E log \in Numbers(Q, r) : d = DocOf(r, log)
    BY <1>0, DocumentsAre
  <2>4. d \in DocumentsFor(R) <=> \E r \in Keep(R) : \E log \in Numbers(R, r) : d = DocOf(r, log)
    BY <1>0, DocumentsAre
  <2> QED  BY <1>1, <2>1, <2>2, <2>3, <2>4
<1> QED  BY <1>2 DEF Owed
-----------------------------------------------------------------------------
(* The documents of a listing *)

LEMMA Identified ==
    ASSUME NEW k, k.raw \in Seq(Row), NEW i \in Returned(k)
    PROVE  /\ i \in DOMAIN k.raw /\ k.raw[i] \in Row /\ k.raw[i] \in Records(k) /\ Retained(k.raw[i])
           /\ Identity(k.raw, i).key = k.raw[i].key
           /\ Identity(k.raw, i).log \in Int
           /\ IF k.raw[i].sort = "bare" THEN Identity(k.raw, i).log < 0 ELSE Identity(k.raw, i).log = k.raw[i].nr
<1>1. i \in DOMAIN k.raw /\ Retained(k.raw[i]) /\ k.raw[i] \in Row
  BY DEF Returned, Places
<1>2. Cardinality(Counted(k.raw, i)) \in Nat
  <2>1. IsFiniteSet(1 .. i - 1)
    <3>1. i \in 1 .. Len(k.raw)
      BY <1>1
    <3> QED  BY <3>1, FS_Interval
  <2> QED  BY <2>1, FS_Subset, FS_CardinalityType DEF Counted
<1>3. k.raw[i].nr \in Nat
  BY <1>1 DEF Row
<1> QED  BY <1>1, <1>2, <1>3 DEF Identity, Records

LEMMA DocumentsListed ==
    ASSUME NEW k, k.raw \in Seq(Row), NEW d
    PROVE  d \in Documents(k) <=> \E i \in Returned(k) : d = DocOf(k.raw[i], Identity(k.raw, i).log)
BY Zenon DEF Documents, DocOf

LEMMA RecordsSeen ==
    ASSUME NEW k PROVE Records(k) \subseteq Keep(Seen(k))
BY DEF Records, Returned, Places, Keep, Seen

LEMMA ListedShapes ==
    ASSUME NEW k, k.raw \in Seq(Row), NEW R, Seen(k) \subseteq R PROVE Documents(k) \subseteq Shapes(R)
<1> SUFFICES ASSUME NEW d \in Documents(k) PROVE d \in Shapes(R)
  OBVIOUS
<1>1. PICK i \in Returned(k) : d = DocOf(k.raw[i], Identity(k.raw, i).log)
  BY DocumentsListed
<1>2. /\ k.raw[i] \in R /\ k.raw[i] \in Row /\ Retained(k.raw[i]) /\ Identity(k.raw, i).log \in Int
      /\ IF k.raw[i].sort = "bare" THEN Identity(k.raw, i).log < 0 ELSE Identity(k.raw, i).log = k.raw[i].nr
  BY Identified, RecordsSeen DEF Keep
<1>3. d \in Document
  BY <1>1, <1>2 DEF Document, DocOf, Row
<1> QED  BY <1>1, <1>2, <1>3 DEF Shapes, DocOf

\* An undisturbed listing returns documents that the rows stand for, a whole one all of them.
LEMMA ListedDocuments ==
    ASSUME NEW k, k.raw \in Seq(Row), NEW R, R \subseteq Row, IsFiniteSet(R), Seen(k) \subseteq R,
           {Identity(k.raw, i) : i \in Returned(k)} = Reference(Records(k))
    PROVE  Documents(k) \subseteq DocumentsFor(R)
<1> SUFFICES ASSUME NEW d \in Documents(k) PROVE d \in DocumentsFor(R)
  OBVIOUS
<1>1. PICK i \in Returned(k) : d = DocOf(k.raw[i], Identity(k.raw, i).log)
  BY DocumentsListed
<1> DEFINE r == k.raw[i]
           j == Identity(k.raw, i)
<1>2. /\ r \in Row /\ Retained(r) /\ r \in Records(k) /\ j.key = r.key
      /\ IF r.sort = "bare" THEN j.log < 0 ELSE j.log = r.nr
  BY Identified
<1>3. Records(k) \subseteq R
  BY RecordsSeen DEF Keep
<1>4. j \in Reference(Records(k))
  OBVIOUS
<1> HIDE DEF r, j
<1>5. j.log \in Numbers(R, r)
  <2>1. CASE r.sort # "bare"
    BY <1>2, <2>1 DEF Numbers
  <2>2. CASE r.sort = "bare"
    <3>1. PICK s \in Records(k) : \/ s.sort # "bare" /\ j = [key |-> s.key, log |-> s.nr]
                                  \/ s.sort = "bare" /\ \E n \in 1 .. Numbered(Records(k), s.key) : j = [key |-> s.key, log |-> -n]
      BY <1>4, InReference
    <3>2. s.nr \in Nat
      BY <1>3 DEF Row
    <3>3. PICK n \in 1 .. Numbered(Records(k), s.key) : j = [key |-> s.key, log |-> -n]
      BY <1>2, <2>2, <3>1, <3>2
    <3>4. s.key = r.key
      BY <1>2, <3>3
    <3>5. n \in 1 .. Numbered(R, r.key)
      BY <1>3, <3>4, MoreNumbered
    <3> QED  BY <2>2, <3>3, <3>5 DEF Numbers
  <2> QED  BY <2>1, <2>2
<1>6. r \in Keep(R)
  BY <1>2, <1>3 DEF Keep
<1> QED  BY <1>1, <1>5, <1>6, DocumentsAre DEF r, j

LEMMA WholeDocuments ==
    ASSUME NEW k, k.raw \in Seq(Row), NEW R, R \subseteq Row, Distinct(R), KeysTell(R), Seen(k) \subseteq R,
           {Identity(k.raw, i) : i \in Returned(k)} = Reference(Records(k)), Keep(R) \subseteq Records(k)
    PROVE  DocumentsFor(R) \subseteq Documents(k)
<1> SUFFICES ASSUME NEW d \in DocumentsFor(R) PROVE d \in Documents(k)
  OBVIOUS
<1>0. PICK r \in Keep(R) : \E log \in Numbers(R, r) : d = DocOf(r, log)
  BY DocumentsAre
<1>1. PICK log \in Numbers(R, r) : d = DocOf(r, log)
  BY <1>0
<1>2. /\ r \in R /\ r.nr \in Nat /\ log \in Int /\ IF r.sort = "bare" THEN log < 0 ELSE log = r.nr
  BY NumbersAre DEF Keep
<1>3. Records(k) = Keep(R)
  BY RecordsSeen DEF Keep
<1>4. [key |-> r.key, log |-> log] \in Reference(Records(k))
  <2>1. CASE r.sort # "bare"
    BY <1>2, <1>3, <2>1, InReference
  <2>2. CASE r.sort = "bare"
    <3>1. PICK n \in 1 .. Numbered(R, r.key) : log = -n
      BY <2>2 DEF Numbers
    <3>2. n \in 1 .. Numbered(Records(k), r.key)
      BY <1>3, KeepNumbers
    <3> QED  BY <1>3, <2>2, <3>1, <3>2, InReference
  <2> QED  BY <2>1, <2>2
<1>5. PICK i \in Returned(k) : [key |-> r.key, log |-> log] = Identity(k.raw, i)
  BY <1>4
<1> DEFINE s == k.raw[i]
           j == Identity(k.raw, i)
<1>6. /\ s \in Row /\ s \in Records(k) /\ j.key = s.key
      /\ IF s.sort = "bare" THEN j.log < 0 ELSE j.log = s.nr
  BY Identified
<1>7. j.key = r.key /\ j.log = log
  BY <1>5
<1>8. d = DocOf(s, j.log) => d \in Documents(k)
  BY DocumentsListed
<1> HIDE DEF s, j
<1>9. s \in R /\ s.nr \in Nat /\ s.key = r.key
  BY <1>3, <1>6, <1>7 DEF Keep, Row
<1>10. s.block = r.block /\ (s.sort = "bare" /\ r.sort = "bare" => s.peer = r.peer /\ s.amount = r.amount)
  BY <1>2, <1>9 DEF KeysTell
<1>11. CASE r.sort = "bare"
  <2>1. s.sort = "bare"
    BY <1>2, <1>6, <1>7, <1>9, <1>11
  <2> QED  BY <1>1, <1>7, <1>8, <1>9, <1>10, <1>11, <2>1 DEF DocOf
<1>12. CASE r.sort # "bare"
  <2>1. s.sort # "bare" /\ s.nr = r.nr
    BY <1>2, <1>6, <1>7, <1>12
  <2>2. s = r
    BY <1>2, <1>9, <1>10, <2>1 DEF Distinct
  <2> QED  BY <1>1, <1>7, <1>8, <2>2
<1> QED  BY <1>11, <1>12
-----------------------------------------------------------------------------
(* Synchronisations *)

Alone(c) == \A d \in Callers \ {c} : call'[d] = call[d] /\ job'[d] = job[d]

\* One caller: its role, its step, its request, and the rows.
Lister(p, step, k, R) ==
    /\ p = "list" =>
          /\ step \in {"start", "list", "write", "end"}
          /\ step = "start" => k = Idle
          /\ k # Idle => k.ask = "list"
          /\ k.before \cup Seen(k) \subseteq R
          /\ k.at = "done" /\ k.ask = "list" => k.before \subseteq k.after /\ k.after \subseteq R
    /\ step \in {"list", "write"} => p = "list"
    /\ step = "write" => k.at = "done" /\ k.ask = "list" /\ k.out \in {"whole", "record_limit"}

LEMMA ListersAre == ListersOK <=> \A c \in Callers : Lister(role[c], job[c].step, call[c], rows)
BY DEF ListersOK, Lister, Lists, Out

\* A request on its way goes on.
Moves(k, e) ==
    /\ k.at \in Underway /\ e.at # "idle" /\ e.ask = k.ask /\ e.before = k.before
    /\ Seen(k) \subseteq rows => Seen(e) \subseteq rows
    /\ e.at = "done" => e.after = rows

LEMMA EndedMoves ==
    ASSUME ClientOK, NEW c \in Callers, NEW out, call[c].at \in Underway, Ended(c, out)
    PROVE  Moves(call[c], call'[c]) /\ \A d \in Callers \ {c} : call'[d] = call[d]
<1> DEFINE e == [call[c] EXCEPT !.at = "done", !.out = out, !.after = rows]
<1>1. call \in [Callers -> Calls] /\ call[c] \in Calls
  BY DEF ClientOK
<1>2. call' = [call EXCEPT ![c] = e]
  BY <1>1 DEF Ended
<1>3. e.at = "done" /\ e.ask = call[c].ask /\ e.before = call[c].before /\ e.raw = call[c].raw /\ e.after = rows
  BY <1>1 DEF Calls
<1> HIDE DEF e
<1> QED  BY <1>1, <1>2, <1>3 DEF Moves, Seen

LEMMA WaitingMoves ==
    ASSUME ClientOK, NEW c \in Callers, NEW at \in Underway, NEW tries, call[c].at \in Underway,
           \/ call' = [call EXCEPT ![c].at = at]
           \/ call' = [call EXCEPT ![c].at = at, ![c].tries = tries]
    PROVE  Moves(call[c], call'[c]) /\ \A d \in Callers \ {c} : call'[d] = call[d]
<1>1. call \in [Callers -> Calls] /\ call[c] \in Calls
  BY DEF ClientOK
<1>2. PICK e \in {[call[c] EXCEPT !.at = at], [call[c] EXCEPT !.at = at, !.tries = tries]} : call' = [call EXCEPT ![c] = e]
  BY <1>1
<1>3. e.at = at /\ e.ask = call[c].ask /\ e.before = call[c].before /\ e.raw = call[c].raw
  BY <1>1 DEF Calls
<1>4. call'[c] = e /\ \A d \in Callers \ {c} : call'[d] = call[d]
  BY <1>1, <1>2
<1> QED  BY <1>3, <1>4 DEF Moves, Seen, Underway

LEMMA PageMoves ==
    ASSUME ClientOK, RowsOK, ListsOK, NEW c \in Callers, AnswerPage(c)
    PROVE  Moves(call[c], call'[c]) /\ \A d \in Callers \ {c} : call'[d] = call[d]
<1> DEFINE k == call[c]
           page == PageRows(k.page)
           raw == k.raw \o page
           out == PageOutcome(k, page, raw)
<1>1. call \in [Callers -> Calls] /\ CallOK(k) /\ k \in Calls /\ k.at \in Underway /\ k.ask = "list"
  BY DEF ClientOK, AnswerPage, Underway
<1>2. Going(k, rows, order)
  BY DEF ListsOK, Listing
<1>3. \A i \in DOMAIN raw : raw[i] \in rows
  BY <1>1, <1>2, PageIsRead DEF PageRead
<1>4. \/ call' = [call EXCEPT ![c].at = "queued", ![c].page = @ + 1, ![c].tries = 0, ![c].raw = raw]
      \/ call' = [call EXCEPT ![c].at = "done", ![c].out = out, ![c].raw = raw, ![c].after = rows]
  BY DEF AnswerPage
<1> HIDE DEF page, raw, out
<1>5. PICK e \in {[k EXCEPT !.at = "queued", !.page = @ + 1, !.tries = 0, !.raw = raw],
                  [k EXCEPT !.at = "done", !.out = out, !.raw = raw, !.after = rows]} : call' = [call EXCEPT ![c] = e]
  BY <1>1, <1>4
<1> HIDE DEF k
<1>6. /\ e.at # "idle" /\ e.ask = k.ask /\ e.before = k.before /\ e.raw = raw
      /\ e.at = "done" => e.after = rows
  BY <1>1, <1>5 DEF Calls
<1>7. call'[c] = e /\ \A d \in Callers \ {c} : call'[d] = call[d]
  BY <1>1, <1>5
<1> QED  BY <1>1, <1>3, <1>6, <1>7 DEF Moves, Seen, k

LEMMA ClientMoves ==
    ASSUME Core, ListsOK, NEW c \in Callers, Reply(c) \/ WakeUp(c) \/ Cancel(c)
    PROVE  Moves(call[c], call'[c]) /\ (\A d \in Callers \ {c} : call'[d] = call[d]) /\ UNCHANGED rows
<1>0. ClientOK /\ RowsOK
  BY RowsStay DEF Core
<1>1. UNCHANGED rows
  BY DEF Reply, WakeUp, Cancel, Unavailable, Refuse, AnswerPage, AnswerOne, explorerVars
<1>2. CASE Unavailable(c)
  <2>1. \/ call' = [call EXCEPT ![c].at = "backoff", ![c].tries = @ + 1]
        \/ Ended(c, "unavailable")
    BY <1>2 DEF Unavailable, Retry
  <2>2. call[c].at \in Underway /\ "backoff" \in Underway
    BY <1>2 DEF Unavailable, Underway
  <2>3. CASE call' = [call EXCEPT ![c].at = "backoff", ![c].tries = @ + 1]
    <3>1. PICK tries : call' = [call EXCEPT ![c].at = "backoff", ![c].tries = tries]
      BY <2>3
    <3> QED  BY <1>0, <1>1, <2>2, <3>1, WaitingMoves
  <2> QED  BY <1>0, <1>1, <2>1, <2>2, <2>3, EndedMoves
<1>3. CASE Refuse(c)
  BY <1>0, <1>1, <1>3, EndedMoves DEF Refuse, Underway
<1>4. CASE AnswerPage(c)
  BY <1>0, <1>1, <1>4, PageMoves
<1>5. CASE AnswerOne(c)
  BY <1>0, <1>1, <1>5, EndedMoves DEF AnswerOne, Underway
<1>6. CASE WakeUp(c)
  BY <1>0, <1>1, <1>6, WaitingMoves DEF WakeUp, Underway
<1>7. CASE Cancel(c)
  BY <1>0, <1>1, <1>7, EndedMoves DEF Cancel, Underway
<1> QED  BY <1>2, <1>3, <1>4, <1>5, <1>6, <1>7 DEF Reply

LEMMA GrantMoves ==
    ASSUME Core, GrantNext
    PROVE  \E c \in Callers : Moves(call[c], call'[c]) /\ \A d \in Callers \ {c} : call'[d] = call[d]
<1>0. ClientOK
  BY DEF Core
<1> DEFINE c == Head(queue)
<1>1. c \in Callers /\ call[c].at \in Underway
  <2>1. queue # <<>> /\ queue \in Seq(Callers)
    BY <1>0 DEF GrantNext, Client, Grant, ClientOK
  <2>2. c = queue[1] /\ 1 \in DOMAIN queue /\ c \in Callers
    BY <2>1
  <2> QED  BY <1>0, <2>2 DEF ClientOK, QueueOK, Queued, Underway
<1>2. call' = [call EXCEPT ![c].at = "sent"] /\ "sent" \in Underway
  BY DEF GrantNext, Client, Grant, Underway
<1> HIDE DEF c
<1> QED  BY <1>0, <1>1, <1>2, WaitingMoves

\* A caller that serves is no synchronisation.
LEMMA ServesOther ==
    ASSUME Core, ListersOK, NEW c \in Callers, Serve(c)
    PROVE  role[c] # "list" /\ Alone(c) /\ job'[c].step \notin {"list", "write"}
<1>1. job \in [Callers -> Jobs] /\ call \in [Callers -> Calls] /\ job[c] \in Jobs
  BY CoreParts DEF ClientOK
<1>2. \A d \in Callers \ {c} : call'[d] = call[d]
  <2>1. UNCHANGED clientVars \/ Rested(c) \/ \E ask \in Asks : Ask(c, ask, 0)
    <3>1. CASE Lookup(c) \/ TakeTransaction(c) \/ TakeReceipt(c)
      BY <3>1 DEF Lookup, TakeTransaction, TakeReceipt, Asks
    <3>2. CASE TakeInternals(c) \/ LookupPool(c) \/ TakeRead(c)
      BY <3>2 DEF TakeInternals, LookupPool, TakeRead, Asks
    <3>3. CASE ParseLogs(c) \/ VerifyRelay(c) \/ Save(c)
      BY <3>3 DEF ParseLogs, VerifyRelay, Save
    <3>4. CASE Inspect(c) \/ TakeCode(c)
      BY <3>4 DEF Inspect, TakeCode, Asks
    <3> QED  BY <3>1, <3>2, <3>3, <3>4 DEF Serve
  <2> QED  BY <1>1, <2>1 DEF clientVars, Rested, Ask
<1>3. PICK j : job' = [job EXCEPT ![c] = j] /\ j.step \notin {"list", "write"}
  <2> DEFINE Is(j) == job' = [job EXCEPT ![c] = j] /\ j.step \notin {"list", "write"}
  <2>1. ASSUME NEW step \in Steps \ {"list", "write"}, Goes(c, step) PROVE \E j : Is(j)
    <3>1. Is([job[c] EXCEPT !.step = step])
      BY <1>1, <2>1 DEF Goes, Jobs
    <3> QED  BY <3>1
  <2>2. ASSUME NEW a, Answer(c, a) PROVE \E j : Is(j)
    <3>1. Is([job[c] EXCEPT !.step = "end", !.answer = a])
      BY <1>1, <2>2 DEF Answer, Jobs
    <3> QED  BY <3>1
  <2>3. ASSUME NEW v, Judged(c, v) PROVE \E j : Is(j)
    <3>1. Is([job[c] EXCEPT !.known = Append(@, v), !.step = "logs", !.reads = 0])
      BY <1>1, <2>3 DEF Judged, Jobs
    <3> QED  BY <3>1
  <2>4. CASE Lookup(c) \/ TakeTransaction(c) \/ TakeReceipt(c)
    BY <2>1, <2>2, <2>4 DEF Lookup, TakeTransaction, TakeReceipt, Failed, Steps
  <2>5. CASE TakeInternals(c)
    <3>1. CASE Failed(c)
      BY <2>2, <3>1 DEF Failed
    <3>2. CASE ~Failed(c)
      <4> DEFINE step == IF tx.ok THEN "logs" ELSE "save"
                 calls == IF Out(c) = "found" THEN tx.calls ELSE {}
                 out == Out(c)
      <4>1. job' = [job EXCEPT ![c].step = step, ![c].internals = out, ![c].calls = calls]
        BY <2>5, <3>2 DEF TakeInternals
      <4>2. step \in {"logs", "save"}
        OBVIOUS
      <4> HIDE DEF step, calls, out
      <4>3. Is([job[c] EXCEPT !.step = step, !.internals = out, !.calls = calls])
        BY <1>1, <4>1, <4>2 DEF Jobs
      <4> QED  BY <4>3
    <3> QED  BY <3>1, <3>2
  <2>6. CASE LookupPool(c)
    BY <2>1, <2>3, <2>6 DEF LookupPool, Steps
  <2>7. CASE TakeRead(c)
    <3>1. CASE job[c].step = "read" /\ job' = [job EXCEPT ![c].reads = @ + 1]
      <4>1. Is([job[c] EXCEPT !.reads = @ + 1])
        BY <1>1, <3>1 DEF Jobs
      <4> QED  BY <4>1
    <3> QED  BY <2>3, <2>7, <3>1 DEF TakeRead, ReadFails, Got
  <2>8. CASE ParseLogs(c)
    BY <2>1, <2>8 DEF ParseLogs, Steps
  <2>9. CASE VerifyRelay(c)
    <3>1. ASSUME NEW relay, job' = [job EXCEPT ![c].step = "save", ![c].relay = relay] PROVE \E j : Is(j)
      <4>1. Is([job[c] EXCEPT !.step = "save", !.relay = relay])
        BY <1>1, <3>1 DEF Jobs
      <4> QED  BY <4>1
    <3> QED  BY <2>1, <2>9, <3>1 DEF VerifyRelay, Steps
  <2>10. CASE Save(c) \/ Inspect(c) \/ TakeCode(c)
    BY <2>1, <2>2, <2>10 DEF Save, Inspect, TakeCode, Failed, Steps
  <2> QED  BY <2>4, <2>5, <2>6, <2>7, <2>8, <2>9, <2>10 DEF Serve
<1>4. job'[c].step \notin {"list", "write"} /\ \A d \in Callers \ {c} : job'[d] = job[d]
  BY <1>1, <1>3
<1>5. role[c] # "list"
  <2>1. role[c] = "list" => job[c].step \in {"start", "list", "write", "end"}
    BY DEF ListersOK
  <2> QED  BY <2>1 DEF Serve, Lookup, TakeTransaction, TakeReceipt, TakeInternals, LookupPool, TakeRead, ParseLogs,
              VerifyRelay, Save, Inspect, TakeCode, Got
<1> QED  BY <1>2, <1>4, <1>5 DEF Alone

\* What a step of a synchronisation does to its request.
ListStep(c) ==
    \/ /\ job[c].step = "start" /\ job'[c].step = "list" /\ call'[c].at = "queued" /\ call'[c].ask = "list"
       /\ call'[c].before = rows /\ call'[c].raw = <<>>
    \/ call'[c] = call[c] /\ job'[c].step \in {"end", job[c].step}
    \/ /\ call'[c] = call[c] /\ job[c].step = "list" /\ job'[c].step = "write" /\ call[c].at = "done"
       /\ Out(c) \in {"whole", "record_limit"}

LEMMA ListSteps ==
    ASSUME Core, ListersOK, NEW c \in Callers, ListAddress(c)
    PROVE  role[c] = "list" /\ Alone(c) /\ ListStep(c) /\ UNCHANGED <<rows, late, role>>
<1>1. job \in [Callers -> Jobs] /\ call \in [Callers -> Calls] /\ job[c] \in Jobs
  BY CoreParts DEF ClientOK
<1>2. UNCHANGED <<rows, late, role>>
  BY DEF ListAddress, BeginList, TakeList, Write, Claim, explorerVars, world
<1>3. role[c] = "list"
  BY DEF ListersOK, ListAddress, BeginList, TakeList, Write, Claim, Got, Stored
<1>4. CASE UNCHANGED clientVars /\ \/ UNCHANGED job \/ Goes(c, "end")
                                   \/ Got(c, "list") /\ Goes(c, "write") /\ Out(c) \in {"whole", "record_limit"}
  <2>1. \A d \in Callers : call'[d] = call[d]
    BY <1>4 DEF clientVars
  <2>2. CASE UNCHANGED job
    BY <1>2, <1>3, <2>1, <2>2 DEF Alone, ListStep
  <2>3. CASE Goes(c, "end")
    BY <1>1, <1>2, <1>3, <2>1, <2>3, GoesTo DEF Alone, ListStep
  <2>4. CASE Got(c, "list") /\ Goes(c, "write") /\ Out(c) \in {"whole", "record_limit"}
    BY <1>1, <1>2, <1>3, <2>1, <2>4, GoesTo DEF Alone, ListStep, Got
  <2> QED  BY <1>4, <2>2, <2>3, <2>4
<1>5. ASSUME NEW limit, job[c].step = "start", Goes(c, "list"), Ask(c, "list", limit)
      PROVE  Alone(c) /\ ListStep(c)
  <2>1. job'[c].step = "list" /\ \A d \in Callers \ {c} : job'[d] = job[d]
    BY <1>1, <1>5, GoesTo
  <2>2. call'[c] = [Idle EXCEPT !.at = "queued", !.ask = "list", !.limit = limit, !.page = 1, !.before = rows]
    BY <1>1, <1>5 DEF Ask
  <2>3. call'[c].at = "queued" /\ call'[c].ask = "list" /\ call'[c].before = rows /\ call'[c].raw = <<>>
    BY <2>2 DEF Idle
  <2>4. \A d \in Callers \ {c} : call'[d] = call[d]
    BY <1>1, <1>5 DEF Ask
  <2> QED  BY <1>5, <2>1, <2>3, <2>4 DEF Alone, ListStep
<1>6. CASE BeginList(c)
  BY <1>2, <1>3, <1>4, <1>5, <1>6 DEF BeginList, Fail
<1>7. CASE TakeList(c)
  BY <1>4, <1>7 DEF TakeList, Fail
<1>8. CASE Write(c)
  BY <1>4, <1>8 DEF Write, Fail
<1>9. CASE Claim(c)
  BY <1>4, <1>9 DEF Claim, Fail
<1> QED  BY <1>6, <1>7, <1>8, <1>9 DEF ListAddress

\* Who has asked has asked for good, and for the rows there were then.
Asked == \A c \in Callers : role[c] = "list" /\ call[c] # Idle => call'[c] # Idle /\ call'[c].before = call[c].before

LEMMA ListersNext ==
    Core /\ ListsOK /\ ListersOK /\ [Next]_vars => ListersOK' /\ Asked /\ UNCHANGED role /\ rows \subseteq rows'
<1> SUFFICES ASSUME Core, ListsOK, ListersOK, [Next]_vars
             PROVE  ListersOK' /\ Asked /\ UNCHANGED role /\ rows \subseteq rows'
  OBVIOUS
<1> DEFINE Fine(c) == /\ Lister(role[c], job'[c].step, call'[c], rows')
                      /\ role[c] = "list" /\ call[c] # Idle => call'[c] # Idle /\ call'[c].before = call[c].before
<1>0. SUFFICES UNCHANGED role /\ rows \subseteq rows' /\ \A c \in Callers : Fine(c)
  <2>1. ListersOK' <=> \A c \in Callers : Lister(role'[c], job'[c].step, call'[c], rows')
    BY DEF ListersOK, Lister, Lists, Out
  <2> QED  BY <1>0, <2>1 DEF Asked
<1>1. \A c \in Callers : Lister(role[c], job[c].step, call[c], rows)
  BY ListersAre
<1>2. ASSUME NEW c \in Callers, call'[c] = call[c], job'[c] = job[c], rows \subseteq rows' PROVE Fine(c)
  BY <1>1, <1>2 DEF Lister
<1>3. ASSUME NEW c \in Callers, Moves(call[c], call'[c]), job'[c] = job[c], UNCHANGED rows PROVE Fine(c)
  <2>1. call[c].at # "idle" /\ call[c].at # "done" /\ call'[c] # Idle /\ call[c] # Idle
    BY <1>3 DEF Moves, Underway, Idle
  <2> QED  BY <1>1, <1>3, <2>1 DEF Lister, Moves
<1>4. CASE UNCHANGED <<call, job, role>> /\ rows \subseteq rows'
  BY <1>2, <1>4
<1>5. CASE UNCHANGED vars \/ Client(IndexTransaction) \/ RelayFills
  BY <1>4, <1>5 DEF vars, analysisVars, Client, IndexTransaction, RelayFills, explorerVars, clientVars, world
<1>6. CASE Client(IndexRow)
  BY <1>4, <1>6 DEF Client, IndexRow, clientVars, world
<1>7. CASE GrantNext
  <2>1. PICK c \in Callers : Moves(call[c], call'[c]) /\ \A d \in Callers \ {c} : call'[d] = call[d]
    BY <1>7, GrantMoves
  <2>2. UNCHANGED <<job, role, rows>>
    BY <1>7 DEF GrantNext, Client, Grant, explorerVars, world
  <2> QED  BY <1>2, <1>3, <2>1, <2>2
<1>8. ASSUME NEW c \in Callers, Waits(c) \/ Gives(c)
      PROVE  UNCHANGED role /\ rows \subseteq rows' /\ \A d \in Callers : Fine(d)
  <2>1. (Reply(c) \/ WakeUp(c) \/ Cancel(c)) /\ UNCHANGED <<job, role>>
    BY <1>8 DEF Waits, Gives, Client, world
  <2>2. Moves(call[c], call'[c]) /\ (\A d \in Callers \ {c} : call'[d] = call[d]) /\ UNCHANGED rows
    BY <2>1, ClientMoves
  <2> QED  BY <1>2, <1>3, <2>1, <2>2
<1>9. ASSUME NEW c \in Callers, Works(c)
      PROVE  UNCHANGED role /\ rows \subseteq rows' /\ \A d \in Callers : Fine(d)
  <2>1. CASE Serve(c)
    <3>1. role[c] # "list" /\ Alone(c) /\ job'[c].step \notin {"list", "write"}
      BY <2>1, ServesOther
    <3>2. UNCHANGED <<rows, role>>
      BY <2>1 DEF Serve, Lookup, TakeTransaction, TakeReceipt, TakeInternals, LookupPool, TakeRead, ParseLogs,
                  VerifyRelay, Save, Inspect, TakeCode, explorerVars, world
    <3>3. Fine(c)
      BY <3>1 DEF Lister
    <3> QED  BY <1>2, <3>1, <3>2, <3>3 DEF Alone
  <2>2. CASE ListAddress(c)
    <3>1. role[c] = "list" /\ Alone(c) /\ ListStep(c) /\ UNCHANGED <<rows, late, role>>
      BY <2>2, ListSteps
    <3>2. Fine(c)
      <4>1. CASE call'[c] = call[c]
        BY <1>1, <3>1, <4>1 DEF Lister, ListStep, Out, Idle
      <4>2. CASE /\ job[c].step = "start" /\ job'[c].step = "list" /\ call'[c].at = "queued" /\ call'[c].ask = "list"
                 /\ call'[c].before = rows /\ call'[c].raw = <<>>
        <5>1. call[c] = Idle /\ call'[c] # Idle
          BY <1>1, <3>1, <4>2 DEF Lister, Idle
        <5>2. Seen(call'[c]) = {}
          BY <4>2 DEF Seen
        <5> QED  BY <3>1, <4>2, <5>1, <5>2 DEF Lister
      <4> QED  BY <3>1, <4>1, <4>2 DEF ListStep
    <3> QED  BY <1>2, <3>1, <3>2 DEF Alone
  <2>3. CASE ReadAddress(c) /\ UNCHANGED <<analysisVars, left>>
    BY <1>4, <2>3 DEF analysisVars, explorerVars, clientVars, world
  <2> QED  BY <1>9, <2>1, <2>2, <2>3 DEF Works
<1> QED  BY <1>5, <1>6, <1>7, <1>8, <1>9 DEF Next
-----------------------------------------------------------------------------
(* What a step does to what is stored and to the rows *)

Sound == Core /\ StoreOK /\ ListsOK /\ ListersOK /\ StoredOK

\* A step that is no synchronisation's and no reader's.
Quiet ==
    /\ UNCHANGED <<readVars, left>>
    /\ \A c \in Callers : job'[c].step = "write" => job[c].step = "write" /\ call'[c] = call[c]
    /\ UNCHANGED <<rows, late>> \/ \E r \in late : rows' = rows \cup {r} /\ late' = late \ {r}

LEMMA Kinds ==
    ASSUME Core, ListsOK, ListersOK, [Next]_vars
    PROVE  Quiet \/ \E c \in Callers : ListAddress(c) \/ (ReadAddress(c) /\ UNCHANGED <<analysisVars, left>>)
<1>1. ASSUME UNCHANGED <<readVars, left, call, job>> PROVE
        UNCHANGED <<rows, late>> \/ (\E r \in late : rows' = rows \cup {r} /\ late' = late \ {r}) => Quiet
  BY <1>1 DEF Quiet
<1>2. CASE UNCHANGED vars
  BY <1>1, <1>2 DEF vars, analysisVars, explorerVars, clientVars
<1>3. CASE Client(IndexTransaction) \/ (RelayFills /\ UNCHANGED <<readVars, left>>)
  BY <1>1, <1>3 DEF Client, IndexTransaction, RelayFills, explorerVars, clientVars
<1>4. CASE Client(IndexRow)
  BY <1>1, <1>4 DEF Client, IndexRow, clientVars
<1>5. ASSUME NEW c \in Callers, Moves(call[c], call'[c]), \A d \in Callers \ {c} : call'[d] = call[d],
             UNCHANGED <<readVars, left, job, rows, late>>
      PROVE  Quiet
  <2>1. job[c].step # "write"
    BY <1>5 DEF ListersOK, Lists, Moves, Underway
  <2> QED  BY <1>5, <2>1 DEF Quiet
<1>6. CASE GrantNext
  <2>1. UNCHANGED <<readVars, left, job, rows, late>>
    BY <1>6 DEF GrantNext, Client, Grant, explorerVars
  <2> QED  BY <1>5, <1>6, <2>1, GrantMoves
<1>7. ASSUME NEW c \in Callers, Waits(c) \/ Gives(c) PROVE Quiet
  <2>1. (Reply(c) \/ WakeUp(c) \/ Cancel(c)) /\ UNCHANGED <<readVars, left, job>>
    BY <1>7 DEF Waits, Gives, Client
  <2>2. UNCHANGED <<rows, late>>
    BY <2>1 DEF Reply, WakeUp, Cancel, Unavailable, Refuse, AnswerPage, AnswerOne, explorerVars
  <2> QED  BY <1>5, <2>1, <2>2, ClientMoves
<1>8. ASSUME NEW c \in Callers, Serve(c), UNCHANGED <<readVars, left>> PROVE Quiet
  <2>1. UNCHANGED <<rows, late>>
    BY <1>8 DEF Serve, Lookup, TakeTransaction, TakeReceipt, TakeInternals, LookupPool, TakeRead, ParseLogs,
                VerifyRelay, Save, Inspect, TakeCode, explorerVars
  <2>2. Alone(c) /\ job'[c].step \notin {"list", "write"}
    BY <1>8, ServesOther
  <2> QED  BY <1>8, <2>1, <2>2 DEF Quiet, Alone
<1>9. ASSUME NEW c \in Callers, Works(c)
      PROVE  Quiet \/ ListAddress(c) \/ (ReadAddress(c) /\ UNCHANGED <<analysisVars, left>>)
  <2>1. CASE Serve(c) /\ UNCHANGED <<readVars, left>>
    BY <1>8, <2>1
  <2> QED  BY <1>9, <2>1 DEF Works
<1>10. CASE \E c \in Callers : Waits(c) \/ Gives(c) \/ Works(c)
  BY <1>7, <1>9, <1>10
<1> QED  BY <1>2, <1>3, <1>4, <1>6, <1>10 DEF Next

\* The steps of a synchronisation that store nothing and claim nothing.
Idles(c) ==
    /\ UNCHANGED docs /\ left'[c] \in {left[c], {}} /\ addr'.lo = addr.lo /\ addr'.hi = addr.hi
    /\ job'[c].step # "write"

Takes(c) ==
    /\ UNCHANGED <<docs, addr>> /\ left'[c] = Documents(call[c]) /\ call'[c] = call[c]
    /\ call[c].at = "done" /\ call[c].ask = "list"

Adds(c) ==
    /\ \E d \in left[c] : docs' = docs \cup {d} /\ left'[c] = left[c] \ {d}
    /\ UNCHANGED addr /\ call'[c] = call[c] /\ job'[c] = job[c]

Covers(c) ==
    /\ UNCHANGED docs /\ left[c] = {} /\ left'[c] = {} /\ addr'.lo = 0 /\ addr'.hi = SafeHead
    /\ call'[c] = call[c] /\ job[c].step = "write" /\ Out(c) = "whole" /\ job'[c].step # "write"

LEMMA UpsertAdds ==
    ASSUME Sound, NEW c \in Callers, NEW d \in left[c], Upsert(d) PROVE docs' = docs \cup {d}
<1>1. Unique(Shapes(rows \cup late))
  BY ShapesUnique DEF Sound, Core, Explored, StoredOK
<1>2. docs \subseteq Shapes(rows \cup late) /\ d \in Shapes(rows \cup late)
  BY DEF Sound, StoredOK
<1>3. \A e \in docs : e.key = d.key /\ e.log = d.log => e = d
  BY <1>1, <1>2 DEF Unique
<1> QED  BY <1>3 DEF Upsert

LEMMA ListKinds ==
    ASSUME Sound, NEW c \in Callers, ListAddress(c)
    PROVE  /\ UNCHANGED <<read, profiles, rows, late>> /\ Alone(c) /\ \A d \in Callers \ {c} : left'[d] = left[d]
           /\ Idles(c) \/ Takes(c) \/ Adds(c) \/ Covers(c)
<1>1. /\ job \in [Callers -> Jobs] /\ left \in [Callers -> SUBSET Document] /\ addr \in Address
      /\ call \in [Callers -> Calls]
  BY CoreParts DEF Sound, StoreOK, LeftOK, StoreTypeOK, ClientOK
<1>2. UNCHANGED <<read, profiles, rows, late>> /\ Alone(c)
  <2>1. UNCHANGED <<read, profiles>>
    BY DEF ListAddress, BeginList, TakeList, Write, Claim
  <2> QED  BY <2>1, ListSteps DEF Sound
<1>3. CASE Fail(c)
  <2>1. job'[c].step = "end"
    BY <1>1, <1>3, GoesTo DEF Fail
  <2>2. addr'.lo = addr.lo /\ addr'.hi = addr.hi
    BY <1>1, <1>3 DEF Fail, Address
  <2> QED  BY <1>1, <1>2, <1>3, <2>1, <2>2 DEF Fail, Idles
<1>4. CASE BeginList(c) /\ ~Fail(c)
  <2>1. Goes(c, "list") /\ addr' = [addr EXCEPT !.status = "running"] /\ UNCHANGED <<docs, left>>
    BY <1>4 DEF BeginList
  <2>2. job'[c].step = "list" /\ addr'.lo = addr.lo /\ addr'.hi = addr.hi
    BY <1>1, <2>1, GoesTo DEF Address
  <2> QED  BY <1>2, <2>1, <2>2 DEF Idles
<1>5. CASE TakeList(c) /\ ~Fail(c)
  <2>1. /\ left' = [left EXCEPT ![c] = Documents(call[c])] /\ UNCHANGED <<docs, addr, call>>
        /\ job[c].step = "list" /\ call[c].at = "done"
    BY <1>5 DEF TakeList, Got, clientVars
  <2>2. role[c] = "list" /\ call[c] # Idle
    BY <2>1 DEF ListersOK, Sound, Idle
  <2>3. call[c].ask = "list"
    BY <2>2 DEF ListersOK, Sound
  <2> QED  BY <1>1, <1>2, <2>1, <2>3 DEF Takes
<1>6. CASE Write(c) /\ ~Fail(c)
  <2>1. PICK d \in left[c] : Upsert(d) /\ left' = [left EXCEPT ![c] = @ \ {d}] /\ UNCHANGED <<addr, job>>
    BY <1>6 DEF Write
  <2>2. docs' = docs \cup {d}
    BY <2>1, UpsertAdds
  <2>3. UNCHANGED call
    BY <1>6 DEF Write, clientVars
  <2> QED  BY <1>1, <1>2, <2>1, <2>2, <2>3 DEF Adds
<1>7. CASE Claim(c) /\ ~Fail(c)
  <2>1. /\ addr' = IF Out(c) = "whole" THEN [status |-> "synced", ever |-> TRUE, lo |-> 0, hi |-> SafeHead]
                   ELSE [addr EXCEPT !.status = "partial", !.ever = TRUE]
        /\ Goes(c, "end") /\ UNCHANGED <<docs, left, call>> /\ job[c].step = "write" /\ left[c] = {}
    BY <1>7 DEF Claim, Stored, clientVars
  <2>2. job'[c].step = "end"
    BY <1>1, <2>1, GoesTo
  <2>3. CASE Out(c) = "whole"
    BY <1>2, <2>1, <2>2, <2>3 DEF Covers
  <2>4. CASE Out(c) # "whole"
    <3>1. addr' = [addr EXCEPT !.status = "partial", !.ever = TRUE]
      BY <2>1, <2>4
    <3>2. addr'.lo = addr.lo /\ addr'.hi = addr.hi
      BY <1>1, <3>1 DEF Address
    <3> QED  BY <1>2, <2>1, <2>2, <3>2 DEF Idles
  <2> QED  BY <2>3, <2>4
<1> QED  BY <1>3, <1>4, <1>5, <1>6, <1>7 DEF ListAddress

LEMMA StoredNext == Sound /\ [Next]_vars => StoredOK' /\ docs \subseteq docs' /\ rows' \cup late' = rows \cup late
<1> SUFFICES ASSUME Sound, [Next]_vars PROVE StoredOK' /\ docs \subseteq docs' /\ rows' \cup late' = rows \cup late
  OBVIOUS
<1> DEFINE S == Shapes(rows \cup late)
<1>1. KeysTell(rows \cup late) /\ docs \subseteq S /\ \A c \in Callers : left[c] \subseteq S
  BY DEF Sound, StoredOK
<1>2. SUFFICES /\ rows' \cup late' = rows \cup late /\ docs \subseteq docs' /\ docs' \subseteq S
               /\ \A c \in Callers : left'[c] \subseteq S
  BY <1>1 DEF StoredOK
<1>3. CASE Quiet
  BY <1>1, <1>3 DEF Quiet, readVars
<1>4. ASSUME NEW c \in Callers, ListAddress(c)
      PROVE  /\ rows' \cup late' = rows \cup late /\ docs \subseteq docs' /\ docs' \subseteq S
             /\ \A d \in Callers : left'[d] \subseteq S
  <2>1. /\ UNCHANGED <<rows, late>> /\ \A d \in Callers \ {c} : left'[d] = left[d]
        /\ Idles(c) \/ Takes(c) \/ Adds(c) \/ Covers(c)
    BY <1>4, ListKinds
  <2>2. Documents(call[c]) \subseteq S
    <3>1. call[c].raw \in Seq(Row)
      BY CoreParts DEF CallOK, Calls, Sound
    <3>2. role[c] = "list"
      BY <1>4, ListSteps DEF Sound
    <3>3. Seen(call[c]) \subseteq rows
      BY <3>2 DEF Sound, ListersOK
    <3> QED  BY <3>1, <3>3, ListedShapes
  <2> HIDE DEF S
  <2> QED  BY <1>1, <2>1, <2>2 DEF Idles, Takes, Adds, Covers
<1>5. ASSUME NEW c \in Callers, ReadAddress(c), UNCHANGED <<analysisVars, left>>
      PROVE  UNCHANGED <<rows, late, docs, left>>
  BY <1>5 DEF analysisVars, explorerVars, ReadAddress, OpenPage, OpenProfile, Open, QueryPage, FindProfile, Lifetime,
              WindowCount, SaveProfile
<1> QED  BY <1>1, <1>3, <1>4, <1>5, Kinds DEF Sound
-----------------------------------------------------------------------------
(* The steps of a reader *)

\* Nothing is read: only the step is another.
Turned(r, s, step) ==
    /\ s.step = step /\ s.lo = r.lo /\ s.hi = r.hi /\ s.before = r.before /\ s.after = r.after /\ s.pages = r.pages
    /\ s.total = r.total /\ s.latest = r.latest /\ s.recent = r.recent /\ s.profile = r.profile

\* The coverage is read, and by who begins what there is.
Opened(r, s) ==
    /\ r.step \in {"start", "next"} /\ s.step \in {"query", "find"} /\ s.after = r.after /\ s.pages = r.pages
    /\ s.lo = addr.lo /\ s.hi = addr.hi /\ addr.hi # 0
    /\ s.before = IF r.step = "start" THEN docs ELSE r.before
    /\ s.profile = r.profile

Rest(r) == {d \in docs : Positive(d) /\ Beyond(d, r.after)}

Queried(r, s) ==
    LET found == First(Rest(r), PageLimit + 1)
        page  == First(found, PageLimit)
        more  == Cardinality(found) > PageLimit
    IN /\ r.step = "query" /\ s.step = IF more THEN "next" ELSE "end"
       /\ s.after = IF more THEN LastIn(page) ELSE r.after
       /\ s.pages = Append(r.pages, [items |-> page, beyond |-> r.after, more |-> more, lo |-> r.lo, hi |-> r.hi])
       /\ s.lo = r.lo /\ s.hi = r.hi /\ s.before = r.before /\ s.profile = r.profile

Counting(r, s) ==
    /\ r.step \in {"find", "lifetime", "window", "save"} /\ s.step \in {"window", "save", "end"}
    /\ s.lo = r.lo /\ s.hi = r.hi /\ s.before = r.before /\ s.after = r.after /\ s.pages = r.pages

\* A profile is found, nothing is counted, the lifetime is, the window is, the profile is saved.
Found(r, s)   == Counting(r, s) /\ s.step = "end" /\ \E p \in profiles : p.hi = r.hi /\ s.profile = {p}
Nothing(r, s) == Counting(r, s) /\ s.step = "save" /\ s.profile = r.profile /\ {d \in docs : Positive(d)} = {}
Lived(r, s)   == /\ Counting(r, s) /\ s.step = "window" /\ s.profile = r.profile
                 /\ s.total = Cardinality({d \in docs : Positive(d)})
Windowed(r, s) ==
    /\ Counting(r, s) /\ r.step = "window" /\ s.step = "save" /\ s.profile = r.profile
    /\ s.total = r.total /\ s.latest = r.latest
    /\ s.recent = Cardinality({d \in docs : Positive(d) /\ d.block \in r.latest - Recent .. r.latest})
ProfileOf(r) == [hi |-> r.hi, lo |-> r.lo, total |-> r.total, latest |-> r.latest, recent |-> r.recent]
Saved(r, s) == Counting(r, s) /\ r.step = "save" /\ s.step = "end" /\ s.profile = {ProfileOf(r)}

LEMMA StopsReader ==
    ASSUME StoreOK, NEW c \in Callers, NEW step, read' = [read EXCEPT ![c].step = step]
    PROVE  Turned(read[c], read'[c], step) /\ \A d \in Callers \ {c} : read'[d] = read[d]
<1>1. read \in [Callers -> Reader] /\ read[c] \in Reader
  BY DEF StoreOK, ReadOK
<1>2. read'[c] = [read[c] EXCEPT !.step = step] /\ \A d \in Callers \ {c} : read'[d] = read[d]
  BY <1>1
<1> QED  BY <1>1, <1>2 DEF Turned, Reader

LEMMA OpensReader ==
    ASSUME StoreOK, NEW c \in Callers, NEW step \in {"query", "find"}, Open(c, step), read[c].step \in {"start", "next"}
    PROVE  /\ Turned(read[c], read'[c], "end") \/ Opened(read[c], read'[c])
           /\ \A d \in Callers \ {c} : read'[d] = read[d]
<1>1. read \in [Callers -> Reader] /\ read[c] \in Reader
  BY DEF StoreOK, ReadOK
<1>2. CASE Stops(c)
  BY <1>2, StopsReader DEF Stops
<1>3. CASE ~Stops(c)
  <2> DEFINE b == IF read[c].step = "start" THEN docs ELSE read[c].before
             s == [read[c] EXCEPT !.step = step, !.lo = addr.lo, !.hi = addr.hi, !.before = b]
  <2>1. /\ read' = [read EXCEPT ![c].step = step, ![c].lo = addr.lo, ![c].hi = addr.hi,
                                ![c].before = IF read[c].step = "start" THEN docs ELSE @]
        /\ addr.hi # 0
    BY <1>3 DEF Open, Served
  <2>2. read' = [read EXCEPT ![c] = s]
    BY <1>1, <2>1
  <2> HIDE DEF b
  <2>3. /\ s.step = step /\ s.lo = addr.lo /\ s.hi = addr.hi /\ s.before = b /\ s.after = read[c].after
        /\ s.pages = read[c].pages /\ s.profile = read[c].profile
    BY <1>1 DEF Reader
  <2> HIDE DEF s
  <2>4. read'[c] = s /\ \A d \in Callers \ {c} : read'[d] = read[d]
    BY <1>1, <2>2
  <2>5. Opened(read[c], s)
    BY <2>1, <2>3 DEF Opened, b
  <2> QED  BY <2>4, <2>5
<1> QED  BY <1>2, <1>3

LEMMA QueriesReader ==
    ASSUME StoreOK, NEW c \in Callers, QueryPage(c)
    PROVE  Queried(read[c], read'[c]) /\ \A d \in Callers \ {c} : read'[d] = read[d]
<1> DEFINE found == First(Rest(read[c]), PageLimit + 1)
           items == First(found, PageLimit)
           more  == Cardinality(found) > PageLimit
           step  == IF more THEN "next" ELSE "end"
           after == IF more THEN LastIn(items) ELSE read[c].after
           page  == [items |-> items, beyond |-> read[c].after, more |-> more, lo |-> read[c].lo, hi |-> read[c].hi]
           pages == Append(read[c].pages, page)
           s     == [read[c] EXCEPT !.step = step, !.after = after, !.pages = pages]
<1>1. read \in [Callers -> Reader] /\ read[c] \in Reader
  BY DEF StoreOK, ReadOK
<1>2. read' = [read EXCEPT ![c] = s] /\ read[c].step = "query"
  BY <1>1 DEF QueryPage, Rest
<1> HIDE DEF step, after, pages
<1>3. /\ s.step = step /\ s.after = after /\ s.pages = pages /\ s.lo = read[c].lo /\ s.hi = read[c].hi
      /\ s.before = read[c].before /\ s.profile = read[c].profile
  BY <1>1 DEF Reader
<1> HIDE DEF s
<1>4. read'[c] = s /\ \A d \in Callers \ {c} : read'[d] = read[d]
  BY <1>1, <1>2
<1>5. Queried(read[c], s)
  BY <1>2, <1>3 DEF Queried, step, after, pages
<1> QED  BY <1>4, <1>5

LEMMA CountsReader ==
    ASSUME StoreOK, NEW c \in Callers, FindProfile(c) \/ Lifetime(c) \/ WindowCount(c) \/ SaveProfile(c)
    PROVE  /\ \A d \in Callers \ {c} : read'[d] = read[d]
           /\ \/ UNCHANGED profiles /\ (Turned(read[c], read'[c], "end") \/ (read[c].step = "find" /\ Turned(read[c], read'[c], "lifetime")))
              \/ UNCHANGED profiles /\ (Found(read[c], read'[c]) \/ Nothing(read[c], read'[c]))
              \/ UNCHANGED profiles /\ (Lived(read[c], read'[c]) \/ Windowed(read[c], read'[c]))
              \/ profiles' \subseteq profiles \cup {ProfileOf(read[c])} /\ Saved(read[c], read'[c])
<1>1. read \in [Callers -> Reader] /\ read[c] \in Reader
  BY DEF StoreOK, ReadOK
<1>2. CASE FindProfile(c)
  <2>1. read[c].step = "find" /\ UNCHANGED profiles
    BY <1>2 DEF FindProfile
  <2>2. CASE Stops(c)
    BY <2>1, <2>2, StopsReader DEF Stops
  <2>3. CASE read' = [read EXCEPT ![c].step = "lifetime"]
    BY <2>1, <2>3, StopsReader
  <2>4. ASSUME NEW p \in Snapshot(read[c].hi), read' = [read EXCEPT ![c].step = "end", ![c].profile = {p}]
        PROVE  Found(read[c], read'[c]) /\ \A d \in Callers \ {c} : read'[d] = read[d]
    <3> DEFINE s == [read[c] EXCEPT !.step = "end", !.profile = {p}]
    <3>1. read'[c] = s /\ \A d \in Callers \ {c} : read'[d] = read[d]
      BY <1>1, <2>4
    <3>2. p \in profiles /\ p.hi = read[c].hi
      BY DEF Snapshot
    <3>3. /\ s.step = "end" /\ s.profile = {p} /\ s.lo = read[c].lo /\ s.hi = read[c].hi /\ s.before = read[c].before
          /\ s.after = read[c].after /\ s.pages = read[c].pages
      BY <1>1 DEF Reader
    <3> HIDE DEF s
    <3> QED  BY <2>1, <3>1, <3>2, <3>3 DEF Found, Counting
  <2> QED  BY <1>2, <2>1, <2>2, <2>3, <2>4 DEF FindProfile
<1>3. CASE Lifetime(c)
  <2> DEFINE all == {d \in docs : Positive(d)}
             total == Cardinality(all)
             latest == (CHOOSE d \in all : \A e \in all : e.block <= d.block).block
  <2>1. read[c].step = "lifetime" /\ UNCHANGED profiles
    BY <1>3 DEF Lifetime
  <2>2. CASE Stops(c)
    BY <2>1, <2>2, StopsReader DEF Stops
  <2>3. CASE all = {} /\ read' = [read EXCEPT ![c].step = "save"]
    <3>1. Turned(read[c], read'[c], "save") /\ \A d \in Callers \ {c} : read'[d] = read[d]
      BY <2>3, StopsReader
    <3>2. Nothing(read[c], read'[c])
      BY <2>1, <2>3, <3>1 DEF Nothing, Counting, Turned
    <3> QED  BY <2>1, <3>1, <3>2
  <2>4. CASE read' = [read EXCEPT ![c].step = "window", ![c].total = total, ![c].latest = latest]
    <3> HIDE DEF total, latest
    <3> DEFINE s == [read[c] EXCEPT !.step = "window", !.total = total, !.latest = latest]
    <3>1. read'[c] = s /\ \A d \in Callers \ {c} : read'[d] = read[d]
      BY <1>1, <2>4
    <3>2. /\ s.step = "window" /\ s.profile = read[c].profile /\ s.lo = read[c].lo /\ s.hi = read[c].hi
          /\ s.before = read[c].before /\ s.after = read[c].after /\ s.pages = read[c].pages /\ s.total = total
      BY <1>1 DEF Reader
    <3> HIDE DEF s
    <3>3. Lived(read[c], s)
      BY <2>1, <3>2 DEF Lived, Counting, total
    <3> QED  BY <2>1, <3>1, <3>3
  <2>5. Stops(c) \/ (all = {} /\ read' = [read EXCEPT ![c].step = "save"]) \/
          read' = [read EXCEPT ![c].step = "window", ![c].total = total, ![c].latest = latest]
    BY <1>3, Zenon DEF Lifetime
  <2> QED  BY <2>2, <2>3, <2>4, <2>5
<1>4. CASE WindowCount(c)
  <2> DEFINE recent == Cardinality({d \in docs : Positive(d) /\ d.block \in read[c].latest - Recent .. read[c].latest})
             s == [read[c] EXCEPT !.step = "save", !.recent = recent]
  <2>1. read[c].step = "window" /\ UNCHANGED profiles
    BY <1>4 DEF WindowCount
  <2>2. CASE Stops(c)
    BY <2>1, <2>2, StopsReader DEF Stops
  <2>3. CASE read' = [read EXCEPT ![c].step = "save", ![c].recent = recent]
    <3> HIDE DEF recent
    <3>1. read'[c] = s /\ \A d \in Callers \ {c} : read'[d] = read[d]
      BY <1>1, <2>3
    <3>2. /\ s.step = "save" /\ s.profile = read[c].profile /\ s.lo = read[c].lo /\ s.hi = read[c].hi
          /\ s.before = read[c].before /\ s.after = read[c].after /\ s.pages = read[c].pages
          /\ s.total = read[c].total /\ s.latest = read[c].latest /\ s.recent = recent
      BY <1>1 DEF Reader
    <3> HIDE DEF s
    <3>3. Windowed(read[c], s)
      BY <2>1, <3>2 DEF Windowed, Counting, recent
    <3> QED  BY <2>1, <3>1, <3>3
  <2> QED  BY <1>4, <2>2, <2>3 DEF WindowCount
<1>5. CASE SaveProfile(c)
  <2> DEFINE p == ProfileOf(read[c])
             s == [read[c] EXCEPT !.step = "end", !.profile = {p}]
  <2>1. read[c].step = "save"
    BY <1>5 DEF SaveProfile
  <2>2. CASE Stops(c) /\ UNCHANGED profiles
    BY <2>1, <2>2, StopsReader DEF Stops
  <2>3. CASE ~(Stops(c) /\ UNCHANGED profiles)
    <3>1. /\ profiles' = {q \in profiles : q.hi # p.hi} \cup {p}
          /\ read' = [read EXCEPT ![c].step = "end", ![c].profile = {p}]
      BY <1>5, <2>3 DEF SaveProfile, ProfileOf
    <3> HIDE DEF p
    <3>2. read'[c] = s /\ \A d \in Callers \ {c} : read'[d] = read[d]
      BY <1>1, <3>1
    <3>3. /\ s.step = "end" /\ s.profile = {p} /\ s.lo = read[c].lo /\ s.hi = read[c].hi
          /\ s.before = read[c].before /\ s.after = read[c].after /\ s.pages = read[c].pages
      BY <1>1 DEF Reader
    <3> HIDE DEF s
    <3>4. Saved(read[c], s)
      BY <2>1, <3>3 DEF Saved, Counting, p
    <3>5. profiles' \subseteq profiles \cup {p}
      BY <3>1
    <3> QED  BY <3>2, <3>4, <3>5 DEF p
  <2> QED  BY <2>2, <2>3
<1> QED  BY <1>2, <1>3, <1>4, <1>5

\* All of them.
Step(r, s) ==
    \/ Turned(r, s, "end") \/ (r.step = "find" /\ Turned(r, s, "lifetime"))
    \/ Opened(r, s) \/ Queried(r, s) \/ Found(r, s) \/ Nothing(r, s) \/ Lived(r, s) \/ Windowed(r, s) \/ Saved(r, s)

LEMMA ReadSteps ==
    ASSUME StoreOK, NEW c \in Callers, ReadAddress(c)
    PROVE  /\ UNCHANGED <<docs, addr>> /\ \A d \in Callers \ {c} : read'[d] = read[d]
           /\ Step(read[c], read'[c])
           /\ profiles' \subseteq profiles \/ (profiles' \subseteq profiles \cup {ProfileOf(read[c])} /\ read[c].step = "save")
<1>1. UNCHANGED <<docs, addr>>
  BY DEF ReadAddress, OpenPage, OpenProfile, Open, QueryPage, FindProfile, Lifetime, WindowCount, SaveProfile
<1>2. CASE OpenPage(c) \/ OpenProfile(c)
  <2>1. UNCHANGED profiles /\ read[c].step \in {"start", "next"} /\ \E step \in {"query", "find"} : Open(c, step)
    BY <1>2 DEF OpenPage, OpenProfile, Open
  <2> QED  BY <1>1, <2>1, OpensReader DEF Step
<1>3. CASE QueryPage(c)
  <2>1. UNCHANGED profiles
    BY <1>3 DEF QueryPage
  <2> QED  BY <1>1, <1>3, <2>1, QueriesReader DEF Step
<1>4. CASE FindProfile(c) \/ Lifetime(c) \/ WindowCount(c) \/ SaveProfile(c)
  BY <1>1, <1>4, CountsReader DEF Step, Saved
<1> QED  BY <1>2, <1>3, <1>4 DEF ReadAddress
-----------------------------------------------------------------------------
(* One reader *)

Cursor(r, D) ==
    /\ r.before \subseteq D
    /\ r.step = "start" => r.pages = <<>>
    /\ r.step # "end" => r.profile = {}
    /\ \A p \in r.profile : p.hi = r.hi
    /\ r.step \in {"query", "next"} =>
          \A i \in DOMAIN r.pages : \A d \in r.pages[i].items : \E e \in r.after : d = e \/ AheadOf(d, e)

Past(page, d) ==
    /\ Positive(d) /\ Beyond(d, page.beyond)
    /\ page.more => \E e \in page.items : e = d \/ AheadOf(d, e)

Once(r) ==
    /\ \A i, j \in DOMAIN r.pages : i < j => \A d \in r.pages[i].items, e \in r.pages[j].items : AheadOf(d, e)
    /\ \A i \in DOMAIN r.pages : \A d \in r.before : Past(r.pages[i], d) => \E j \in DOMAIN r.pages : d \in r.pages[j].items

Full(r, R) ==
    \A i \in DOMAIN r.pages : \A d \in Owed(R, r.pages[i].lo, r.pages[i].hi) :
        Past(r.pages[i], d) => d \in r.pages[i].items

Tallied(r, R) ==
    /\ \A p \in r.profile : Counts(p, R)
    /\ r.step = "window" => r.total >= Cardinality(Owed(R, r.lo, r.hi))
    /\ r.step = "save" => Counts(r, R)

\* What else answers for blocks, and everything together.
BaseOf(a, P) == (IF a.hi = 0 THEN {} ELSE a.lo .. a.hi) \cup (UNION {p.lo .. p.hi : p \in P})
AnswerOf(a, P, f) == BaseOf(a, P) \cup (UNION {Span(f[c]) : c \in Callers})
Base == BaseOf(addr, profiles)

LEMMA SpanHas ==
    ASSUME NEW r, NEW b
    PROVE  b \in Span(r) <=> \/ b \in r.lo .. r.hi \/ \E p \in r.profile : b \in p.lo .. p.hi
                             \/ \E i \in DOMAIN r.pages : b \in r.pages[i].lo .. r.pages[i].hi
<1> DEFINE A == UNION {p.lo .. p.hi : p \in r.profile}
           B == UNION {r.pages[i].lo .. r.pages[i].hi : i \in DOMAIN r.pages}
<1>1. b \in A <=> \E p \in r.profile : b \in p.lo .. p.hi
  OBVIOUS
<1>2. b \in B <=> \E i \in DOMAIN r.pages : b \in r.pages[i].lo .. r.pages[i].hi
  OBVIOUS
<1>3. Span(r) = (r.lo .. r.hi) \cup A \cup B
  BY DEF Span
<1> HIDE DEF A, B
<1> QED  BY <1>1, <1>2, <1>3

LEMMA BaseIn ==
    ASSUME NEW a, NEW P, NEW b
    PROVE  b \in BaseOf(a, P) <=> (a.hi # 0 /\ b \in a.lo .. a.hi) \/ \E p \in P : b \in p.lo .. p.hi
<1>1. b \in UNION {p.lo .. p.hi : p \in P} <=> \E p \in P : b \in p.lo .. p.hi
  OBVIOUS
<1> QED  BY <1>1 DEF BaseOf

LEMMA AnswerIn ==
    ASSUME NEW a, NEW P, NEW f, NEW b
    PROVE  b \in AnswerOf(a, P, f) <=> b \in BaseOf(a, P) \/ \E c \in Callers : b \in Span(f[c])
<1>1. b \in UNION {Span(f[c]) : c \in Callers} <=> \E c \in Callers : b \in Span(f[c])
  OBVIOUS
<1> QED  BY <1>1 DEF AnswerOf

LEMMA BaseHas ==
    \A b : b \in Base <=> (addr.hi # 0 /\ b \in addr.lo .. addr.hi) \/ \E p \in profiles : b \in p.lo .. p.hi
BY BaseIn DEF Base

LEMMA AnsweredHas ==
    \A b : b \in Answered <=> b \in Base \/ \E c \in Callers : b \in Span(read[c])
<1>1. Answered = AnswerOf(addr, profiles, read)
  BY DEF Answered, AnswerOf, BaseOf
<1> QED  BY <1>1, AnswerIn DEF Base

\* The pages of a reader that has read one more.
LEMMA OneMore ==
    ASSUME NEW S, NEW q \in Seq(S), NEW x
    PROVE  /\ DOMAIN Append(q, x) = DOMAIN q \cup {Len(q) + 1} /\ Len(q) + 1 \notin DOMAIN q
           /\ \A i \in DOMAIN q : Append(q, x)[i] = q[i] /\ i < Len(q) + 1
           /\ Append(q, x)[Len(q) + 1] = x
OBVIOUS

LEMMA CursorStep ==
    ASSUME NEW r \in Reader, Cursor(r, docs), docs \subseteq Document, IsFiniteSet(docs), Unique(docs),
           NEW s, Step(r, s), ~Queried(r, s)
    PROVE  Cursor(s, docs) /\ (Once(r) => Once(s)) /\ \A R : Full(r, R) => Full(s, R)
<1>1. CASE Turned(r, s, "end") \/ (r.step = "find" /\ Turned(r, s, "lifetime"))
  BY <1>1 DEF Turned, Cursor, Once, Full
<1>2. CASE Opened(r, s)
  <2>1. Cursor(s, docs)
    BY <1>2 DEF Opened, Cursor
  <2>2. s.pages = r.pages /\ (s.before = r.before \/ r.pages = <<>>)
    BY <1>2 DEF Opened, Cursor
  <2>3. ~\E i \in DOMAIN <<>> : TRUE
    OBVIOUS
  <2> QED  BY <2>1, <2>2, <2>3 DEF Once, Full
<1>3. CASE Counting(r, s)
  <2>1. s.pages = r.pages /\ s.before = r.before
    BY <1>3 DEF Counting
  <2>2. (Once(r) => Once(s)) /\ \A R : Full(r, R) => Full(s, R)
    BY <2>1 DEF Once, Full
  <2>3. r.profile = {}
    BY <1>3 DEF Counting, Cursor
  <2>4. s.profile = {} \/ (s.step = "end" /\ \A p \in s.profile : p.hi = s.hi)
    BY <1>1, <1>2, <1>3, <2>3 DEF Step, Found, Nothing, Lived, Windowed, Saved, ProfileOf, Counting, Turned, Opened
  <2> QED  BY <1>3, <2>1, <2>2, <2>4 DEF Counting, Cursor
<1> QED  BY <1>1, <1>2, <1>3 DEF Step, Found, Nothing, Lived, Windowed, Saved

LEMMA CursorQuery ==
    ASSUME NEW r \in Reader, Cursor(r, docs), docs \subseteq Document, IsFiniteSet(docs), Unique(docs),
           NEW s, Queried(r, s)
    PROVE  /\ Cursor(s, docs) /\ (Once(r) => Once(s))
           /\ \A R : Full(r, R) /\ Owed(R, r.lo, r.hi) \subseteq docs => Full(s, R)
<1> DEFINE S     == Rest(r)
           found == First(S, PageLimit + 1)
           items == First(found, PageLimit)
           more  == Cardinality(found) > PageLimit
           page  == [items |-> items, beyond |-> r.after, more |-> more, lo |-> r.lo, hi |-> r.hi]
           n     == Len(r.pages) + 1
<1>1. /\ S \subseteq docs /\ Collection(S)
      /\ \A d \in docs : Positive(d) /\ Beyond(d, r.after) => d \in S
      /\ \A d \in S : Beyond(d, r.after)
  BY FS_Subset DEF Rest, Collection, Unique
<1>2. /\ items \subseteq S
      /\ \A d \in S : (more => \E e \in items : e = d \/ AheadOf(d, e)) => d \in items
      /\ more => /\ LastIn(items) # {} /\ LastIn(items) \subseteq items
                 /\ \A d \in items : \E e \in LastIn(items) : d = e \/ AheadOf(d, e)
  BY <1>1, Paged
<1>3. /\ r.step = "query" /\ s.step = IF more THEN "next" ELSE "end"
      /\ s.after = IF more THEN LastIn(items) ELSE r.after
      /\ s.pages = Append(r.pages, page)
      /\ s.lo = r.lo /\ s.hi = r.hi /\ s.before = r.before /\ s.profile = r.profile
  BY DEF Queried
<1> HIDE DEF S, found, items, more
<1>4. page.items = items /\ page.beyond = r.after /\ page.more = more /\ page.lo = r.lo /\ page.hi = r.hi
  OBVIOUS
<1> HIDE DEF page
<1>5. r.pages \in Seq(Page) /\ r.after \subseteq Document
  BY DEF Reader
<1>6. /\ DOMAIN s.pages = DOMAIN r.pages \cup {n} /\ n \notin DOMAIN r.pages
      /\ \A i \in DOMAIN r.pages : s.pages[i] = r.pages[i] /\ i < n
      /\ s.pages[n] = page
  BY <1>3, <1>5, OneMore
<1>6a. DOMAIN r.pages \subseteq Nat /\ n \in Nat
  BY <1>5
<1> HIDE DEF n
<1>7. \A i \in DOMAIN r.pages : \A d \in r.pages[i].items : d \in Document /\ \E e \in r.after : d = e \/ AheadOf(d, e)
  <2>1. \A i \in DOMAIN r.pages : r.pages[i] \in Page
    BY <1>5
  <2> QED  BY <1>3, <2>1 DEF Cursor, Page
<1>8. \A i \in DOMAIN r.pages : \A d \in r.pages[i].items : \A f \in items : AheadOf(d, f)
  <2> SUFFICES ASSUME NEW i \in DOMAIN r.pages, NEW d \in r.pages[i].items, NEW f \in items PROVE AheadOf(d, f)
    OBVIOUS
  <2>1. PICK e \in r.after : d = e \/ AheadOf(d, e)
    BY <1>7
  <2>2. AheadOf(e, f) /\ f \in Document
    BY <1>1, <1>2 DEF Beyond
  <2> QED  BY <1>5, <1>7, <2>1, <2>2, AheadIs
<1>9. Cursor(s, docs)
  <2>1. ASSUME more, NEW i \in DOMAIN s.pages, NEW d \in s.pages[i].items
        PROVE  \E e \in s.after : d = e \/ AheadOf(d, e)
    <3>1. CASE i = n
      BY <1>2, <1>3, <1>4, <1>6, <2>1, <3>1
    <3>2. CASE i \in DOMAIN r.pages
      <4>1. PICK f \in LastIn(items) : f \in items
        BY <1>2, <2>1
      <4> QED  BY <1>3, <1>6, <1>8, <2>1, <3>2, <4>1
    <3> QED  BY <1>6, <3>1, <3>2
  <2> QED  BY <1>3, <2>1 DEF Cursor
<1>10. ASSUME NEW d \in docs, Past(page, d) PROVE d \in items
  BY <1>1, <1>2, <1>4, <1>10 DEF Past
<1>11. ASSUME Once(r) PROVE Once(s)
  <2>1. ASSUME NEW i \in DOMAIN s.pages, NEW j \in DOMAIN s.pages, i < j, NEW d \in s.pages[i].items, NEW e \in s.pages[j].items
        PROVE  AheadOf(d, e)
    <3>1. i \in DOMAIN r.pages
      BY <1>6, <1>6a, <2>1
    <3>2. CASE j = n
      BY <1>4, <1>6, <1>8, <2>1, <3>1, <3>2
    <3>3. CASE j \in DOMAIN r.pages
      BY <1>6, <1>11, <2>1, <3>1, <3>3 DEF Once
    <3> QED  BY <1>6, <3>2, <3>3
  <2>2. ASSUME NEW i \in DOMAIN s.pages, NEW d \in s.before, Past(s.pages[i], d)
        PROVE  \E j \in DOMAIN s.pages : d \in s.pages[j].items
    <3>1. d \in r.before /\ d \in docs
      BY <1>3 DEF Cursor
    <3>2. CASE i = n
      BY <1>4, <1>6, <1>10, <2>2, <3>1, <3>2
    <3>3. CASE i \in DOMAIN r.pages
      BY <1>6, <1>11, <2>2, <3>1, <3>3 DEF Once
    <3> QED  BY <1>6, <3>2, <3>3
  <2> QED  BY <2>1, <2>2 DEF Once
<1>12. ASSUME NEW R, Full(r, R), Owed(R, r.lo, r.hi) \subseteq docs PROVE Full(s, R)
  <2> SUFFICES ASSUME NEW i \in DOMAIN s.pages, NEW d \in Owed(R, s.pages[i].lo, s.pages[i].hi), Past(s.pages[i], d)
               PROVE  d \in s.pages[i].items
    BY DEF Full
  <2>1. CASE i = n
    <3>1. d \in docs
      BY <1>4, <1>6, <1>12, <2>1
    <3> QED  BY <1>4, <1>6, <1>10, <2>1, <3>1
  <2>2. CASE i \in DOMAIN r.pages
    BY <1>6, <1>12, <2>2 DEF Full
  <2> QED  BY <1>6, <2>1, <2>2
<1> QED  BY <1>9, <1>11, <1>12

LEMMA SpanStep ==
    ASSUME NEW r \in Reader, NEW s, Step(r, s) PROVE Span(s) \subseteq Span(r) \cup Base
<1> SUFFICES ASSUME NEW b \in Span(s) PROVE b \in Span(r) \cup Base
  OBVIOUS
<1>1. \/ b \in s.lo .. s.hi \/ \E p \in s.profile : b \in p.lo .. p.hi
      \/ \E i \in DOMAIN s.pages : b \in s.pages[i].lo .. s.pages[i].hi
  BY SpanHas
<1>2. \/ b \in r.lo .. r.hi \/ \E p \in r.profile : b \in p.lo .. p.hi
      \/ \E i \in DOMAIN r.pages : b \in r.pages[i].lo .. r.pages[i].hi
      \/ (addr.hi # 0 /\ b \in addr.lo .. addr.hi) \/ \E p \in profiles : b \in p.lo .. p.hi
  <2>1. CASE Turned(r, s, "end") \/ Turned(r, s, "lifetime") \/ Opened(r, s)
    BY <1>1, <2>1 DEF Turned, Opened
  <2>2. CASE Found(r, s) \/ Nothing(r, s) \/ Lived(r, s) \/ Windowed(r, s)
    BY <1>1, <2>2 DEF Found, Nothing, Lived, Windowed, Counting
  <2>3. CASE Saved(r, s)
    <3>1. /\ s.lo = r.lo /\ s.hi = r.hi /\ s.pages = r.pages /\ s.profile = {ProfileOf(r)}
          /\ ProfileOf(r).lo = r.lo /\ ProfileOf(r).hi = r.hi
      BY <2>3 DEF Saved, Counting, ProfileOf
    <3> QED  BY <1>1, <3>1
  <2>4. CASE Queried(r, s)
    <3>1. PICK page : s.pages = Append(r.pages, page) /\ page.lo = r.lo /\ page.hi = r.hi
      BY <2>4 DEF Queried
    <3>2. s.lo = r.lo /\ s.hi = r.hi /\ s.profile = r.profile
      BY <2>4 DEF Queried
    <3>3. r.pages \in Seq(Page)
      BY DEF Reader
    <3>4. \A i \in DOMAIN s.pages : s.pages[i] = page \/ (i \in DOMAIN r.pages /\ s.pages[i] = r.pages[i])
      BY <3>1, <3>3, OneMore
    <3> QED  BY <1>1, <3>1, <3>2, <3>4
  <2> QED  BY <2>1, <2>2, <2>3, <2>4 DEF Step
<1> QED  BY <1>2, SpanHas, BaseHas

LEMMA TallyStep ==
    ASSUME NEW r \in Reader, Tallied(r, rows), NEW s \in Reader, Step(r, s), IsFiniteSet(docs),
           Owed(rows, r.lo, r.hi) \subseteq docs, \A p \in profiles : Counts(p, rows),
           r.step \in {"find", "lifetime", "window", "save"} => r.profile = {}
    PROVE  Tallied(s, rows) /\ (r.step = "save" => Counts(ProfileOf(r), rows))
<1> DEFINE O == Owed(rows, r.lo, r.hi)
           all == {d \in docs : Positive(d)}
<1>1. IsFiniteSet(all) /\ IsFiniteSet(docs) /\ O \subseteq all /\ Cardinality(O) <= Cardinality(all)
  <2>1. IsFiniteSet(all) /\ O \subseteq all
    BY FS_Subset DEF Owed
  <2> HIDE DEF O, all
  <2> QED  BY <2>1, FS_Subset
<1>2. r.step = "save" => Counts(ProfileOf(r), rows)
  BY DEF Tallied, Counts, ProfileOf
<1>3. CASE Turned(r, s, "end") \/ Turned(r, s, "lifetime")
  BY <1>2, <1>3 DEF Turned, Tallied
<1>4. CASE Opened(r, s) \/ Queried(r, s)
  BY <1>2, <1>4 DEF Opened, Queried, Tallied
<1>5. CASE Found(r, s)
  BY <1>2, <1>5 DEF Found, Tallied
<1>6. CASE Saved(r, s)
  BY <1>2, <1>6 DEF Saved, Tallied
<1>7. CASE Lived(r, s)
  BY <1>1, <1>2, <1>7 DEF Lived, Counting, Tallied
<1>8. CASE Nothing(r, s)
  <2>1. O = {}
    BY <1>1, <1>8 DEF Nothing
  <2>2. s.lo = r.lo /\ s.hi = r.hi /\ s.step = "save" /\ s.profile = r.profile /\ s \in Reader
    BY <1>8 DEF Nothing, Counting
  <2>3. Cardinality(O) = 0 /\ Cardinality({d \in O : d.block \in s.latest - Recent .. s.latest}) = 0
    <3>1. {d \in O : d.block \in s.latest - Recent .. s.latest} = {}
      BY <2>1
    <3> QED  BY <2>1, <3>1, FS_EmptySet, Zenon
  <2>4. s.total \in Nat /\ s.recent \in Nat
    BY <2>2 DEF Reader
  <2>5. Counts(s, rows)
    BY <2>2, <2>3, <2>4 DEF Counts
  <2> QED  BY <1>2, <2>2, <2>5 DEF Tallied
<1>9. CASE Windowed(r, s)
  <2> DEFINE W == {d \in docs : Positive(d) /\ d.block \in r.latest - Recent .. r.latest}
             V == {d \in O : d.block \in r.latest - Recent .. r.latest}
  <2>1. V \subseteq W /\ IsFiniteSet(W)
    BY <1>1, FS_Subset
  <2>2. Cardinality(V) <= Cardinality(W)
    <3> HIDE DEF V, W
    <3> QED  BY <2>1, FS_Subset
  <2>3. s.recent = Cardinality(W) /\ s.lo = r.lo /\ s.hi = r.hi /\ s.latest = r.latest /\ s.total = r.total
    BY <1>9 DEF Windowed, Counting
  <2>4. s.total >= Cardinality(O)
    BY <1>9, <2>3 DEF Windowed, Tallied
  <2>5. Cardinality(W) \in Nat /\ Cardinality(V) \in Nat
    <3> HIDE DEF V, W
    <3> QED  BY <2>1, FS_Subset, FS_CardinalityType
  <2> HIDE DEF W
  <2>6. Counts(s, rows)
    BY <2>2, <2>3, <2>4, <2>5 DEF Counts
  <2> QED  BY <1>2, <1>9, <2>6 DEF Windowed, Counting, Tallied
<1> QED  BY <1>3, <1>4, <1>5, <1>6, <1>7, <1>8, <1>9, <1>2 DEF Step
-----------------------------------------------------------------------------
(* While nobody is disturbed, what is answered for stays what it was *)

Steady ==
    /\ Undisturbed /\ DocumentsFor(rows) \subseteq DocumentsFor(rows')
    /\ \A lo, hi : lo .. hi \subseteq Answered => Owed(rows', lo, hi) = Owed(rows, lo, hi)
    /\ rows' = rows \/ \A c \in Callers : job[c].step # "write" /\ left[c] = {}

LEMMA Undisturbing == Sound /\ LateElsewhere /\ [Next]_vars /\ Undisturbed' => Steady
<1> SUFFICES ASSUME Sound, LateElsewhere, [Next]_vars, Undisturbed' PROVE Steady
  OBVIOUS
<1>1. Asked /\ UNCHANGED role /\ rows \subseteq rows'
  BY ListersNext DEF Sound
<1>2. ListersOK /\ LeftOK /\ rows \cup late \subseteq Row /\ IsFiniteSet(rows \cup late) /\ KeysTell(rows \cup late)
  BY DEF Sound, StoreOK, StoredOK, Core, Explored
<1>3. \A c \in Callers : role[c] = "list" /\ call[c] # Idle => call'[c] # Idle /\ call'[c].before = call[c].before
  BY <1>1 DEF Asked
<1>4. \A c \in Callers : role[c] = "list" /\ call'[c] # Idle => call'[c].before = rows'
  BY <1>1 DEF Undisturbed
<1>5. \A c \in Callers : role[c] = "list" /\ call[c] # Idle => call[c].before = rows' /\ call[c].before \subseteq rows
  BY <1>2, <1>3, <1>4 DEF ListersOK
<1>6. CASE rows' = rows
  BY <1>5, <1>6 DEF Steady, Undisturbed
<1>7. CASE rows' # rows
  <2>1. PICK r \in late : rows' = rows \cup {r}
    <3>1. CASE Quiet
      BY <1>7, <3>1 DEF Quiet
    <3>2. ASSUME NEW c \in Callers, ListAddress(c) \/ UNCHANGED analysisVars PROVE UNCHANGED rows
      BY <3>2, ListKinds DEF analysisVars, explorerVars
    <3> QED  BY <1>7, <3>1, <3>2, Kinds DEF Sound
  <2>2. \A c \in Callers : role[c] = "list" => call[c] = Idle
    BY <1>1, <1>5, <1>7
  <2>3. r.block \notin Answered
    BY <2>2 DEF LateElsewhere
  <2>4. rows' \subseteq Row /\ IsFiniteSet(rows') /\ KeysTell(rows')
    <3>1. rows' \subseteq rows \cup late
      BY <2>1
    <3> QED  BY <1>2, <3>1, FS_Subset DEF KeysTell
  <2>5. ASSUME NEW lo, NEW hi, lo .. hi \subseteq Answered PROVE Owed(rows', lo, hi) = Owed(rows, lo, hi)
    <3>1. \A q \in rows' \ rows : q.block \notin lo .. hi
      BY <2>1, <2>3, <2>5
    <3> QED  BY <1>1, <2>4, <3>1, OwedSame
  <2>6. DocumentsFor(rows) \subseteq DocumentsFor(rows')
    BY <1>1, <2>4, DocumentsGrow
  <2>7. \A c \in Callers : job[c].step # "write" /\ left[c] = {}
    <3>1. \A c \in Callers : job[c].step = "write" => role[c] = "list" /\ call[c].at = "done"
      BY <1>2 DEF ListersOK, Lists
    <3> QED  BY <1>2, <2>2, <3>1 DEF LeftOK, Idle
  <2>8. Undisturbed
    BY <2>2 DEF Undisturbed
  <2> QED  BY <2>5, <2>6, <2>7, <2>8 DEF Steady
<1> QED  BY <1>6, <1>7

\* Nobody begins to answer for blocks the explorer is late with before all listings end.
LEMMA LateNext == Sound /\ LateElsewhere /\ [Next]_vars => LateElsewhere'
<1> SUFFICES ASSUME Sound, LateElsewhere, [Next]_vars, \A c \in Callers : role'[c] = "list" => call'[c] = Idle,
                    NEW r \in late', r.block \in Answered'
             PROVE  FALSE
  BY DEF LateElsewhere
<1>1. Asked /\ UNCHANGED role /\ ListersOK /\ read \in [Callers -> Reader]
  BY ListersNext DEF Sound, StoreOK, ReadOK
<1>2. \A c \in Callers : role[c] = "list" => call[c] = Idle
  BY <1>1 DEF Asked
<1>3. \A q \in late : q.block \notin Answered
  BY <1>2 DEF LateElsewhere
<1>4. ASSUME r \in late, UNCHANGED <<addr, profiles, read>> PROVE FALSE
  <2>1. Answered' = Answered
    BY <1>4 DEF Answered, Span
  <2> QED  BY <1>3, <1>4, <2>1
<1>5. CASE Quiet
  BY <1>4, <1>5 DEF Quiet, readVars
<1>8. Answered' = AnswerOf(addr', profiles', read')
  BY DEF Answered, AnswerOf, BaseOf, Span
<1>9. \/ addr'.hi # 0 /\ r.block \in addr'.lo .. addr'.hi
      \/ \E p \in profiles' : r.block \in p.lo .. p.hi
      \/ \E c \in Callers : r.block \in Span(read'[c])
  BY <1>8, AnswerIn, BaseIn
<1>6. ASSUME NEW c \in Callers, ListAddress(c) PROVE FALSE
  <2>1. UNCHANGED <<read, profiles, rows, late>> /\ (Idles(c) \/ Takes(c) \/ Adds(c) \/ Covers(c))
    BY <1>6, ListKinds
  <2>2. role[c] = "list" /\ call[c] = Idle
    BY <1>2, <1>6, ListSteps DEF Sound
  <2>3. ~Covers(c) /\ ~Takes(c)
    BY <1>1, <2>2 DEF Covers, Takes, ListersOK, Lists, Idle
  <2>4. addr'.lo = addr.lo /\ addr'.hi = addr.hi
    BY <2>1, <2>3 DEF Idles, Adds
  <2>5. r.block \in Answered
    BY <1>9, <2>1, <2>4, AnsweredHas, BaseHas
  <2> QED  BY <1>3, <2>1, <2>5
<1>7. ASSUME NEW c \in Callers, ReadAddress(c), UNCHANGED analysisVars PROVE FALSE
  <2>1. /\ UNCHANGED <<docs, addr>> /\ \A d \in Callers \ {c} : read'[d] = read[d]
        /\ Step(read[c], read'[c])
        /\ profiles' \subseteq profiles \cup {ProfileOf(read[c])}
    BY <1>7, ReadSteps DEF Sound
  <2>2. Span(read'[c]) \subseteq Span(read[c]) \cup Base
    BY <1>1, <2>1, SpanStep
  <2>3. ProfileOf(read[c]).lo = read[c].lo /\ ProfileOf(read[c]).hi = read[c].hi
    BY DEF ProfileOf
  <2>4. r.block \in read[c].lo .. read[c].hi => r.block \in Span(read[c])
    BY SpanHas
  <2>5. r.block \in Answered
    BY <1>9, <2>1, <2>2, <2>3, <2>4, AnsweredHas, BaseHas
  <2> QED  BY <1>3, <1>7, <2>5 DEF analysisVars, explorerVars
<1> QED  BY <1>5, <1>6, <1>7, Kinds DEF Sound
-----------------------------------------------------------------------------
(* What is stored *)

LEMMA TakenDocuments ==
    ASSUME Sound, NEW c \in Callers, role[c] = "list", Takes(c), Undisturbed
    PROVE  /\ Documents(call[c]) \subseteq DocumentsFor(rows)
           /\ Out(c) = "whole" => DocumentsFor(rows) \subseteq Documents(call[c])
<1> DEFINE k == call[c]
<1>1. k.raw \in Seq(Row) /\ rows \subseteq Row /\ IsFiniteSet(rows) /\ Distinct(rows) /\ KeysTell(rows)
  <2>1. k.raw \in Seq(Row)
    BY CoreParts DEF CallOK, Calls, Sound
  <2> QED  BY <2>1, CoreRows DEF Sound, Core, RowsOK, StoredOK, KeysTell
<1>2. k.at = "done" /\ k.ask = "list" /\ k.before = rows /\ k.after = rows /\ Seen(k) \subseteq rows
  <2>1. k.at = "done" /\ k.ask = "list" /\ k # Idle
    BY DEF Takes, Idle
  <2>2. k.before = rows
    BY <2>1 DEF Undisturbed
  <2> QED  BY <2>1, <2>2 DEF Sound, ListersOK, Lists
<1>3. Honest(k, order) /\ Stable(k)
  BY DEF Sound, ListsOK, Listing
<1>4. {Identity(k.raw, i) : i \in Returned(k)} = Reference(Records(k))
  BY <1>2, <1>3 DEF Stable
<1>5. k.out = "whole" => Keep(rows) \subseteq Records(k)
  BY <1>2, <1>3 DEF Honest, Due, Keep
<1> HIDE DEF k
<1>6. Documents(k) \subseteq DocumentsFor(rows)
  BY <1>1, <1>2, <1>4, ListedDocuments
<1>7. k.out = "whole" => DocumentsFor(rows) \subseteq Documents(k)
  BY <1>1, <1>2, <1>4, <1>5, WholeDocuments
<1> QED  BY <1>6, <1>7 DEF k, Out

LEMMA LoadedNext == Sound /\ LateElsewhere /\ Loaded /\ [Next]_vars => Loaded'
<1> SUFFICES ASSUME Sound, LateElsewhere, Loaded, [Next]_vars, Undisturbed'
             PROVE  /\ docs' \subseteq DocumentsFor(rows')
                    /\ \A c \in Callers :
                          /\ left'[c] \subseteq DocumentsFor(rows')
                          /\ job'[c].step = "write" /\ call'[c].out = "whole" => DocumentsFor(rows') \subseteq docs' \cup left'[c]
                    /\ addr'.hi # 0 => Owed(rows', addr'.lo, addr'.hi) \subseteq docs'
                    /\ \A c \in Callers : Owed(rows', read'[c].lo, read'[c].hi) \subseteq docs'
  BY DEF Loaded, TrueDocuments, Out
<1>1. /\ Undisturbed /\ DocumentsFor(rows) \subseteq DocumentsFor(rows')
      /\ \A lo, hi : lo .. hi \subseteq Answered => Owed(rows', lo, hi) = Owed(rows, lo, hi)
      /\ rows' = rows \/ \A c \in Callers : job[c].step # "write" /\ left[c] = {}
  BY Undisturbing DEF Steady
<1>2. /\ docs \subseteq DocumentsFor(rows)
      /\ \A c \in Callers :
            /\ left[c] \subseteq DocumentsFor(rows)
            /\ job[c].step = "write" /\ call[c].out = "whole" => DocumentsFor(rows) \subseteq docs \cup left[c]
      /\ addr.hi # 0 => Owed(rows, addr.lo, addr.hi) \subseteq docs
      /\ \A c \in Callers : Owed(rows, read[c].lo, read[c].hi) \subseteq docs
  BY <1>1 DEF Loaded, TrueDocuments, Out
<1>3. /\ addr.hi # 0 => addr.lo .. addr.hi \subseteq Answered
      /\ \A c \in Callers : read[c].lo .. read[c].hi \subseteq Answered
  BY AnsweredHas, BaseHas, SpanHas
<1>4. /\ addr.hi # 0 => Owed(rows', addr.lo, addr.hi) \subseteq docs
      /\ \A c \in Callers : Owed(rows', read[c].lo, read[c].hi) \subseteq docs
  BY <1>1, <1>2, <1>3
<1>5. CASE Quiet
  <2>1. UNCHANGED <<docs, addr, read, left>>
    BY <1>5 DEF Quiet, readVars
  <2>2. \A c \in Callers : job'[c].step = "write" => job[c].step = "write" /\ call'[c] = call[c]
    BY <1>5 DEF Quiet
  <2>3. ASSUME NEW c \in Callers
        PROVE  /\ left[c] \subseteq DocumentsFor(rows')
               /\ job'[c].step = "write" /\ call'[c].out = "whole" => DocumentsFor(rows') \subseteq docs \cup left[c]
    BY <1>1, <1>2, <2>2
  <2> QED  BY <1>1, <1>2, <1>4, <2>1, <2>3
<1>6. ASSUME NEW c \in Callers, ListAddress(c)
      PROVE  /\ docs' \subseteq DocumentsFor(rows')
             /\ \A d \in Callers :
                   /\ left'[d] \subseteq DocumentsFor(rows')
                   /\ job'[d].step = "write" /\ call'[d].out = "whole" => DocumentsFor(rows') \subseteq docs' \cup left'[d]
             /\ addr'.hi # 0 => Owed(rows', addr'.lo, addr'.hi) \subseteq docs'
             /\ \A d \in Callers : Owed(rows', read'[d].lo, read'[d].hi) \subseteq docs'
  <2> DEFINE D == DocumentsFor(rows)
  <2>1. /\ UNCHANGED <<read, profiles, rows, late>> /\ \A d \in Callers \ {c} : left'[d] = left[d]
        /\ \A d \in Callers \ {c} : call'[d] = call[d] /\ job'[d] = job[d]
        /\ Idles(c) \/ Takes(c) \/ Adds(c) \/ Covers(c)
    BY <1>6, ListKinds DEF Alone
  <2>2. docs \subseteq docs'
    BY StoredNext
  <2>3. role[c] = "list"
    BY <1>6, ListSteps DEF Sound
  <2>4. docs' \subseteq D
    BY <1>2, <2>1 DEF Idles, Takes, Adds, Covers
  <2>5. ASSUME NEW d \in Callers \ {c}
        PROVE  /\ left'[d] \subseteq D
               /\ job'[d].step = "write" /\ call'[d].out = "whole" => D \subseteq docs' \cup left'[d]
    BY <1>2, <2>1, <2>2, <2>5
  <2>6. /\ left'[c] \subseteq D
        /\ job'[c].step = "write" /\ call'[c].out = "whole" => D \subseteq docs' \cup left'[c]
    <3>1. CASE Idles(c)
      BY <1>2, <3>1 DEF Idles
    <3>2. CASE Takes(c)
      <4>1. /\ Documents(call[c]) \subseteq D
            /\ call[c].out = "whole" => D \subseteq Documents(call[c])
        BY <1>1, <2>3, <3>2, TakenDocuments DEF Out
      <4> QED  BY <3>2, <4>1 DEF Takes
    <3>3. CASE Adds(c)
      <4>1. PICK d \in left[c] : docs' = docs \cup {d} /\ left'[c] = left[c] \ {d}
        BY <3>3 DEF Adds
      <4>2. call'[c] = call[c] /\ job'[c] = job[c]
        BY <3>3 DEF Adds
      <4> HIDE DEF D
      <4>3. left[c] \subseteq D /\ (job[c].step = "write" /\ call[c].out = "whole" => D \subseteq docs \cup left[c])
        BY <1>2 DEF D
      <4> QED  BY <4>1, <4>2, <4>3
    <3>4. CASE Covers(c)
      BY <3>4 DEF Covers
    <3> QED  BY <2>1, <3>1, <3>2, <3>3, <3>4
  <2>7. addr'.hi # 0 => Owed(rows, addr'.lo, addr'.hi) \subseteq docs'
    <3>1. CASE Covers(c)
      <4>1. D \subseteq docs
        BY <1>2, <3>1 DEF Covers, Out
      <4>2. \A lo, hi : Owed(rows, lo, hi) \subseteq D
        BY DEF Owed
      <4> QED  BY <2>2, <4>1, <4>2
    <3>2. CASE addr'.lo = addr.lo /\ addr'.hi = addr.hi
      BY <1>2, <2>2, <3>2
    <3> QED  BY <2>1, <3>1, <3>2 DEF Idles, Takes, Adds
  <2> HIDE DEF D
  <2>8. \A d \in Callers : /\ left'[d] \subseteq D
                           /\ job'[d].step = "write" /\ call'[d].out = "whole" => D \subseteq docs' \cup left'[d]
    BY <2>5, <2>6
  <2>9. DocumentsFor(rows') = D
    BY <2>1 DEF D
  <2>10. \A d \in Callers : Owed(rows', read'[d].lo, read'[d].hi) \subseteq docs'
    BY <1>4, <2>1, <2>2
  <2>11. addr'.hi # 0 => Owed(rows', addr'.lo, addr'.hi) \subseteq docs'
    BY <2>1, <2>7
  <2> QED  BY <2>4, <2>8, <2>9, <2>10, <2>11
<1>7. ASSUME NEW c \in Callers, ReadAddress(c), UNCHANGED <<analysisVars, left>>
      PROVE  /\ docs' \subseteq DocumentsFor(rows')
             /\ \A d \in Callers :
                   /\ left'[d] \subseteq DocumentsFor(rows')
                   /\ job'[d].step = "write" /\ call'[d].out = "whole" => DocumentsFor(rows') \subseteq docs' \cup left'[d]
             /\ addr'.hi # 0 => Owed(rows', addr'.lo, addr'.hi) \subseteq docs'
             /\ \A d \in Callers : Owed(rows', read'[d].lo, read'[d].hi) \subseteq docs'
  <2>1. /\ UNCHANGED <<docs, addr>> /\ (\A d \in Callers \ {c} : read'[d] = read[d]) /\ Step(read[c], read'[c])
    BY <1>7, ReadSteps DEF Sound
  <2>2. UNCHANGED <<rows, left, job, call>>
    BY <1>7 DEF analysisVars, explorerVars, clientVars
  <2>3. \/ read'[c].lo = read[c].lo /\ read'[c].hi = read[c].hi
        \/ read'[c].lo = addr.lo /\ read'[c].hi = addr.hi /\ addr.hi # 0
    BY <2>1 DEF Step, Turned, Opened, Queried, Found, Nothing, Lived, Windowed, Saved, Counting
  <2>4. Owed(rows, read'[c].lo, read'[c].hi) \subseteq docs
    BY <1>2, <2>3
  <2>5. \A d \in Callers : Owed(rows, read'[d].lo, read'[d].hi) \subseteq docs
    BY <1>2, <2>1, <2>4
  <2> QED  BY <1>2, <2>1, <2>2, <2>5
<1> QED  BY <1>5, <1>6, <1>7, Kinds DEF Sound
-----------------------------------------------------------------------------
(* All readers *)

Readers ==
    /\ \A c \in Callers : Cursor(read[c], docs) /\ Once(read[c])
    /\ Undisturbed =>
          /\ \A p \in profiles : Counts(p, rows)
          /\ \A c \in Callers : Full(read[c], rows) /\ Tallied(read[c], rows)

LEMMA ReadersAre == StoreOK /\ Loaded => (CursorsOK /\ CountsOK /\ PagesHonest <=> Readers)
<1> SUFFICES ASSUME StoreOK, Loaded PROVE CursorsOK /\ CountsOK /\ PagesHonest <=> Readers
  OBVIOUS
<1>1. read \in [Callers -> Reader] /\ DOMAIN read = Callers
  BY DEF StoreOK, ReadOK
<1>2. PagesOnce <=> \A c \in Callers : Once(read[c])
  <2>1. ASSUME NEW c \in Callers, NEW d
        PROVE  d \in UNION {read[c].pages[i].items : i \in DOMAIN read[c].pages} <=>
                  \E i \in DOMAIN read[c].pages : d \in read[c].pages[i].items
    OBVIOUS
  <2> DEFINE U(c) == UNION {read[c].pages[i].items : i \in DOMAIN read[c].pages}
  <2>2. PagesOnce <=> \A c \in Callers :
            /\ \A i, j \in DOMAIN read[c].pages : i < j =>
                  \A d \in read[c].pages[i].items, e \in read[c].pages[j].items : AheadOf(d, e)
            /\ \A i \in DOMAIN read[c].pages : \A d \in read[c].before : Past(read[c].pages[i], d) => d \in U(c)
    BY <1>1, Zenon DEF PagesOnce, Past
  <2> HIDE DEF U
  <2>3. \A c \in Callers : \A d : d \in U(c) <=> \E i \in DOMAIN read[c].pages : d \in read[c].pages[i].items
    BY <2>1 DEF U
  <2> QED  BY <2>2, <2>3 DEF Once
<1>3. ASSUME Undisturbed
      PROVE  (\A c \in Callers : \A i \in DOMAIN read[c].pages :
                LET page == read[c].pages[i]
                IN \A d \in TrueDocuments :
                      /\ Positive(d) /\ d.block \in page.lo .. page.hi /\ Beyond(d, page.beyond)
                      /\ page.more => \E e \in page.items : e = d \/ AheadOf(d, e)
                      => d \in page.items)
             <=> \A c \in Callers : Full(read[c], rows)
  BY DEF Full, Past, Owed, TrueDocuments
<1>4. CursorsOK /\ (\A c \in Callers : \A p \in read[c].profile : p.hi = read[c].hi) <=>
        \A c \in Callers : Cursor(read[c], docs)
  BY DEF CursorsOK, Cursor
<1>5. Undisturbed => docs \subseteq TrueDocuments
  BY DEF Loaded
<1>6. PagesHonest <=> (\A c \in Callers : Once(read[c])) /\ (Undisturbed => \A c \in Callers : Full(read[c], rows))
  BY <1>2, <1>3, <1>5 DEF PagesHonest
<1>7. CountsOK <=> /\ \A c \in Callers : \A p \in read[c].profile : p.hi = read[c].hi
                   /\ Undisturbed => /\ \A p \in profiles : Counts(p, rows)
                                     /\ \A c \in Callers : Tallied(read[c], rows)
  BY DEF CountsOK, Tallied
<1> HIDE DEF CursorsOK, CountsOK, PagesHonest
<1> QED  BY <1>4, <1>6, <1>7 DEF Readers

LEMMA SameCounts ==
    ASSUME NEW R, NEW Q, NEW p, Owed(Q, p.lo, p.hi) = Owed(R, p.lo, p.hi), Counts(p, R) PROVE Counts(p, Q)
BY DEF Counts

\* A reader that does not move is served as before.
LEMMA StaysFull ==
    ASSUME Sound, LateElsewhere, [Next]_vars, Undisturbed', NEW c \in Callers, Full(read[c], rows), Tallied(read[c], rows)
    PROVE  Full(read[c], rows') /\ Tallied(read[c], rows')
<1> DEFINE r == read[c]
<1>1. \A lo, hi : lo .. hi \subseteq Answered => Owed(rows', lo, hi) = Owed(rows, lo, hi)
  BY Undisturbing DEF Steady
<1>2. Span(r) \subseteq Answered
  BY AnsweredHas
<1>3. /\ r.lo .. r.hi \subseteq Answered /\ \A p \in r.profile : p.lo .. p.hi \subseteq Answered
      /\ \A i \in DOMAIN r.pages : r.pages[i].lo .. r.pages[i].hi \subseteq Answered
  BY <1>2, SpanHas
<1> HIDE DEF r
<1>4. /\ Owed(rows', r.lo, r.hi) = Owed(rows, r.lo, r.hi)
      /\ \A p \in r.profile : Owed(rows', p.lo, p.hi) = Owed(rows, p.lo, p.hi)
      /\ \A i \in DOMAIN r.pages : Owed(rows', r.pages[i].lo, r.pages[i].hi) = Owed(rows, r.pages[i].lo, r.pages[i].hi)
  BY <1>1, <1>3
<1>5. Full(r, rows')
  BY <1>4 DEF Full, r
<1>6. Tallied(r, rows')
  BY <1>4 DEF Tallied, Counts, r
<1> QED  BY <1>5, <1>6 DEF r

LEMMA ReadersNext == Sound /\ LateElsewhere /\ Loaded /\ Readers /\ [Next]_vars => Readers'
<1> SUFFICES ASSUME Sound, LateElsewhere, Loaded, Readers, [Next]_vars PROVE Readers'
  OBVIOUS
<1>1. /\ docs \subseteq Document /\ IsFiniteSet(docs) /\ Unique(docs) /\ read \in [Callers -> Reader] /\ docs \subseteq docs'
      /\ read' \in [Callers -> Reader]
  <2>1. StoreOK'
    <3>1. IInv' <=> Core' /\ StoreOK'
      BY Parts, PTL
    <3> QED  BY <3>1, NextInv, Parts DEF Sound
  <2> QED  BY <2>1, StoredNext DEF Sound, StoreOK, StoreTypeOK, ReadOK
<1>2. \A c \in Callers : Cursor(read[c], docs) /\ Once(read[c])
  BY DEF Readers
<1>3. ASSUME Undisturbed'
      PROVE  /\ Undisturbed /\ \A p \in profiles : Counts(p, rows) /\ Counts(p, rows')
             /\ \A c \in Callers : Full(read[c], rows) /\ Tallied(read[c], rows)
             /\ \A c \in Callers : Full(read[c], rows') /\ Tallied(read[c], rows')
  <2>1. Undisturbed /\ \A lo, hi : lo .. hi \subseteq Answered => Owed(rows', lo, hi) = Owed(rows, lo, hi)
    BY <1>3, Undisturbing DEF Steady
  <2>2. (\A p \in profiles : Counts(p, rows)) /\ \A c \in Callers : Full(read[c], rows) /\ Tallied(read[c], rows)
    BY <2>1 DEF Readers
  <2>3. \A p \in profiles : p.lo .. p.hi \subseteq Answered
    BY AnsweredHas, BaseHas
  <2>4. \A p \in profiles : Counts(p, rows')
    BY <2>1, <2>2, <2>3, SameCounts
  <2>5. \A c \in Callers : Full(read[c], rows') /\ Tallied(read[c], rows')
    BY <1>3, <2>2, StaysFull
  <2> QED  BY <2>1, <2>2, <2>4, <2>5
<1>4. CASE UNCHANGED <<read, profiles>>
  <2>1. \A c \in Callers : Cursor(read[c], docs')
    BY <1>1, <1>2 DEF Cursor
  <2>2. Undisturbed' => /\ \A p \in profiles' : Counts(p, rows')
                        /\ \A c \in Callers : Full(read'[c], rows') /\ Tallied(read'[c], rows')
    BY <1>3, <1>4
  <2> QED  BY <1>2, <1>4, <2>1, <2>2 DEF Readers
<1>5. CASE Quiet
  BY <1>4, <1>5 DEF Quiet, readVars
<1>6. ASSUME NEW c \in Callers, ListAddress(c) PROVE Readers'
  BY <1>4, <1>6, ListKinds
<1>7. ASSUME NEW c \in Callers, ReadAddress(c), UNCHANGED analysisVars PROVE Readers'
  <2> DEFINE r == read[c]
             s == read'[c]
  <2>1. /\ UNCHANGED <<docs, addr>> /\ (\A d \in Callers \ {c} : read'[d] = read[d]) /\ Step(r, s)
        /\ profiles' \subseteq profiles \/ (profiles' \subseteq profiles \cup {ProfileOf(r)} /\ r.step = "save")
    BY <1>7, ReadSteps DEF Sound
  <2>2. UNCHANGED rows
    BY <1>7 DEF analysisVars, explorerVars
  <2>3. r \in Reader /\ s \in Reader /\ Cursor(r, docs) /\ Once(r)
    BY <1>1, <1>2
  <2>4. Undisturbed' => Owed(rows, r.lo, r.hi) \subseteq docs
    BY <1>3 DEF Loaded
  <2>5. /\ Cursor(s, docs) /\ Once(s)
        /\ \A R : Full(r, R) /\ Owed(R, r.lo, r.hi) \subseteq docs => Full(s, R)
    <3>1. CASE Queried(r, s)
      BY <1>1, <2>3, <3>1, CursorQuery
    <3>2. CASE ~Queried(r, s)
      BY <1>1, <2>1, <2>3, <3>2, CursorStep
    <3> QED  BY <3>1, <3>2
  <2>6. ASSUME Undisturbed'
        PROVE  /\ Full(s, rows) /\ Tallied(s, rows)
               /\ \A p \in profiles' : Counts(p, rows)
    <3>1. /\ Full(r, rows) /\ Tallied(r, rows) /\ Owed(rows, r.lo, r.hi) \subseteq docs
          /\ \A p \in profiles : Counts(p, rows)
      BY <1>3, <2>4, <2>6
    <3>2. r.step \in {"find", "lifetime", "window", "save"} => r.profile = {}
      BY <2>3 DEF Cursor
    <3>3. Tallied(s, rows) /\ (r.step = "save" => Counts(ProfileOf(r), rows))
      BY <1>1, <2>1, <2>3, <3>1, <3>2, TallyStep
    <3> QED  BY <2>1, <2>5, <3>1, <3>3
  <2>7. \A d \in Callers : Cursor(read'[d], docs) /\ Once(read'[d])
    BY <1>2, <2>1, <2>5
  <2>8. Undisturbed' => \A d \in Callers : Full(read'[d], rows) /\ Tallied(read'[d], rows)
    BY <1>3, <2>1, <2>6
  <2> HIDE DEF r, s
  <2> QED  BY <2>1, <2>2, <2>6, <2>7, <2>8 DEF Readers
<1> QED  BY <1>5, <1>6, <1>7, Kinds DEF Sound
-----------------------------------------------------------------------------
(* The theorems *)

LEMMA ReadsInit == Init => ReadsInv
<1> SUFFICES ASSUME Init PROVE ReadsInv
  OBVIOUS
<1>1. PICK s \in Scenes :
          /\ role = s.role /\ factory = s.factory /\ subject = s.subject
          /\ order = s.order /\ rows = s.rows /\ late = s.late /\ tx = s.tx
          /\ saved = s.saved /\ docs = s.docs /\ addr = s.addr /\ profiles = s.profiles
  BY DEF Init
<1>2. \A c \in Callers : call[c] = Idle /\ job[c] = Fresh /\ read[c] = Unread /\ left[c] = {}
  BY DEF Init
<1>3. /\ KeysTell(rows \cup late) /\ docs \subseteq DocumentsFor(rows)
      /\ addr.hi # 0 => Owed(rows, addr.lo, addr.hi) \subseteq docs /\ \A r \in late : r.block \notin addr.lo .. addr.hi
      /\ \A p \in profiles : Counts(p, rows) /\ \A r \in late : r.block \notin p.lo .. p.hi
  BY <1>1, StoredAssumption
<1>4. StoreOK /\ rows \cup late \subseteq Row
  BY InitInv, Parts DEF Core, Explored
<1>5. StoredOK
  <2>1. docs \subseteq Shapes(rows) /\ Shapes(rows) \subseteq Shapes(rows \cup late)
    BY <1>3, <1>4, DocumentsShaped, ShapesGrow
  <2> QED  BY <1>2, <1>3, <2>1 DEF StoredOK
<1>6. ListersOK
  <2>1. Idle.before \cup Seen(Idle) = {} /\ Fresh.step = "start" /\ Idle.at = "idle"
    BY DEF Idle, Seen, Fresh
  <2> QED  BY <1>2, <2>1 DEF ListersOK, Lists
<1>7. Span(Unread) = {}
  <2>1. ~\E b : b \in Span(Unread)
    <3>1. ~(\E i \in DOMAIN <<>> : TRUE) /\ ~\E b \in 0 .. -1 : TRUE
      OBVIOUS
    <3> QED  BY <3>1, SpanHas DEF Unread
  <2> QED  BY <2>1
<1>8. LateElsewhere
  <2> SUFFICES ASSUME NEW r \in late, r.block \in Answered PROVE FALSE
    BY DEF LateElsewhere
  <2> QED  BY <1>2, <1>3, <1>7, AnsweredHas, BaseHas
<1>9. Loaded
  <2>1. Owed(rows, Unread.lo, Unread.hi) = {} /\ Fresh.step = "start"
    BY DEF Owed, Unread, Fresh
  <2> QED  BY <1>2, <1>3, <2>1 DEF Loaded, TrueDocuments
<1>10. Readers
  <2>1. ~\E i \in DOMAIN <<>> : TRUE
    OBVIOUS
  <2>2. \A D, R : Cursor(Unread, D) /\ Once(Unread) /\ Full(Unread, R) /\ Tallied(Unread, R)
    BY <2>1 DEF Cursor, Once, Full, Tallied, Unread
  <2> QED  BY <1>2, <1>3, <2>2 DEF Readers
<1> QED  BY <1>4, <1>5, <1>6, <1>8, <1>9, <1>10, ReadersAre DEF ReadsInv

LEMMA ReadsParts == StoreOK => (ReadsInv <=> StoredOK /\ ListersOK /\ LateElsewhere /\ Loaded /\ Readers)
BY ReadersAre DEF ReadsInv

\* What is stored, what is answered for and what every reader has come to fit together
\* after every step of listings, readers and the explorer.
THEOREM ReadsInductive == Spec => []ReadsInv
<1>1. IInv /\ ListsInv /\ ReadsInv /\ [Next]_vars => ReadsInv'
  <2> SUFFICES ASSUME IInv, ListsInv, ReadsInv, [Next]_vars PROVE ReadsInv'
    OBVIOUS
  <2>1. Core /\ StoreOK /\ ListsOK
    BY Parts, ListingParts DEF ListsOK
  <2>2. StoreOK'
    <3>1. IInv' <=> Core' /\ StoreOK'
      BY Parts, PTL
    <3> QED  BY <3>1, NextInv
  <2>3. Sound /\ LateElsewhere /\ Loaded /\ Readers
    BY <2>1, ReadsParts DEF Sound, ReadsInv
  <2>4. StoredOK' /\ ListersOK' /\ LateElsewhere' /\ Loaded' /\ Readers'
    BY <2>1, <2>3, StoredNext, ListersNext, LateNext, LoadedNext, ReadersNext DEF ReadsInv
  <2>5. StoreOK' => (ReadsInv' <=> StoredOK' /\ ListersOK' /\ LateElsewhere' /\ Loaded' /\ Readers')
    BY ReadsParts, PTL
  <2> QED  BY <2>2, <2>4, <2>5
<1> QED  BY <1>1, ReadsInit, Inductive, ListingsInductive, PTL DEF Spec

\* Pages neither repeat a document nor pass over one that was there when the reader
\* began, and have every transfer of their part of the coverage they state while
\* the address is synchronised once more; no document is stored that is no transfer.
THEOREM PagesAlwaysHonest == Spec => []PagesHonest
<1>1. ReadsInv => PagesHonest
  BY DEF ReadsInv
<1> QED  BY <1>1, ReadsInductive, PTL

\* A profile, computed now or found, misses no transfer of the coverage it is
\* answered for, neither of the lifetime's nor of the window's.
THEOREM ProfilesAlwaysHonest == Spec => []ProfileHonest
<1>1. ReadsInv => ProfileHonest
  <2> SUFFICES ASSUME CountsOK, Undisturbed, NEW c \in Callers, NEW p \in read[c].profile
               PROVE  /\ p.total >= Cardinality(Owed(rows, p.lo, read[c].hi))
                      /\ p.recent >= Cardinality({d \in Owed(rows, p.lo, read[c].hi) : d.block \in p.latest - Recent .. p.latest})
    BY DEF ReadsInv, ProfileHonest
  <2>1. p.hi = read[c].hi /\ Counts(p, rows)
    BY DEF CountsOK
  <2> QED  BY <2>1 DEF Counts
<1> QED  BY <1>1, ReadsInductive, PTL
-----------------------------------------------------------------------------
(* The heap of the largest counterparties *)

Heaped == [peer : Nat, total : Nat]

\* A partial run of the sum of amounts, over the sets of at most n documents.
Partial(D, n) == {E \in SUBSET D : Cardinality(E) <= n}
Picked(E) == CHOOSE d \in E : TRUE
Summed(D, n, f) ==
    /\ f \in [Partial(D, n) -> Nat]
    /\ \A E \in Partial(D, n) : f[E] = IF E = {} THEN 0 ELSE Picked(E).amount + f[E \ {Picked(E)}]

LEMMA OneLess ==
    ASSUME NEW D, IsFiniteSet(D)
    PROVE  \A E \in SUBSET D :
              /\ Cardinality(E) \in Nat /\ (Cardinality(E) = 0 <=> E = {})
              /\ E # {} => /\ Picked(E) \in E /\ E \ {Picked(E)} \in SUBSET D
                           /\ Cardinality(E \ {Picked(E)}) = Cardinality(E) - 1
<1> SUFFICES ASSUME NEW E \in SUBSET D
             PROVE  /\ Cardinality(E) \in Nat /\ (Cardinality(E) = 0 <=> E = {})
                    /\ E # {} => /\ Picked(E) \in E /\ E \ {Picked(E)} \in SUBSET D
                                 /\ Cardinality(E \ {Picked(E)}) = Cardinality(E) - 1
  OBVIOUS
<1>1. IsFiniteSet(E) /\ Cardinality(E) \in Nat /\ (Cardinality(E) = 0 <=> E = {})
  BY FS_Subset, FS_CardinalityType, FS_EmptySet
<1>2. ASSUME E # {} PROVE Picked(E) \in E
  BY <1>2 DEF Picked
<1>3. E # {} => Cardinality(E \ {Picked(E)}) = Cardinality(E) - 1
  BY <1>1, <1>2, FS_RemoveElement
<1> QED  BY <1>1, <1>2, <1>3

LEMMA SummedExist ==
    ASSUME NEW D, IsFiniteSet(D), \A d \in D : d.amount \in Nat
    PROVE  \A n \in Nat : \E f : Summed(D, n, f)
<1>0. /\ \A E \in SUBSET D : Cardinality(E) \in Nat /\ (Cardinality(E) = 0 <=> E = {})
      /\ \A E \in SUBSET D : E # {} => /\ Picked(E) \in E /\ E \ {Picked(E)} \in SUBSET D
                                       /\ Cardinality(E \ {Picked(E)}) = Cardinality(E) - 1
  BY OneLess
<1> DEFINE S == {n \in Nat : \E f : Summed(D, n, f)}
<1>1. 0 \in S
  <2> DEFINE f == [E \in Partial(D, 0) |-> 0]
  <2>1. \A E \in Partial(D, 0) : E = {}
    <3> SUFFICES ASSUME NEW E \in SUBSET D, Cardinality(E) <= 0 PROVE E = {}
      BY DEF Partial
    <3> QED  BY <1>0
  <2>2. Summed(D, 0, f)
    BY <2>1 DEF Summed
  <2> QED  BY <2>2
<1>2. ASSUME NEW n \in Nat, n \in S PROVE n + 1 \in S
  <2>1. PICK f : Summed(D, n, f)
    BY <1>2
  <2> DEFINE g == [E \in Partial(D, n + 1) |->
                     IF E = {} THEN 0 ELSE Picked(E).amount + f[E \ {Picked(E)}]]
  <2>2. ASSUME NEW E \in Partial(D, n + 1), E # {}
        PROVE  E \ {Picked(E)} \in Partial(D, n) /\ Picked(E).amount \in Nat
    BY <2>2, <1>0 DEF Partial
  <2>3. \A E \in Partial(D, n) : E \in Partial(D, n + 1)
    BY <1>0 DEF Partial
  <2>4. \A E \in Partial(D, n) : g[E] = f[E]
    BY <2>1, <2>3 DEF Summed
  <2>5. g \in [Partial(D, n + 1) -> Nat]
    BY <2>1, <2>2 DEF Summed
  <2>6. Summed(D, n + 1, g)
    <3>1. \A E \in Partial(D, n + 1) : g[E] = IF E = {} THEN 0 ELSE Picked(E).amount + f[E \ {Picked(E)}]
      OBVIOUS
    <3> HIDE DEF g
    <3> QED  BY <2>2, <2>4, <2>5, <3>1 DEF Summed
  <2> QED  BY <2>6
<1>3. Nat \subseteq S
  BY <1>1, <1>2, SetInduction
<1> QED  BY <1>3

\* The sum of finitely many amounts is a number.
LEMMA AmountsAdd ==
    ASSUME NEW D, IsFiniteSet(D), \A d \in D : d.amount \in Nat
    PROVE  Sets!MapThenSumSet(LAMBDA d : d.amount, D) \in Nat
<1> DEFINE Fix(f) == f = [E \in SUBSET D |-> IF E = {} THEN 0 ELSE Picked(E).amount + f[E \ {Picked(E)}]]
           c == CHOOSE f : Fix(f)
           n == Cardinality(D)
<1>1. n \in Nat /\ \A E \in SUBSET D : Cardinality(E) \in Nat /\ Cardinality(E) <= n
  BY FS_CardinalityType, FS_Subset
<1>2. PICK f : Summed(D, n, f)
  BY <1>1, SummedExist
<1>3. Partial(D, n) = SUBSET D
  BY <1>1 DEF Partial
<1>4. Fix(f)
  BY <1>2, <1>3 DEF Summed
<1>5. Fix(c)
  BY <1>4
<1>6. Sets!MapThenSumSet(LAMBDA d : d.amount, D) = c[D]
  BY Zenon DEF Sets!MapThenSumSet, Sets!MapThenFoldSet, Picked
<1>7. \A E \in SUBSET D : c[E] = IF E = {} THEN 0 ELSE Picked(E).amount + c[E \ {Picked(E)}]
  BY <1>5
<1> HIDE DEF c
<1> DEFINE S == {m \in Nat : \A E \in SUBSET D : Cardinality(E) = m => c[E] \in Nat}
<1>8. 0 \in S
  <2>1. \A E \in SUBSET D : Cardinality(E) = 0 => E = {}
    BY OneLess
  <2>2. {} \in SUBSET D
    OBVIOUS
  <2>3. c[{}] = 0
    BY <1>7, <2>2
  <2> QED  BY <2>1, <2>3
<1>9. ASSUME NEW m \in Nat, m \in S PROVE m + 1 \in S
  <2> SUFFICES ASSUME NEW E \in SUBSET D, Cardinality(E) = m + 1 PROVE c[E] \in Nat
    OBVIOUS
  <2>1. E # {} /\ Picked(E) \in D /\ E \ {Picked(E)} \in SUBSET D /\ Cardinality(E \ {Picked(E)}) = m
    BY OneLess
  <2>2. c[E \ {Picked(E)}] \in Nat
    BY <1>9, <2>1
  <2>3. Picked(E).amount \in Nat
    BY <2>1
  <2>4. c[E] = Picked(E).amount + c[E \ {Picked(E)}]
    BY <1>7, <2>1
  <2> QED  BY <2>2, <2>3, <2>4
<1> HIDE DEF S
<1>10. n \in S
  BY <1>1, <1>8, <1>9, SetInduction
<1> QED  BY <1>6, <1>10 DEF S

LEMMA SummariesAre == ASSUME StoreTypeOK, NEW p \in Peers PROVE Summary(p) \in Heaped /\ Summary(p).peer = p
<1> DEFINE D == {d \in docs : Positive(d) /\ d.peer = p}
           t == Sets!MapThenSumSet(LAMBDA d : d.amount, D)
<1>1. IsFiniteSet(D) /\ \A d \in D : d.amount \in Nat
  BY FS_Subset DEF StoreTypeOK, Document
<1>2. t \in Nat
  BY <1>1, AmountsAdd
<1>3. Summary(p) = [peer |-> p, total |-> t]
  BY Zenon DEF Summary
<1>4. p \in Nat
  BY ReadsAssumption, FS_CardinalityType
<1> HIDE DEF t
<1> QED  BY <1>2, <1>3, <1>4 DEF Heaped

LEMMA BetterIs ==
    /\ \A s \in Heaped : ~Better(s, s)
    /\ \A s, t, u \in Heaped : Better(s, t) /\ Better(t, u) => Better(s, u)
    /\ \A s, t \in Heaped : s = t \/ Better(s, t) \/ Better(t, s)
<1>1. \A s \in Heaped : s.peer \in Nat /\ s.total \in Nat /\ s = [peer |-> s.peer, total |-> s.total]
  BY DEF Heaped
<1>2. \A s \in Heaped : ~Better(s, s)
  BY <1>1 DEF Better
<1>3. \A s, t, u \in Heaped : Better(s, t) /\ Better(t, u) => Better(s, u)
  BY <1>1 DEF Better
<1>4. ASSUME NEW s \in Heaped, NEW t \in Heaped PROVE s = t \/ Better(s, t) \/ Better(t, s)
  <2>1. s.peer = t.peer /\ s.total = t.total => s = t
    BY <1>1
  <2> QED  BY <1>1, <2>1 DEF Better
<1> QED  BY <1>2, <1>3, <1>4

Above(A, s) == {t \in A : Better(t, s)}
Top(A) == {s \in A : Cardinality(Above(A, s)) < TopN}
Heapable(A) == A \subseteq Heaped /\ IsFiniteSet(A)

LEMMA AboveIs ==
    ASSUME NEW A, Heapable(A)
    PROVE  /\ \A s : IsFiniteSet(Above(A, s)) /\ Cardinality(Above(A, s)) \in Nat
           /\ \A s \in Heaped : \A r \in A : Better(r, s) => Cardinality(Above(A, r)) < Cardinality(Above(A, s))
           /\ \A r \in A : \A s \in Heaped : Better(s, r) => Cardinality(Above(A, s)) <= Cardinality(Above(A, r))
           /\ Cardinality(A) \in Nat
           /\ \A r \in A : Cardinality(Above(A, r)) < Cardinality(A)
<1>1. A \subseteq Heaped /\ IsFiniteSet(A) /\ Cardinality(A) \in Nat
  BY FS_CardinalityType DEF Heapable
<1>2. ASSUME NEW s PROVE Above(A, s) \subseteq A /\ IsFiniteSet(Above(A, s)) /\ Cardinality(Above(A, s)) \in Nat
  BY <1>1, FS_Subset, FS_CardinalityType DEF Above
<1>3. ASSUME NEW s \in Heaped, NEW r \in A, Better(r, s) PROVE Cardinality(Above(A, r)) < Cardinality(Above(A, s))
  <2>1. Above(A, r) \subseteq Above(A, s)
    BY <1>1, <1>3, BetterIs DEF Above
  <2>2. r \in Above(A, s) /\ r \notin Above(A, r)
    BY <1>1, <1>3, BetterIs DEF Above
  <2>3. Above(A, r) # Above(A, s)
    BY <2>2
  <2>4. IsFiniteSet(Above(A, s)) /\ Cardinality(Above(A, s)) \in Nat /\ Cardinality(Above(A, r)) \in Nat
    BY <1>2
  <2> QED  BY <2>1, <2>3, <2>4, FS_Subset
<1>4. ASSUME NEW r \in A, NEW s \in Heaped, Better(s, r) PROVE Cardinality(Above(A, s)) <= Cardinality(Above(A, r))
  <2>1. Above(A, s) \subseteq Above(A, r)
    BY <1>1, <1>4, BetterIs DEF Above
  <2>2. IsFiniteSet(Above(A, r))
    BY <1>2
  <2> QED  BY <2>1, <2>2, FS_Subset
<1>5. ASSUME NEW r \in A PROVE Cardinality(Above(A, r)) < Cardinality(A)
  <2>1. Above(A, r) # A
    BY <1>1, BetterIs DEF Above
  <2> QED  BY <1>1, <1>2, <2>1, FS_Subset
<1>6. \A s : IsFiniteSet(Above(A, s)) /\ Cardinality(Above(A, s)) \in Nat
  BY <1>2
<1> QED  BY <1>1, <1>3, <1>4, <1>5, <1>6

\* The worst kept is the root.
LEMMA RootIs ==
    ASSUME NEW A, Heapable(A), A # {}
    PROVE  Root(A) \in A /\ \A t \in A : t = Root(A) \/ Better(t, Root(A))
<1> DEFINE O == {p \in A \X A : Better(p[2], p[1])}
<1>1. A \subseteq Heaped /\ IsFiniteSet(A)
  BY DEF Heapable
<1>2. \A a, b \in A : <<a, b>> \in O <=> Better(b, a)
  OBVIOUS
<1> HIDE DEF O
<1>3. \A a, b \in A : a = b \/ <<a, b>> \in O \/ <<b, a>> \in O
  BY <1>1, <1>2, BetterIs
<1>4. \A a, b, c \in A : <<a, b>> \in O /\ <<b, c>> \in O => <<a, c>> \in O
  BY <1>1, <1>2, BetterIs
<1>5. \E s \in A : \A t \in A : t = s \/ <<s, t>> \in O
  BY <1>1, <1>3, <1>4, Foremost
<1>6. \E s \in A : \A t \in A : t = s \/ Better(t, s)
  BY <1>2, <1>5
<1> QED  BY <1>6, Zenon DEF Root

\* As many are kept as there may be, or as there are.
LEMMA TopSize ==
    ASSUME NEW A, Heapable(A)
    PROVE  /\ Heapable(Top(A)) /\ Cardinality(Top(A)) \in Nat
           /\ Cardinality(Top(A)) < TopN => Top(A) = A
           /\ ~(Cardinality(Top(A)) < TopN) =>
                 /\ Top(A) # {} /\ Root(Top(A)) \in Top(A)
                 /\ \A t \in Top(A) : t = Root(Top(A)) \/ Better(t, Root(Top(A)))
                 /\ Cardinality(Above(A, Root(Top(A)))) = TopN - 1
<1> DEFINE H == Top(A)
           a(s) == Cardinality(Above(A, s))
<1>1. A \subseteq Heaped /\ IsFiniteSet(A) /\ TopN \in Nat \ {0}
  BY ReadsAssumption DEF Heapable
<1>2. H = {s \in A : a(s) < TopN}
  BY DEF Top
<1>3. /\ \A s : a(s) \in Nat
      /\ \A r, s \in A : Better(r, s) => a(r) < a(s)
  BY <1>1, AboveIs
<1>4. Heapable(H) /\ IsFiniteSet(H) /\ Cardinality(H) \in Nat
  BY <1>1, <1>2, FS_Subset, FS_CardinalityType DEF Heapable
<1> HIDE DEF H, a
<1>5. ASSUME Cardinality(H) < TopN PROVE H = A
  <2> SUFFICES ASSUME NEW y \in A, y \notin H PROVE FALSE
    BY <1>2
  <2> DEFINE O == {p \in (A \ H) \X (A \ H) : Better(p[1], p[2])}
  <2>0. \A u, v \in A \ H : <<u, v>> \in O <=> Better(u, v)
    OBVIOUS
  <2> HIDE DEF O
  <2>1. IsFiniteSet(A \ H)
    BY <1>1, FS_Difference
  <2>2. \A u, v \in A \ H : u = v \/ <<u, v>> \in O \/ <<v, u>> \in O
    BY <1>1, <2>0, BetterIs
  <2>3. \A u, v, w \in A \ H : <<u, v>> \in O /\ <<v, w>> \in O => <<u, w>> \in O
    BY <1>1, <2>0, BetterIs
  <2>4. \E x \in A \ H : \A e \in A \ H : e = x \/ <<x, e>> \in O
    BY <2>1, <2>2, <2>3, Foremost
  <2>5. PICK x \in A \ H : \A e \in A \ H : e = x \/ Better(x, e)
    BY <2>0, <2>4
  <2>6. Above(A, x) \subseteq H
    <3> SUFFICES ASSUME NEW e \in A \ H, Better(e, x) PROVE FALSE
      BY DEF Above
    <3>1. e = x \/ Better(x, e)
      BY <2>5
    <3>2. a(e) < a(x) /\ (Better(x, e) => a(x) < a(e)) /\ a(x) \in Nat /\ a(e) \in Nat
      BY <1>3
    <3> QED  BY <3>1, <3>2
  <2>7. a(x) <= Cardinality(H)
    BY <1>4, <2>6, FS_Subset DEF a
  <2>8. ~(a(x) < TopN) /\ a(x) \in Nat
    BY <1>2, <1>3
  <2> QED  BY <1>1, <1>4, <1>5, <2>7, <2>8
<1>6. ASSUME ~(Cardinality(H) < TopN)
      PROVE  /\ H # {} /\ Root(H) \in H /\ \A t \in H : t = Root(H) \/ Better(t, Root(H))
             /\ a(Root(H)) = TopN - 1
  <2>1. H # {}
    BY <1>1, <1>6, FS_EmptySet
  <2>2. Root(H) \in H /\ \A t \in H : t = Root(H) \/ Better(t, Root(H))
    BY <1>4, <2>1, RootIs
  <2> DEFINE r == Root(H)
  <2> HIDE DEF r
  <2>3. r \in H /\ \A t \in H : t = r \/ Better(t, r)
    BY <2>2 DEF r
  <2>4. r \in A /\ a(r) < TopN /\ a(r) \in Nat
    BY <1>2, <1>3, <2>3
  <2>5. H \ {r} \subseteq Above(A, r)
    BY <1>2, <2>3 DEF Above
  <2>6. Cardinality(H \ {r}) = Cardinality(H) - 1
    BY <1>4, <2>3, FS_RemoveElement
  <2>7. IsFiniteSet(Above(A, r))
    BY AboveIs
  <2>8. Cardinality(H \ {r}) <= a(r)
    BY <2>5, <2>7, FS_Subset DEF a
  <2>9. a(r) = TopN - 1
    BY <1>1, <1>4, <1>6, <2>4, <2>6, <2>8
  <2> QED  BY <2>1, <2>2, <2>9 DEF r
<1> QED  BY <1>4, <1>5, <1>6 DEF H, a

\* One more summary: the heap of the best is again the heap of the best.
LEMMA FlushKeepsTop ==
    ASSUME NEW A, Heapable(A), NEW s \in Heaped, s \notin A
    PROVE  Flush(Top(A), s) = Top(A \cup {s}) /\ Heapable(A \cup {s})
<1> DEFINE B == A \cup {s}
           H == Top(A)
           r == Root(H)
           a(x) == Cardinality(Above(A, x))
           b(x) == Cardinality(Above(B, x))
<1>1. A \subseteq Heaped /\ IsFiniteSet(A) /\ TopN \in Nat \ {0} /\ Heapable(B)
  BY ReadsAssumption, FS_AddElement DEF Heapable
<1>2. /\ \A x : a(x) \in Nat
      /\ \A x \in Heaped : \A y \in A : Better(y, x) => a(y) < a(x)
      /\ \A y \in A : \A x \in Heaped : Better(x, y) => a(x) <= a(y)
      /\ Cardinality(A) \in Nat /\ \A x \in A : a(x) < Cardinality(A)
  BY AboveIs
<1>3. ASSUME NEW x PROVE b(x) = IF Better(s, x) THEN a(x) + 1 ELSE a(x)
  <2>1. Above(B, x) = IF Better(s, x) THEN Above(A, x) \cup {s} ELSE Above(A, x)
    BY DEF Above
  <2>2. s \notin Above(A, x) /\ IsFiniteSet(Above(A, x))
    BY AboveIs DEF Above
  <2> QED  BY <2>1, <2>2, FS_AddElement
<1>4. ~Better(s, s) /\ b(s) = a(s)
  BY <1>3, BetterIs
<1>5. H = {x \in A : a(x) < TopN} /\ Top(B) = {x \in B : b(x) < TopN}
  BY DEF Top
<1>6. Flush(H, s) = IF Cardinality(H) < TopN THEN H \cup {s}
                    ELSE IF Better(s, r) THEN (H \ {r}) \cup {s} ELSE H
  BY Zenon DEF Flush
<1>7. /\ Cardinality(H) \in Nat /\ (Cardinality(H) < TopN => H = A)
      /\ ~(Cardinality(H) < TopN) =>
            /\ r \in H /\ \A t \in H : t = r \/ Better(t, r)
            /\ a(r) = TopN - 1
  BY TopSize
<1>8. \A x, y \in Heaped : (x = y \/ Better(x, y) \/ Better(y, x)) /\ ~(Better(x, y) /\ Better(y, x))
  BY BetterIs
<1>9. \A x, y, z \in Heaped : Better(x, y) /\ Better(y, z) => Better(x, z)
  BY BetterIs
<1> HIDE DEF H, r, a, b
<1>10. CASE Cardinality(H) < TopN
  <2>1. H = A
    BY <1>7, <1>10
  <2>2. ASSUME NEW x \in A PROVE b(x) < TopN
    <3>1. a(x) < Cardinality(A) /\ a(x) \in Nat /\ Cardinality(A) \in Nat /\ Cardinality(A) < TopN
      BY <1>2, <1>10, <2>1
    <3>2. b(x) = a(x) \/ b(x) = a(x) + 1
      BY <1>3
    <3> QED  BY <1>1, <3>1, <3>2
  <2>3. b(s) < TopN
    <3>1. Above(A, s) \subseteq A
      BY DEF Above
    <3>2. a(s) <= Cardinality(A)
      BY <1>1, <3>1, FS_Subset DEF a
    <3> QED  BY <1>1, <1>2, <1>4, <1>10, <2>1, <3>2
  <2> QED  BY <1>1, <1>5, <1>6, <1>10, <2>1, <2>2, <2>3 DEF H
<1>11. CASE ~(Cardinality(H) < TopN) /\ Better(s, r)
  <2>1. r \in A /\ r \in Heaped /\ a(r) = TopN - 1 /\ \A t \in H : t = r \/ Better(t, r)
    BY <1>1, <1>5, <1>7, <1>11
  <2>2. b(s) < TopN
    BY <1>1, <1>2, <1>4, <1>11, <2>1
  <2>3. b(r) = TopN
    BY <1>1, <1>3, <1>11, <2>1
  <2>4. ASSUME NEW x \in H, x # r PROVE b(x) < TopN
    <3>1. Better(x, r) /\ x \in A
      BY <1>5, <2>1, <2>4
    <3>2. a(x) < a(r) /\ a(x) \in Nat
      BY <1>2, <2>1, <3>1
    <3>3. b(x) = a(x) \/ b(x) = a(x) + 1
      BY <1>3
    <3> QED  BY <1>1, <2>1, <3>2, <3>3
  <2>5. ASSUME NEW x \in A, x \notin H PROVE ~(b(x) < TopN)
    <3>1. ~(a(x) < TopN) /\ a(x) \in Nat
      BY <1>2, <1>5, <2>5
    <3>2. b(x) = a(x) \/ b(x) = a(x) + 1
      BY <1>3
    <3> QED  BY <1>1, <3>1, <3>2
  <2>6. Top(B) = (H \ {r}) \cup {s}
    <3>1. ~(b(r) < TopN)
      BY <1>1, <2>3
    <3>2. H \subseteq A
      BY <1>5
    <3> QED  BY <1>5, <2>2, <2>4, <2>5, <3>1, <3>2
  <2> QED  BY <1>1, <1>6, <1>11, <2>6 DEF H
<1>12. CASE ~(Cardinality(H) < TopN) /\ ~Better(s, r)
  <2>1. r \in A /\ r \in Heaped /\ a(r) = TopN - 1 /\ \A t \in H : t = r \/ Better(t, r)
    BY <1>1, <1>5, <1>7, <1>12
  <2>2. Better(r, s)
    BY <1>8, <1>12, <2>1
  <2>3. ~(b(s) < TopN)
    BY <1>1, <1>2, <1>4, <2>1, <2>2
  <2>4. ASSUME NEW x \in H PROVE b(x) < TopN
    <3>1. x \in A /\ x \in Heaped /\ a(x) < TopN
      BY <1>1, <1>5
    <3>2. Better(x, s)
      BY <1>9, <2>1, <2>2, <3>1
    <3>3. ~Better(s, x)
      BY <1>8, <3>1, <3>2
    <3> QED  BY <1>3, <3>1, <3>3
  <2>5. ASSUME NEW x \in A, x \notin H PROVE ~(b(x) < TopN)
    <3>1. ~(a(x) < TopN) /\ a(x) \in Nat
      BY <1>2, <1>5, <2>5
    <3>2. b(x) = a(x) \/ b(x) = a(x) + 1
      BY <1>3
    <3> QED  BY <1>1, <3>1, <3>2
  <2>6. Top(B) = H
    <3>1. H \subseteq A
      BY <1>5
    <3> QED  BY <1>5, <2>3, <2>4, <2>5, <3>1
  <2> QED  BY <1>1, <1>6, <1>12, <2>6 DEF H
<1> QED  BY <1>10, <1>11, <1>12

LEMMA HeapRuns == StoreTypeOK => TopIsTop
<1> SUFFICES ASSUME StoreTypeOK PROVE TopIsTop
  OBVIOUS
<1> DEFINE N == Cardinality(Peers)
           All(p) == {Summary(q) : q \in Present \cap (1 .. p)}
           Fix(f) == f = [p \in 0 .. N |-> IF p = 0 THEN {}
                                           ELSE IF p \in Present THEN Flush(f[p - 1], Summary(p)) ELSE f[p - 1]]
           c == CHOOSE f : Fix(f)
           g == [p \in 0 .. N |-> Top(All(p))]
<1>1. N \in Nat /\ Peers = 1 .. N /\ Present \subseteq Peers
  BY ReadsAssumption, FS_CardinalityType DEF Present
<1>2. ASSUME NEW p \in Nat PROVE Heapable(All(p))
  <2> DEFINE Q == Present \cap (1 .. p)
             f == [q \in Q |-> Summary(q)]
  <2>0. IsFiniteSet(Present)
    BY <1>1, FS_Subset, ReadsAssumption
  <2>1. IsFiniteSet(Q)
    BY <2>0, FS_Subset
  <2>2. IsFiniteSet(All(p))
    <3>1. f \in Surjection(Q, All(p))
      BY DEF Surjection
    <3> QED  BY <2>1, <3>1, FS_Surjection
  <2>3. All(p) \subseteq Heaped
    BY <1>1, SummariesAre
  <2> QED  BY <2>2, <2>3 DEF Heapable
<1>3. Top(All(0)) = {}
  BY DEF Top
<1>4. ASSUME NEW p \in 1 .. N
      PROVE  Top(All(p)) = IF p \in Present THEN Flush(Top(All(p - 1)), Summary(p)) ELSE Top(All(p - 1))
  <2>1. CASE p \in Present
    <3>1. All(p) = All(p - 1) \cup {Summary(p)}
      <4>1. Present \cap (1 .. p) = (Present \cap (1 .. p - 1)) \cup {p}
        BY <2>1
      <4> QED  BY <4>1, Zenon
    <3>2. Summary(p) \notin All(p - 1)
      <4> SUFFICES ASSUME NEW q \in Present \cap (1 .. p - 1), Summary(q) = Summary(p) PROVE FALSE
        OBVIOUS
      <4>1. Summary(q).peer = q /\ Summary(p).peer = p
        BY <1>1, <2>1, SummariesAre
      <4> QED  BY <4>1
    <3>3. Summary(p) \in Heaped
      BY <1>1, <2>1, SummariesAre
    <3>4. Heapable(All(p - 1))
      BY <1>2
    <3> HIDE DEF All
    <3>5. Flush(Top(All(p - 1)), Summary(p)) = Top(All(p - 1) \cup {Summary(p)})
      BY <3>2, <3>3, <3>4, FlushKeepsTop
    <3> QED  BY <2>1, <3>1, <3>5
  <2>2. CASE p \notin Present
    <3>1. Present \cap (1 .. p) = Present \cap (1 .. p - 1)
      BY <2>2
    <3>2. All(p) = All(p - 1)
      BY <3>1
    <3> QED  BY <2>2, <3>2
  <2> QED  BY <2>1, <2>2
<1> DEFINE T(p) == Top(All(p))
<1>5. Top(All(N)) = {s \in {Summary(p) : p \in Present} :
                       Cardinality({t \in {Summary(p) : p \in Present} : Better(t, s)}) < TopN}
  <2>1. Present \cap (1 .. N) = Present
    BY <1>1
  <2>2. All(N) = {Summary(p) : p \in Present}
    BY <2>1
  <2> HIDE DEF All
  <2> QED  BY <2>2, Zenon DEF Top, Above
<1> HIDE DEF All
<1>6. Fix(g)
  <2>1. \A p \in 0 .. N : g[p] = IF p = 0 THEN {}
                                 ELSE IF p \in Present THEN Flush(g[p - 1], Summary(p)) ELSE g[p - 1]
    <3> SUFFICES ASSUME NEW p \in 0 .. N
                 PROVE  g[p] = IF p = 0 THEN {}
                               ELSE IF p \in Present THEN Flush(g[p - 1], Summary(p)) ELSE g[p - 1]
      OBVIOUS
    <3>1. CASE p = 0
      BY <1>3, <3>1
    <3>2. CASE p # 0
      <4>1. p \in 1 .. N /\ p - 1 \in 0 .. N
        BY <1>1, <3>2
      <4>2. g[p] = Top(All(p)) /\ g[p - 1] = Top(All(p - 1))
        BY <4>1
      <4> QED  BY <1>4, <3>2, <4>1, <4>2
    <3> QED  BY <3>1, <3>2
  <2>2. g = [p \in 0 .. N |-> g[p]]
    OBVIOUS
  <2> HIDE DEF g
  <2> QED  BY <2>1, <2>2
<1>7. Fix(c)
  BY <1>6
<1>8. TopCounterparties = c[N]
  BY Zenon DEF TopCounterparties
<1>9. \A p \in 0 .. N : c[p] = IF p = 0 THEN {}
                               ELSE IF p \in Present THEN Flush(c[p - 1], Summary(p)) ELSE c[p - 1]
  BY <1>7
<1> HIDE DEF c
<1> DEFINE S == {n \in Nat : n <= N => c[n] = Top(All(n))}
<1>10. 0 \in S
  BY <1>1, <1>3, <1>9
<1>11. ASSUME NEW n \in Nat, n \in S PROVE n + 1 \in S
  <2> SUFFICES ASSUME n + 1 <= N PROVE c[n + 1] = Top(All(n + 1))
    OBVIOUS
  <2>1. n + 1 \in 1 .. N /\ n + 1 \in 0 .. N /\ (n + 1) - 1 = n /\ n + 1 # 0
    BY <1>1
  <2>2. c[n] = Top(All(n))
    BY <1>1, <1>11
  <2>3. c[n + 1] = IF n + 1 \in Present THEN Flush(c[n], Summary(n + 1)) ELSE c[n]
    BY <1>9, <2>1
  <2>4. Top(All(n + 1)) = IF n + 1 \in Present THEN Flush(Top(All(n)), Summary(n + 1)) ELSE Top(All(n))
    BY <1>4, <2>1
  <2> QED  BY <2>2, <2>3, <2>4
<1>12. N \in S
  BY <1>1, <1>10, <1>11, SetInduction
<1>13. TopCounterparties = Top(All(N))
  BY <1>1, <1>8, <1>12
<1> QED  BY <1>5, <1>13, Zenon DEF TopIsTop

\* Whatever has been stored, the bounded heap returns the TopN largest counterparties,
\* ties by address.
THEOREM HeapAlwaysTop == Spec => []TopIsTop
<1>1. TypeOK => TopIsTop
  BY HeapRuns DEF TypeOK
<1> QED  BY <1>1, TypeCorrect, PTL
=============================================================================
