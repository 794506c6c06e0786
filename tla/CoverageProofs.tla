--------------------------- MODULE CoverageProofs ---------------------------
(***************************************************************************)
(* What the range arithmetic of the synchroniser guarantees, for every     *)
(* pair of windows.                                                        *)
(***************************************************************************)
EXTENDS Coverage, TLAPS

Ranges == Int \X Int

LEMMA GapsType ==
    ASSUME NEW want \in Ranges, NEW have \in Ranges
    PROVE  Gaps(want, have) \subseteq Ranges
BY DEF Ranges, Gaps, Valid, Lesser, Greater

\* A window is made of what is claimed and of the gaps (coverageIntervals leaves
\* no block of the window unfetched).
THEOREM GapsCompleteWindow ==
    ASSUME NEW want \in Ranges, NEW have \in Ranges
    PROVE  want[1] .. want[2] \subseteq
               Claimed(have) \cup UNION {g[1] .. g[2] : g \in Gaps(want, have)}
<1> SUFFICES ASSUME NEW b \in want[1] .. want[2], b \notin Claimed(have)
             PROVE  \E g \in Gaps(want, have) : b \in g[1] .. g[2]
  OBVIOUS
<1> b \in Int /\ want[1] \in Int /\ want[2] \in Int /\ have[1] \in Int /\ have[2] \in Int
  BY DEF Ranges
<1>1. CASE ~Valid(have)
  BY <1>1 DEF Gaps
<1>2. CASE Valid(have) /\ b < have[1]
  <2>1. <<want[1], have[1] - 1>> \in Gaps(want, have)
    BY <1>2 DEF Gaps
  <2> QED  BY <2>1, <1>2
<1>3. CASE Valid(have) /\ b > have[2]
  <2>1. <<Greater(want[1], have[2] + 1), want[2]>> \in Gaps(want, have)
    BY <1>3 DEF Gaps
  <2>2. b \in Greater(want[1], have[2] + 1) .. want[2]
    BY <1>3 DEF Greater
  <2> QED  BY <2>1, <2>2
<1> QED  BY <1>1, <1>2, <1>3 DEF Claimed

\* A block of the window's side that lies before the start of a gap is claimed or
\* belongs to another gap.
LEMMA BeforeGap ==
    ASSUME NEW want \in Ranges, NEW have \in Ranges, NEW g \in Gaps(want, have),
           NEW b \in want[1] .. g[1] - 1
    PROVE  b \in Claimed(have) \/ \E h \in Gaps(want, have) : b \in h[1] .. h[2] /\ h[1] < g[1]
<1> b \in Int /\ want[1] \in Int /\ want[2] \in Int /\ have[1] \in Int /\ have[2] \in Int
  BY GapsType DEF Ranges
<1>1. CASE ~Valid(have)
  BY <1>1 DEF Gaps
<1>2. CASE Valid(have)
  <2>1. g = <<Greater(want[1], have[2] + 1), want[2]>>
    BY <1>2 DEF Gaps
  <2>2. b <= have[2]
    BY <2>1 DEF Greater
  <2>3. CASE b >= have[1]
    BY <2>2, <2>3, <1>2 DEF Claimed
  <2>4. CASE b < have[1]
    <3>1. <<want[1], have[1] - 1>> \in Gaps(want, have)
      BY <2>4, <1>2 DEF Gaps
    <3> QED  BY <3>1, <2>1, <2>4 DEF Greater
  <2> QED  BY <2>3, <2>4
<1> QED  BY <1>1, <1>2

\* The gaps lie one after the other, and none starts before the window.
LEMMA GapsOrdered ==
    ASSUME NEW want \in Ranges, NEW have \in Ranges,
           NEW g \in Gaps(want, have), NEW h \in Gaps(want, have)
    PROVE  /\ h[1] <= g[2] => h[2] <= g[2]
           /\ want[1] <= g[1]
BY DEF Gaps, Ranges, Valid, Greater

\* mergeCoverage claims nothing that was neither claimed nor in the window.
THEOREM MergeSound ==
    ASSUME NEW want \in Ranges, NEW have \in Ranges
    PROVE  Claimed(Merge(want, have)) \subseteq (want[1] .. want[2]) \cup Claimed(have)
BY DEF Ranges, Claimed, Merge, Valid, Lesser, Greater

\* It keeps the whole window, unless that is the zero pair a document reads as empty.
THEOREM MergeKeepsWindow ==
    ASSUME NEW want \in Ranges, NEW have \in Ranges, want[1] <= want[2], want # NoCoverage
    PROVE  Contains(Merge(want, have), want)
BY DEF Ranges, Contains, Merge, Valid, Lesser, Greater, NoCoverage

LEMMA MergeType ==
    ASSUME NEW want \in Ranges, NEW have \in Ranges
    PROVE  Merge(want, have) \in Ranges
BY DEF Ranges, Merge, Lesser, Greater
=============================================================================
