------------------------------ MODULE Coverage ------------------------------
(***************************************************************************)
(* The block-range arithmetic of the synchroniser (syncer/manager.go) and  *)
(* of the address document (store/models.go).  A coverage is the pair      *)
(* <<from, to>> the address document keeps for one explorer action; the    *)
(* zero pair, which is what a missing field reads as, means "nothing".     *)
(***************************************************************************)
EXTENDS Integers

Lesser(a, b)  == IF a <= b THEN a ELSE b
Greater(a, b) == IF a >= b THEN a ELSE b

NoCoverage == <<0, 0>>

\* validCoverage: a pair says something when it is ordered and not the zero pair.
Valid(r) == r[2] >= r[1] /\ (r[1] # 0 \/ r[2] # 0)

\* The blocks an address document claims with a stored pair.
Claimed(r) == IF Valid(r) THEN r[1] .. r[2] ELSE {}

\* coverageContains
Contains(have, want) == Valid(have) /\ have[1] <= want[1] /\ have[2] >= want[2]

\* Mutant of Gaps: the upper gap starts one block late.
GapsSkippingBlock(want, have) ==
    IF ~Valid(have)
    THEN {want}
    ELSE  (IF want[1] < have[1] THEN {<<want[1], have[1] - 1>>} ELSE {})
    \cup (IF want[2] > have[2] + 1 THEN {<<Greater(want[1], have[2] + 2), want[2]>>} ELSE {})

\* coverageIntervals: the (at most two) ranges still to fetch.  The code lists
\* them lowest first; as a set their order is that of their first blocks.
Gaps(want, have) ==
    IF ~Valid(have)
    THEN {want}
    ELSE  (IF want[1] < have[1] THEN {<<want[1], have[1] - 1>>} ELSE {})
    \cup (IF want[2] > have[2] THEN {<<Greater(want[1], have[2] + 1), want[2]>>} ELSE {})

\* mergeCoverage: what is kept after want has been fetched.  A range that
\* neither meets nor touches the old one REPLACES it.
Merge(want, have) ==
    IF ~Valid(have) \/ want[2] + 1 < have[1] \/ have[2] + 1 < want[1]
    THEN want
    ELSE <<Lesser(want[1], have[1]), Greater(want[2], have[2])>>

\* CommonCoverage: the latest first block and the earliest last block of the
\* ranges that the function c gives to the explorer actions.
Common(c) ==
    << CHOOSE from \in {c[x][1] : x \in DOMAIN c} : \A x \in DOMAIN c : c[x][1] <= from,
       CHOOSE to \in {c[x][2] : x \in DOMAIN c} : \A x \in DOMAIN c : c[x][2] >= to >>
=============================================================================
