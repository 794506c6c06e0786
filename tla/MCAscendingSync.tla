--------------------------- MODULE MCAscendingSync ---------------------------
(***************************************************************************)
(* The instances of AscendingSync that TLC checks: every constant is given *)
(* in a configuration, and addresses are model values.                     *)
(***************************************************************************)
EXTENDS AscendingSync

\* The head grows when a job that follows it asks for it; once it has grown, the other
\* job follows it too, from the first block.
GrowsForFollowers ==
    /\ head' # head => jobs[job].end = 0
    /\ Len(jobs') > Len(jobs) /\ Len(jobs) = 1 /\ head = MaxBlock => jobs'[2].start = 1 /\ jobs'[2].end = 0
=============================================================================
