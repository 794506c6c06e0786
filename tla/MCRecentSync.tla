---------------------------- MODULE MCRecentSync ----------------------------
(***************************************************************************)
(* The instances of RecentSync that TLC checks: every constant but the     *)
(* chains and the requests is given in a configuration.                    *)
(***************************************************************************)
EXTENDS RecentSync

\* With a limit of 3 records: a chain whose first action is cut by the limit at
\* once, one whose second is cut when the chain grows, and one that comes in whole.
MCChains == { <<{1, 2, 3}, {2}>>, <<{1, 3}, {1, 2, 3}>> }

\* A trace's later start leaves, with the coverage of a block or two, a gap on each side.
MCRequests == { <<1, 0>>, <<2, 2>> }

\* Where the second action is the one that is cut, two jobs do.
SecondCutInTwoJobs == busy = <<{1, 3}, {1, 2, 3}>> => jobs' <= 2

OneChain == { <<{2, 3}, {4}>> }
TwoGapRequests == { <<2, 3>>, <<1, 0>> }
=============================================================================
