----------------------------- MODULE MCSyncJobs -----------------------------
(***************************************************************************)
(* The instances of SyncJobs that TLC checks: every constant is given in a *)
(* configuration.                                                          *)
(***************************************************************************)
EXTENDS SyncJobs
=============================================================================
