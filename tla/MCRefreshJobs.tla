---------------------------- MODULE MCRefreshJobs ----------------------------
(* RefreshJobs for TLC. *)
EXTENDS RefreshJobs
=============================================================================
