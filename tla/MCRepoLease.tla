----------------------------- MODULE MCRepoLease -----------------------------
(* RepoLease for TLC: two workers, so one takes over from the other. *)
EXTENDS RepoLease
=============================================================================
