-------------------------- MODULE MCTargetedRefresh --------------------------
(* TargetedRefresh for TLC. *)
EXTENDS TargetedRefresh, TLC

Symmetry == Permutations(PRs) \cup Permutations(Servers)
=============================================================================
