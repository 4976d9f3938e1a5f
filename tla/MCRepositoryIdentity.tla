------------------------- MODULE MCRepositoryIdentity -------------------------
(* The model values and bounds are those of the .cfg files.                *)
EXTENDS RepositoryIdentity, TLC

Symmetry == Permutations(Repos) \cup Permutations(Names)
=============================================================================
