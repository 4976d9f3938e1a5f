---------------------------- MODULE MCSearchIndex ----------------------------
(* One issue with one comment. *)
EXTENDS SearchIndex, TLC

CONSTANTS i1, c1
MCParent == [c \in {c1} |-> i1]
Symmetry == Permutations(Workers)
=============================================================================
