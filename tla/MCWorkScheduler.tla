--------------------------- MODULE MCWorkScheduler ---------------------------
(* Instances of WorkScheduler for TLC; the symmetry is for safety only.    *)
EXTENDS WorkScheduler, TLC

CONSTANTS p1, p2, i1

FirstPulls == <<p1, p2>>
FirstIssues == <<p1, p2, i1>>
OnlyPulls == <<p1, p2>>
Symmetry == Permutations(Workers)
=============================================================================
