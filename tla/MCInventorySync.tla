--------------------------- MODULE MCInventorySync ---------------------------
(* InventorySync for TLC. The symmetry and the view are for safety properties only. *)
EXTENDS InventorySync, TLC

Symmetry == Permutations(PRs) \cup Permutations(Servers) \cup Permutations(Deliveries)
\* A reading of the clock is compared with the start of a scan under way and with no
\* other, and a process that is gone starts none: states that differ only in what
\* readings say of such processes go on alike.
Scanning == {w \in Scanners : scan[w].pc \notin {"new", "idle", "down"}}
Living ==
  <<github, snap, inv, [state EXCEPT !.since = @ \cap Scanning], lease, wanted,
    [e \in Deliveries |-> [events[e] EXCEPT !.seen = @ \cap Scanning]],
    [proc EXCEPT !.seen = @ \cap Scanning], scan, refresh, started \cap Scanning,
    [givenUp EXCEPT !.since = @ \cap Scanning]>>
=============================================================================
