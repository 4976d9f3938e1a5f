-------------------------- MODULE OpenPullInventory --------------------------
(***************************************************************************)
(* What the open pull request inventory of a repository promises to its    *)
(* readers: it is the set of pull requests of one complete listing of      *)
(* GitHub, replaced as a whole by that of a later generation, and between  *)
(* two generations only a pull request that is being refreshed appears or  *)
(* disappears.  Rows under construction are never seen.                    *)
(*                                                                         *)
(* InventorySync implements it while one process at a time scans           *)
(* (InventorySync!Published).                                              *)
(***************************************************************************)
EXTENDS Integers

CONSTANTS PRs, Scanners

VARIABLES
  open,         \* the pull requests open at GitHub
  generation,   \* the generation readers see
  members,      \* its pull requests
  listings,     \* the listing of GitHub each scanner has made
  refreshing    \* the pull requests being refreshed one by one

vars == <<open, generation, members, listings, refreshing>>

NoListing == [made |-> FALSE, pulls |-> {}]

Init ==
  /\ open \in SUBSET PRs
  /\ \/ generation = 0 /\ members = {}
     \/ generation \in Nat \ {0} /\ members = open
  /\ listings = [w \in Scanners |-> NoListing]
  /\ refreshing = {}

\* GitHub moves on.
Change ==
  /\ open' \in SUBSET PRs
  /\ UNCHANGED <<generation, members, listings, refreshing>>

\* A scanner lists GitHub, starts over or gives up.
List(w) ==
  /\ listings' \in {[listings EXCEPT ![w] = l] :
                      l \in {NoListing, [made |-> TRUE, pulls |-> open]}}
  /\ UNCHANGED <<open, generation, members, refreshing>>

\* A scanner publishes what it listed, all of it and nothing else.
Publish(w) ==
  /\ listings[w].made
  /\ generation' \in Nat /\ generation' > generation
  /\ members' = listings[w].pulls
  /\ listings' = [listings EXCEPT ![w] = NoListing]
  /\ UNCHANGED <<open, refreshing>>

BeginRefresh ==
  /\ refreshing' \in SUBSET PRs
  /\ UNCHANGED <<open, generation, members, listings>>

\* The refresh of one pull request enters or removes it.
Amend(p) ==
  /\ p \in refreshing
  /\ members' \in {members \cup {p}, members \ {p}}
  /\ refreshing' = refreshing \ {p}
  /\ UNCHANGED <<open, generation, listings>>

Next ==
  \/ Change
  \/ BeginRefresh
  \/ \E w \in Scanners : List(w) \/ Publish(w)
  \/ \E p \in PRs : Amend(p)

Spec == Init /\ [][Next]_vars
=============================================================================
