---------------------------- MODULE LeaseContract ----------------------------
(***************************************************************************)
(* What one lease of a repository promises to the workers of ghreplica,    *)
(* without its columns, its SQL or its heartbeats' mechanics: a lease has  *)
(* at most one holder; it changes hands only when the holder gives it up   *)
(* itself or has not been heard of for Patience; a worker that no longer   *)
(* holds it cannot disturb whoever does.                                   *)
(*                                                                         *)
(* RepoLease implements this contract (RepoLease!Contract).                *)
(***************************************************************************)
EXTENDS Integers

CONSTANTS
  Workers,   \* owner ids, one per process start
  Nobody,    \* the holder of a lease nobody holds
  Patience   \* how long a silent holder keeps its lease

VARIABLES
  holder,    \* the worker recorded as holding the lease, or Nobody
  seen,      \* the time of the holder's last sign of life
  now,       \* real time
  claims     \* the workers that act as if they held the lease

vars == <<holder, seen, now, claims>>

Silent == now - seen >= Patience

Init ==
  /\ holder = Nobody
  /\ seen = 0
  /\ now = 0
  /\ claims = {}

\* The lease goes to w: it was free, or its holder has been silent too long.
Grant(w) ==
  /\ w \notin claims
  /\ holder = Nobody \/ Silent
  /\ holder' = w
  /\ seen' \in Nat /\ seen' <= now
  /\ claims' = claims \cup {w}
  /\ UNCHANGED now

\* The holder shows a sign of life; signs of life never run backwards.
Renew(w) ==
  /\ holder = w
  /\ w \in claims
  /\ seen' \in Nat /\ seen <= seen' /\ seen' <= now
  /\ UNCHANGED <<holder, now, claims>>

\* w is done. Whoever holds the lease by now keeps it, unless that is w.
Yield(w) ==
  /\ w \in claims
  /\ claims' = claims \ {w}
  /\ \/ holder = w /\ holder' = Nobody /\ seen' = 0
     \/ holder # w /\ UNCHANGED <<holder, seen>>
  /\ UNCHANGED now

\* w dies and leaves the lease as it is.
Die(w) ==
  /\ w \in claims
  /\ claims' = claims \ {w}
  /\ UNCHANGED <<holder, seen, now>>

\* Recovery takes the lease from a holder that has been silent too long.
Evict ==
  /\ holder # Nobody
  /\ Silent
  /\ holder' = Nobody
  /\ seen' = 0
  /\ UNCHANGED <<now, claims>>

Elapse ==
  /\ now' = now + 1
  /\ UNCHANGED <<holder, seen, claims>>

Next ==
  \/ \E w \in Workers : Grant(w) \/ Renew(w) \/ Yield(w) \/ Die(w)
  \/ Evict
  \/ Elapse

Spec == Init /\ [][Next]_vars
=============================================================================
