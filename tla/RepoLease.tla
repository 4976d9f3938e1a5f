------------------------------ MODULE RepoLease ------------------------------
(***************************************************************************)
(* The lease manager of the change sync worker                             *)
(* (internal/githubsync/change_sync_leases.go): one lease, that is the     *)
(* columns <kind>_lease_owner_id, _heartbeat_at and _until of one row of   *)
(* repo_change_sync_states.  The four kinds (fetch, backfill,              *)
(* recent_pr_repair, full_history_repair) run the same code over disjoint  *)
(* columns, so one kind stands for each of them.  The fourth column,       *)
(* _started_at, is set and cleared with the owner and no lease decision    *)
(* reads it; InventorySync has it.                                         *)
(*                                                                         *)
(* An owner id names one start of one process (hostname:pid:nanoseconds):  *)
(* a process that dies never comes back, another member of Workers does.   *)
(* Every operation takes its `now` before its UPDATE statement, and other  *)
(* workers' statements may run in between: reading the clock and the       *)
(* statement are two steps here.                                           *)
(***************************************************************************)
EXTENDS Integers

CONSTANTS
  Workers,       \* owner ids
  NoOwner,       \* the empty owner id
  LeaseTTL,      \* leaseTTL
  MinInterval,   \* 200ms, the shortest heartbeat interval
  MaxInterval,   \* 10s, the longest heartbeat interval
  MinStale,      \* 1s, the shortest staleAfter
  MaxClock       \* bound: time stops here

ASSUME LeaseTTLAssumption == LeaseTTL \in Nat \ {0}
ASSUME IntervalAssumption ==
  /\ MinInterval \in Nat /\ MaxInterval \in Nat /\ MinInterval <= MaxInterval
  /\ MinStale \in Nat \ {0}
ASSUME OwnerAssumption == NoOwner \notin Workers
ASSUME ClockAssumption == MaxClock \in Nat

VARIABLES
  lease,   \* the row's columns
  clock,   \* real time, which all processes and the database share
  phase,   \* where each worker is in its pass
  at,      \* the `now` a worker has read for the statement it is about to run
  beat     \* history: the time of the last heartbeat (or the acquisition) that
           \* succeeded in the worker's current pass

vars == <<lease, clock, phase, at, beat>>

NoTime == -1   \* SQL NULL, Go nil
Times == Nat \cup {NoTime}

Phases ==
  { "new",         \* the process has not started
    "recovering",  \* Start: about to clear stale leases
    "idle",
    "acquiring",   \* has read `now`, about to run the acquiring UPDATE
    "running",     \* inside the pass, heartbeats going out
    "cancelled",   \* a heartbeat failed and cancelled the pass context
    "ended",       \* the pass returned without error, the lease is to be released
    "failed",      \* the pass returned an error, the lease is to be released
    "down" }       \* the process is gone

\* Phases in which the worker takes the lease to be its own.
Holding == {"running", "cancelled", "ended", "failed"}

-----------------------------------------------------------------------------
(* Durations *)

\* changeSyncHeartbeatInterval
HeartbeatInterval(ttl) ==
  IF ttl <= 0 THEN MaxInterval
  ELSE IF ttl \div 6 > MaxInterval THEN MaxInterval
  ELSE IF ttl \div 6 < MinInterval THEN MinInterval
  ELSE ttl \div 6

\* staleAfter of newRepoLeaseManager, and the same expression in leaseIsActive
StaleAfter(ttl) ==
  IF 3 * HeartbeatInterval(ttl) > MinStale THEN 3 * HeartbeatInterval(ttl) ELSE MinStale

\* How long a holder may stay silent before somebody else can take its lease.
Patience == IF LeaseTTL < StaleAfter(LeaseTTL) THEN LeaseTTL ELSE StaleAfter(LeaseTTL)

-----------------------------------------------------------------------------
(* The lease columns and the two ways the code asks whether they are taken *)

FreeLease == [owner |-> NoOwner, heartbeat |-> NoTime, until |-> NoTime]

HeldLease(w, now) == [owner |-> w, heartbeat |-> now, until |-> now + LeaseTTL]

\* The WHERE clause of acquire and of every picker
Reclaimable(now) ==
  \/ lease.until = NoTime
  \/ lease.until <= now
  \/ lease.heartbeat = NoTime
  \/ lease.heartbeat <= now - StaleAfter(LeaseTTL)

\* The WHERE clause of recoverStale
Stale(now) ==
  /\ lease.until # NoTime
  /\ \/ lease.until <= now
     \/ lease.heartbeat = NoTime
     \/ lease.heartbeat <= now - StaleAfter(LeaseTTL)

\* Mutant of LeaseIsActive: one boundary is off by one.
LeaseIsActiveAtItsEnd(now) ==
  /\ lease.until # NoTime
  /\ lease.until >= now
  /\ lease.heartbeat # NoTime
  /\ lease.until - lease.heartbeat > 0
  /\ lease.heartbeat + StaleAfter(lease.until - lease.heartbeat) >= now

\* leaseIsActive: the Go test, which derives the lease time from the row
LeaseIsActive(now) ==
  /\ lease.until # NoTime
  /\ lease.until > now
  /\ lease.heartbeat # NoTime
  /\ lease.until - lease.heartbeat > 0
  /\ lease.heartbeat + StaleAfter(lease.until - lease.heartbeat) > now

-----------------------------------------------------------------------------
Init ==
  /\ lease = FreeLease
  /\ clock = 0
  /\ phase = [w \in Workers |-> "new"]
  /\ at = [w \in Workers |-> NoTime]
  /\ beat = [w \in Workers |-> NoTime]

Move(w, from, to) ==
  /\ phase[w] = from
  /\ phase' = [phase EXCEPT ![w] = to]

ReadClock(w) == at' = [at EXCEPT ![w] = clock]
DropClock(w) == at' = [at EXCEPT ![w] = NoTime]

\* A process starts: ChangeSyncWorker.Start calls recoverStale, which first
\* reads the clock.
Start(w) ==
  /\ Move(w, "new", "recovering")
  /\ ReadClock(w)
  /\ UNCHANGED <<lease, clock, beat>>

\* An operator's `refresh inventory` process, which recovers nothing.
StartRefreshNow(w) ==
  /\ Move(w, "new", "idle")
  /\ UNCHANGED <<lease, clock, at, beat>>

RecoverStale(w) ==
  /\ Move(w, "recovering", "idle")
  /\ lease' = IF Stale(at[w]) THEN FreeLease ELSE lease
  /\ DropClock(w)
  /\ UNCHANGED <<clock, beat>>

BeginAcquire(w) ==
  /\ Move(w, "idle", "acquiring")
  /\ ReadClock(w)
  /\ UNCHANGED <<lease, clock, beat>>

\* Mutant of Acquire: the UPDATE is not conditional.
AcquireAnyLease(w) ==
  /\ Move(w, "acquiring", "running")
  /\ lease' = HeldLease(w, at[w])
  /\ beat' = [beat EXCEPT ![w] = at[w]]
  /\ DropClock(w)
  /\ UNCHANGED clock

\* The worker's lease: one conditional UPDATE.
Acquire(w) ==
  /\ Reclaimable(at[w])
  /\ Move(w, "acquiring", "running")
  /\ lease' = HeldLease(w, at[w])
  /\ beat' = [beat EXCEPT ![w] = at[w]]
  /\ DropClock(w)
  /\ UNCHANGED clock

AcquireMisses(w) ==
  /\ ~Reclaimable(at[w])
  /\ Move(w, "acquiring", "idle")
  /\ DropClock(w)
  /\ UNCHANGED <<lease, clock, beat>>

\* RefreshOpenPullInventoryNow takes the fetch lease in a transaction that locks
\* the row, asks leaseIsActive and writes the columns unconditionally.
AcquireRefreshNow(w) ==
  /\ ~LeaseIsActive(at[w])
  /\ Move(w, "acquiring", "running")
  /\ lease' = HeldLease(w, at[w])
  /\ beat' = [beat EXCEPT ![w] = at[w]]
  /\ DropClock(w)
  /\ UNCHANGED clock

RefreshNowBlocked(w) ==
  /\ LeaseIsActive(at[w])
  /\ Move(w, "acquiring", "down")
  /\ DropClock(w)
  /\ UNCHANGED <<lease, clock, beat>>

\* The heartbeat goroutine's ticker fires; at most one heartbeat is in flight.
SendHeartbeat(w) ==
  /\ phase[w] = "running"
  /\ at[w] = NoTime
  /\ ReadClock(w)
  /\ UNCHANGED <<lease, clock, phase, beat>>

\* UPDATE ... WHERE owner = me found the row.
HeartbeatLands(w) ==
  /\ phase[w] = "running"
  /\ at[w] # NoTime
  /\ lease.owner = w
  /\ lease' = [lease EXCEPT !.heartbeat = at[w], !.until = at[w] + LeaseTTL]
  /\ beat' = [beat EXCEPT ![w] = at[w]]
  /\ DropClock(w)
  /\ UNCHANGED <<clock, phase>>

\* Mutant of HeartbeatRejected: the pass goes on.
HeartbeatRejectionIgnored(w) ==
  /\ phase[w] = "running"
  /\ at[w] # NoTime
  /\ lease.owner # w
  /\ DropClock(w)
  /\ UNCHANGED <<lease, clock, phase, beat>>

\* It matched no row: the lease is somebody else's, the pass is cancelled.
HeartbeatRejected(w) ==
  /\ at[w] # NoTime
  /\ lease.owner # w
  /\ Move(w, "running", "cancelled")
  /\ DropClock(w)
  /\ UNCHANGED <<lease, clock, beat>>

\* The statement failed: the pass is cancelled although the lease may still be its own.
HeartbeatErrors(w) ==
  /\ at[w] # NoTime
  /\ Move(w, "running", "cancelled")
  /\ DropClock(w)
  /\ UNCHANGED <<lease, clock, beat>>

\* fn returns. The heartbeat still in flight is cancelled with the pass context
\* and its transaction rolled back.
PassSucceeds(w) ==
  /\ Move(w, "running", "ended")
  /\ DropClock(w)
  /\ UNCHANGED <<lease, clock, beat>>

PassFails(w) ==
  /\ Move(w, "running", "failed")
  /\ DropClock(w)
  /\ UNCHANGED <<lease, clock, beat>>

PassStopsCancelled(w) ==
  /\ Move(w, "cancelled", "failed")
  /\ UNCHANGED <<lease, clock, at, beat>>

\* Mutant of Release: whoever holds the lease loses it.
ReleaseAnyLease(w) ==
  /\ \/ Move(w, "ended", "idle")
     \/ Move(w, "failed", "down")
  /\ lease' = FreeLease
  /\ beat' = [beat EXCEPT ![w] = NoTime]
  /\ UNCHANGED <<clock, at>>

\* release: UPDATE ... WHERE owner = me. Finding no row is only logged. A pass that
\* failed makes RunOnce return its error, which ends the process.
Release(w) ==
  /\ \/ Move(w, "ended", "idle")
     \/ Move(w, "failed", "down")
  /\ lease' = IF lease.owner = w THEN FreeLease ELSE lease
  /\ beat' = [beat EXCEPT ![w] = NoTime]
  /\ UNCHANGED <<clock, at>>

\* The process dies, or a statement's error makes RunOnce return.
Crash(w) ==
  /\ phase[w] \notin {"new", "down"}
  /\ phase' = [phase EXCEPT ![w] = "down"]
  /\ beat' = [beat EXCEPT ![w] = NoTime]
  /\ DropClock(w)
  /\ UNCHANGED <<lease, clock>>

Tick ==
  /\ clock < MaxClock
  /\ clock' = clock + 1
  /\ UNCHANGED <<lease, phase, at, beat>>

Step(w) ==
  \/ Start(w) \/ StartRefreshNow(w) \/ RecoverStale(w)
  \/ BeginAcquire(w) \/ Acquire(w) \/ AcquireMisses(w)
  \/ AcquireRefreshNow(w) \/ RefreshNowBlocked(w)
  \/ SendHeartbeat(w) \/ HeartbeatLands(w) \/ HeartbeatRejected(w) \/ HeartbeatErrors(w)
  \/ PassSucceeds(w) \/ PassFails(w) \/ PassStopsCancelled(w)
  \/ Release(w) \/ Crash(w)

Next == Tick \/ \E w \in Workers : Step(w)

Spec == Init /\ [][Next]_vars

(***************************************************************************)
(* The heartbeat ticker fires and its statements come back; a pass whose   *)
(* context is cancelled returns, because every call it makes takes that    *)
(* context.  Nothing else is assumed: a pass may run for ever.             *)
(***************************************************************************)
FairSpec ==
  /\ Spec
  /\ \A w \in Workers :
       /\ WF_vars(SendHeartbeat(w))
       /\ WF_vars(HeartbeatRejected(w))
       /\ WF_vars(PassStopsCancelled(w))

-----------------------------------------------------------------------------
(* Properties *)

TypeOK ==
  /\ lease \in [owner : Workers \cup {NoOwner}, heartbeat : Times, until : Times]
  /\ clock \in Nat
  /\ phase \in [Workers -> Phases]
  /\ at \in [Workers -> Times]
  /\ beat \in [Workers -> Times]

\* A worker whose last successful heartbeat is younger than Patience.
Confirmed(w) == phase[w] \in Holding /\ clock < beat[w] + Patience

\* Two workers never run a pass of the same kind over the same repository while
\* both have had a heartbeat accepted within Patience: what "one repo inventory
\* scan at a time per repo" amounts to in runWithLeaseHeartbeat.
OneConfirmedHolder ==
  \A v, w \in Workers : Confirmed(v) /\ Confirmed(w) => v = w

\* The Go test and the SQL test of an active lease never disagree, whatever `now`
\* a caller brings: the operator's refresh (leaseIsActive) and the worker
\* (reclaimableSQL) cannot both believe that they may take the lease from the other.
TestsAgree == \A now \in 0..clock : LeaseIsActive(now) <=> ~Reclaimable(now)

\* A pass that has lost its lease to another worker does not run for ever: the
\* next heartbeat matches no row and cancels it (or the pass ends by itself).
LostPassStops ==
  \A w \in Workers :
    (phase[w] = "running" /\ lease.owner # w) ~> (phase[w] # "running")

\* The lease is taken from its holder only after Patience of silence, and a worker
\* that lost it neither renews nor releases what is now another's.
Abstract == INSTANCE LeaseContract WITH
  Nobody <- NoOwner,
  holder <- lease.owner,
  seen <- IF lease.heartbeat = NoTime THEN 0 ELSE lease.heartbeat,
  now <- clock,
  claims <- {w \in Workers : phase[w] \in Holding}

Contract == Abstract!Spec

(***************************************************************************)
(* The inductive invariant behind the two safety properties and the        *)
(* refinement (RepoLease_proofs).  TypeOK alone is not enough: a worker    *)
(* that is about to run a statement has read the clock; nobody's record    *)
(* of time is in the future; the two time columns move together; and, the  *)
(* heart of it, a worker in a pass either owns the lease, which then shows *)
(* its last heartbeat, or has been silent for Patience.                    *)
(***************************************************************************)
ClocksOK ==
  \A w \in Workers :
    /\ at[w] <= clock
    /\ phase[w] \in {"recovering", "acquiring"} => at[w] # NoTime
    /\ phase[w] \in Holding => beat[w] # NoTime /\ beat[w] <= clock
    /\ phase[w] = "running" /\ at[w] # NoTime => beat[w] <= at[w]

ColumnsOK ==
  \/ lease = FreeLease
  \/ /\ lease.owner # NoOwner
     /\ lease.heartbeat # NoTime /\ lease.heartbeat <= clock
     /\ lease.until = lease.heartbeat + LeaseTTL

HoldersOK ==
  \A w \in Workers : phase[w] \in Holding =>
    IF lease.owner = w THEN lease.heartbeat = beat[w] ELSE clock >= beat[w] + Patience

IInv == TypeOK /\ ClocksOK /\ ColumnsOK /\ HoldersOK
=============================================================================
