--------------------------- MODULE RepoLease_proofs ---------------------------
(***************************************************************************)
(* RepoLease for every set of workers, every lease time and every interval *)
(* bound: its types, the mutual exclusion it gives to passes whose         *)
(* heartbeats are accepted, the agreement of its two lease tests, and that *)
(* it implements LeaseContract.                                            *)
(***************************************************************************)
EXTENDS RepoLease, TLAPS

USE DEF NoTime, Times

(***************************************************************************)
(* Durations are positive, and the interval of a positive lease time lies  *)
(* between the bounds.                                                     *)
(***************************************************************************)
LEMMA DurationsOK ==
  ASSUME NEW ttl \in Int
  PROVE  /\ HeartbeatInterval(ttl) \in Nat
         /\ StaleAfter(ttl) \in Nat \ {0}
<1>1. HeartbeatInterval(ttl) \in Nat
  <2>1. CASE ttl <= 0
    BY <2>1, IntervalAssumption DEF HeartbeatInterval
  <2>2. CASE ttl > 0
    <3>1. ttl \div 6 \in Nat
      BY <2>2
    <3>2. QED
      BY <2>2, <3>1, IntervalAssumption DEF HeartbeatInterval
  <2>3. QED
    BY <2>1, <2>2
<1>2. QED
  BY <1>1, IntervalAssumption DEF StaleAfter

LEMMA PatienceOK == Patience \in Nat \ {0}
BY DurationsOK, LeaseTTLAssumption DEF Patience

(***************************************************************************)
(* The WHERE clause of an acquisition that finds the lease held says that  *)
(* its holder has been silent for Patience; so does the one of the         *)
(* recovery, and the Go test agrees with them on every lease the code      *)
(* writes.                                                                 *)
(***************************************************************************)
LEMMA HeldDurations ==
  ASSUME IInv, lease # FreeLease
  PROVE  /\ lease.owner \in Workers
         /\ lease.heartbeat \in Nat /\ lease.heartbeat <= clock
         /\ lease.until = lease.heartbeat + LeaseTTL
         /\ lease.until \in Nat
         /\ clock \in Nat
         /\ LeaseTTL \in Nat \ {0} /\ Patience \in Nat \ {0}
         /\ StaleAfter(LeaseTTL) \in Nat \ {0}
         /\ Patience <= LeaseTTL /\ Patience <= StaleAfter(LeaseTTL)
<1>1. /\ lease.owner \in Workers /\ lease.heartbeat \in Nat /\ lease.heartbeat <= clock
      /\ lease.until = lease.heartbeat + LeaseTTL /\ lease.until \in Nat /\ clock \in Nat
  BY LeaseTTLAssumption DEF IInv, TypeOK, ColumnsOK
<1>2. StaleAfter(LeaseTTL) \in Nat \ {0}
  BY DurationsOK, LeaseTTLAssumption
<1>3. Patience <= LeaseTTL /\ Patience <= StaleAfter(LeaseTTL)
  BY <1>2, LeaseTTLAssumption DEF Patience
<1>4. QED
  BY <1>1, <1>2, <1>3, PatienceOK, LeaseTTLAssumption

LEMMA TakenIsSilent ==
  ASSUME IInv, lease # FreeLease, NEW now \in Nat, now <= clock,
         Reclaimable(now) \/ Stale(now)
  PROVE  clock >= lease.heartbeat + Patience
BY HeldDurations DEF Reclaimable, Stale

LEMMA GoTestIsSqlTest ==
  ASSUME IInv, NEW now \in Nat
  PROVE  LeaseIsActive(now) <=> ~Reclaimable(now)
<1>1. CASE lease = FreeLease
  BY <1>1 DEF LeaseIsActive, Reclaimable, FreeLease
<1>2. CASE lease # FreeLease
  <2>1. lease.until - lease.heartbeat = LeaseTTL
    BY <1>2, HeldDurations
  <2>2. LeaseIsActive(now) <=> /\ lease.until > now
                               /\ lease.heartbeat + StaleAfter(LeaseTTL) > now
    BY <1>2, <2>1, HeldDurations DEF LeaseIsActive
  <2>3. Reclaimable(now) <=> \/ lease.until <= now
                             \/ lease.heartbeat <= now - StaleAfter(LeaseTTL)
    BY <1>2, HeldDurations DEF Reclaimable
  <2>4. QED
    BY <1>2, <2>2, <2>3, HeldDurations
<1>3. QED
  BY <1>1, <1>2

(***************************************************************************)
(* The inductive invariant, one lemma for each group of actions.           *)
(***************************************************************************)
LEMMA InitIInv == Init => IInv
BY DEF Init, IInv, TypeOK, ClocksOK, ColumnsOK, HoldersOK, FreeLease, Phases, Holding

\* Reading the clock, and a heartbeat that changes nothing.
LEMMA QuietStep ==
  ASSUME IInv, NEW w \in Workers,
         \/ Start(w) \/ StartRefreshNow(w) \/ BeginAcquire(w)
         \/ AcquireMisses(w) \/ RefreshNowBlocked(w) \/ SendHeartbeat(w)
         \/ HeartbeatRejected(w) \/ HeartbeatErrors(w)
         \/ PassSucceeds(w) \/ PassFails(w) \/ PassStopsCancelled(w)
  PROVE  IInv'
<1> USE DEF IInv, Move, ReadClock, DropClock
<1>0. lease' = lease /\ clock' = clock /\ beat' = beat
  BY DEF Start, StartRefreshNow, BeginAcquire, AcquireMisses, RefreshNowBlocked, SendHeartbeat,
         HeartbeatRejected, HeartbeatErrors, PassSucceeds, PassFails, PassStopsCancelled
<1>1. \/ at' = [at EXCEPT ![w] = clock]
      \/ at' = [at EXCEPT ![w] = NoTime]
      \/ at' = at
  BY DEF Start, StartRefreshNow, BeginAcquire, AcquireMisses, RefreshNowBlocked, SendHeartbeat,
         HeartbeatRejected, HeartbeatErrors, PassSucceeds, PassFails, PassStopsCancelled
<1>2. TypeOK'
  <2>1. phase' \in [Workers -> Phases]
    BY DEF Start, StartRefreshNow, BeginAcquire, AcquireMisses, RefreshNowBlocked, SendHeartbeat,
           HeartbeatRejected, HeartbeatErrors, PassSucceeds, PassFails, PassStopsCancelled,
           TypeOK, Phases
  <2>2. QED
    BY <1>0, <1>1, <2>1 DEF TypeOK
<1>3. ClocksOK'
  BY <1>0, <1>2
     DEF Start, StartRefreshNow, BeginAcquire, AcquireMisses, RefreshNowBlocked, SendHeartbeat,
         HeartbeatRejected, HeartbeatErrors, PassSucceeds, PassFails, PassStopsCancelled,
         TypeOK, ClocksOK, Phases, Holding
<1>4. ColumnsOK'
  BY <1>0 DEF ColumnsOK, FreeLease
<1>5. HoldersOK'
  BY <1>0
     DEF Start, StartRefreshNow, BeginAcquire, AcquireMisses, RefreshNowBlocked, SendHeartbeat,
         HeartbeatRejected, HeartbeatErrors, PassSucceeds, PassFails, PassStopsCancelled,
         TypeOK, HoldersOK, Phases, Holding
<1>6. QED
  BY <1>2, <1>3, <1>4, <1>5

\* An acquisition, by the worker's UPDATE or by the operator's refresh.
LEMMA AcquireStep ==
  ASSUME IInv, NEW w \in Workers, Acquire(w) \/ AcquireRefreshNow(w)
  PROVE  IInv'
<1> USE DEF Move, DropClock
<1>1. /\ at[w] \in Nat /\ at[w] <= clock
      /\ phase[w] = "acquiring"
      /\ Reclaimable(at[w])
  <2>1. at[w] \in Nat /\ at[w] <= clock /\ phase[w] = "acquiring"
    BY DEF Acquire, AcquireRefreshNow, IInv, TypeOK, ClocksOK
  <2>2. QED
    BY <2>1, GoTestIsSqlTest DEF Acquire, AcquireRefreshNow
<1>2. /\ lease' = HeldLease(w, at[w])
      /\ clock' = clock
      /\ phase' = [phase EXCEPT ![w] = "running"]
      /\ beat' = [beat EXCEPT ![w] = at[w]]
      /\ at' = [at EXCEPT ![w] = NoTime]
  BY DEF Acquire, AcquireRefreshNow
<1>3. TypeOK'
  BY <1>1, <1>2, LeaseTTLAssumption DEF IInv, TypeOK, HeldLease, Phases
<1>4. ClocksOK'
  BY <1>1, <1>2 DEF IInv, TypeOK, ClocksOK, Holding
<1>5. ColumnsOK'
  BY <1>1, <1>2, OwnerAssumption DEF ColumnsOK, HeldLease
<1>6. ASSUME NEW v \in Workers, v # w, phase[v] \in Holding
      PROVE  clock >= beat[v] + Patience
  <2>1. CASE lease.owner = v
    <3>1. lease # FreeLease
      BY <2>1, OwnerAssumption DEF FreeLease
    <3>2. clock >= lease.heartbeat + Patience
      BY <1>1, <3>1, TakenIsSilent
    <3>3. QED
      BY <1>6, <2>1, <3>2 DEF IInv, HoldersOK
  <2>2. CASE lease.owner # v
    BY <1>6, <2>2 DEF IInv, HoldersOK
  <2>3. QED
    BY <2>1, <2>2
<1>7. HoldersOK'
  BY <1>2, <1>6 DEF IInv, TypeOK, HoldersOK, HeldLease, Holding
<1>8. QED
  BY <1>3, <1>4, <1>5, <1>7 DEF IInv

LEMMA HeartbeatStep ==
  ASSUME IInv, NEW w \in Workers, HeartbeatLands(w)
  PROVE  IInv'
<1> USE DEF HeartbeatLands, DropClock, IInv
<1>1. at[w] \in Nat /\ at[w] <= clock /\ lease.owner # NoOwner
  BY OwnerAssumption DEF TypeOK, ClocksOK
<1>2. TypeOK'
  <2>1. lease' = [owner |-> w, heartbeat |-> at[w], until |-> at[w] + LeaseTTL]
    BY DEF TypeOK
  <2>2. QED
    BY <1>1, <2>1, LeaseTTLAssumption DEF TypeOK
<1>3. ClocksOK'
  BY <1>1 DEF TypeOK, ClocksOK, Holding
<1>4. ColumnsOK'
  BY <1>1 DEF TypeOK, ColumnsOK
<1>5. HoldersOK'
  BY DEF TypeOK, HoldersOK, Holding
<1>6. QED
  BY <1>2, <1>3, <1>4, <1>5

LEMMA RecoverStep ==
  ASSUME IInv, NEW w \in Workers, RecoverStale(w)
  PROVE  IInv'
<1> USE DEF RecoverStale, Move, DropClock
<1>1. at[w] \in Nat /\ at[w] <= clock
  BY DEF IInv, TypeOK, ClocksOK
<1>2. TypeOK'
  BY DEF IInv, TypeOK, FreeLease, Phases
<1>3. ClocksOK'
  BY DEF IInv, TypeOK, ClocksOK, Holding
<1>4. ColumnsOK'
  BY DEF IInv, ColumnsOK, FreeLease
<1>5. ASSUME Stale(at[w]), NEW v \in Workers, phase[v] \in Holding
      PROVE  clock >= beat[v] + Patience
  <2>1. lease # FreeLease
    BY <1>5 DEF Stale, FreeLease
  <2>2. clock >= lease.heartbeat + Patience
    BY <1>1, <1>5, <2>1, TakenIsSilent
  <2>3. QED
    BY <1>5, <2>2 DEF IInv, HoldersOK
<1>6. HoldersOK'
  BY <1>5, OwnerAssumption DEF IInv, TypeOK, HoldersOK, Holding, FreeLease
<1>7. QED
  BY <1>2, <1>3, <1>4, <1>6 DEF IInv

\* The end of a pass, orderly or not.
LEMMA EndStep ==
  ASSUME IInv, NEW w \in Workers, Release(w) \/ Crash(w)
  PROVE  IInv'
<1> USE DEF Release, Crash, Move, DropClock, IInv
<1>1. TypeOK'
  BY DEF TypeOK, FreeLease, Phases
<1>2. ClocksOK'
  BY DEF TypeOK, ClocksOK, Holding
<1>3. ColumnsOK'
  BY DEF ColumnsOK, FreeLease
<1>4. HoldersOK'
  BY OwnerAssumption DEF TypeOK, HoldersOK, Holding, FreeLease
<1>5. QED
  BY <1>1, <1>2, <1>3, <1>4

LEMMA TickStep ==
  ASSUME IInv, Tick
  PROVE  IInv'
BY PatienceOK DEF Tick, IInv, TypeOK, ClocksOK, ColumnsOK, HoldersOK, FreeLease, Holding

LEMMA NextIInv == IInv /\ [Next]_vars => IInv'
<1> SUFFICES ASSUME IInv, [Next]_vars PROVE IInv'
  OBVIOUS
<1>1. ASSUME NEW w \in Workers, Step(w) PROVE IInv'
  BY <1>1, QuietStep, AcquireStep, HeartbeatStep, RecoverStep, EndStep DEF Step
<1>2. CASE UNCHANGED vars
  BY <1>2 DEF vars, IInv, TypeOK, ClocksOK, ColumnsOK, HoldersOK, FreeLease
<1>3. QED
  BY <1>1, <1>2, TickStep DEF Next

(***************************************************************************)
(* The invariant, and through it the types, hold in every reachable state. *)
(***************************************************************************)
THEOREM Invariance == Spec => []IInv
BY InitIInv, NextIInv, PTL DEF Spec

THEOREM TypeCorrect == Spec => []TypeOK
<1>1. IInv => TypeOK
  BY DEF IInv
<1>2. QED
  BY <1>1, Invariance, PTL

(***************************************************************************)
(* Mutual exclusion of passes whose heartbeats are accepted, for any       *)
(* number of workers and any lease time (runWithLeaseHeartbeat, acquire).  *)
(***************************************************************************)
THEOREM Exclusion == Spec => []OneConfirmedHolder
<1>1. IInv => OneConfirmedHolder
  <2> SUFFICES ASSUME IInv, NEW v \in Workers, NEW w \in Workers, Confirmed(v), Confirmed(w)
               PROVE  v = w
    BY DEF OneConfirmedHolder
  <2>1. ASSUME NEW u \in Workers, Confirmed(u) PROVE lease.owner = u
    <3>1. clock \in Nat /\ beat[u] \in Nat
      BY <2>1 DEF Confirmed, IInv, TypeOK, ClocksOK
    <3>2. QED
      BY <2>1, <3>1, PatienceOK DEF Confirmed, IInv, HoldersOK
  <2>2. QED
    BY <2>1
<1>2. QED
  BY <1>1, Invariance, PTL

(***************************************************************************)
(* The Go test of an active lease (leaseIsActive) and the SQL test         *)
(* (reclaimableSQL) agree about every lease the code ever writes.          *)
(***************************************************************************)
THEOREM TestsAlwaysAgree == Spec => []TestsAgree
<1>1. IInv => TestsAgree
  BY GoTestIsSqlTest DEF TestsAgree, IInv, TypeOK
<1>2. QED
  BY <1>1, Invariance, PTL

(***************************************************************************)
(* The lease manager implements LeaseContract.                             *)
(***************************************************************************)
LEMMA InitRefines == Init => Abstract!Init
BY DEF Init, Abstract!Init, FreeLease, Holding

LEMMA GrantRefines ==
  ASSUME IInv, NEW w \in Workers, Acquire(w) \/ AcquireRefreshNow(w)
  PROVE  Abstract!Grant(w)
<1>1. at[w] \in Nat /\ at[w] <= clock /\ phase[w] = "acquiring"
  BY DEF Acquire, AcquireRefreshNow, Move, IInv, TypeOK, ClocksOK
<1>2. Reclaimable(at[w])
  BY <1>1, GoTestIsSqlTest DEF Acquire, AcquireRefreshNow
<1>3. lease.owner = NoOwner \/ Abstract!Silent
  <2>1. CASE lease = FreeLease
    BY <2>1 DEF FreeLease
  <2>2. CASE lease # FreeLease
    BY <2>2, <1>1, <1>2, TakenIsSilent, HeldDurations DEF Abstract!Silent
  <2>3. QED
    BY <2>1, <2>2
<1>4. {u \in Workers : phase[u] \in Holding}' = {u \in Workers : phase[u] \in Holding} \cup {w}
  BY <1>1 DEF Acquire, AcquireRefreshNow, Move, IInv, TypeOK, Holding
<1>5. QED
  BY <1>1, <1>3, <1>4 DEF Abstract!Grant, Acquire, AcquireRefreshNow, HeldLease, Holding

LEMMA RenewRefines ==
  ASSUME IInv, NEW w \in Workers, HeartbeatLands(w)
  PROVE  Abstract!Renew(w)
<1>1. at[w] \in Nat /\ at[w] <= clock /\ lease.heartbeat \in Nat /\ lease.heartbeat <= at[w]
  BY OwnerAssumption DEF HeartbeatLands, IInv, TypeOK, ClocksOK, ColumnsOK, HoldersOK, Holding, FreeLease
<1>2. QED
  BY <1>1 DEF Abstract!Renew, HeartbeatLands, IInv, TypeOK, Holding

LEMMA EndRefines ==
  ASSUME IInv, NEW w \in Workers, Release(w) \/ Crash(w)
  PROVE  Abstract!Yield(w) \/ Abstract!Die(w) \/ UNCHANGED Abstract!vars
<1> DEFINE claims == {u \in Workers : phase[u] \in Holding}
<1>1. CASE Release(w)
  <2>1. w \in claims /\ claims' = claims \ {w}
    BY <1>1 DEF Release, Move, IInv, TypeOK, Holding
  <2>2. QED
    BY <1>1, <2>1, OwnerAssumption DEF Release, Abstract!Yield, FreeLease
<1>2. CASE Crash(w) /\ phase[w] \in Holding
  <2>1. w \in claims /\ claims' = claims \ {w}
    BY <1>2 DEF Crash, IInv, TypeOK, Holding
  <2>2. QED
    BY <1>2, <2>1 DEF Crash, Abstract!Die
<1>3. CASE Crash(w) /\ phase[w] \notin Holding
  <2>1. claims' = claims
    BY <1>3 DEF Crash, IInv, TypeOK, Holding
  <2>2. QED
    BY <1>3, <2>1 DEF Crash, Abstract!vars
<1>4. QED
  BY <1>1, <1>2, <1>3

LEMMA RecoverRefines ==
  ASSUME IInv, NEW w \in Workers, RecoverStale(w)
  PROVE  Abstract!Evict \/ UNCHANGED Abstract!vars
<1> DEFINE claims == {u \in Workers : phase[u] \in Holding}
<1>1. claims' = claims
  BY DEF RecoverStale, Move, IInv, TypeOK, Holding
<1>2. CASE Stale(at[w])
  <2>1. at[w] \in Nat /\ at[w] <= clock /\ lease # FreeLease
    BY <1>2 DEF RecoverStale, Move, IInv, TypeOK, ClocksOK, Stale, FreeLease
  <2>2. lease.owner # NoOwner /\ Abstract!Silent
    BY <1>2, <2>1, TakenIsSilent, HeldDurations, OwnerAssumption DEF Abstract!Silent
  <2>3. QED
    BY <1>1, <1>2, <2>2 DEF RecoverStale, Abstract!Evict, FreeLease
<1>3. CASE ~Stale(at[w])
  BY <1>1, <1>3 DEF RecoverStale, Abstract!vars
<1>4. QED
  BY <1>2, <1>3

LEMMA QuietRefines ==
  ASSUME IInv, NEW w \in Workers,
         \/ Start(w) \/ StartRefreshNow(w) \/ BeginAcquire(w)
         \/ AcquireMisses(w) \/ RefreshNowBlocked(w) \/ SendHeartbeat(w)
         \/ HeartbeatRejected(w) \/ HeartbeatErrors(w)
         \/ PassSucceeds(w) \/ PassFails(w) \/ PassStopsCancelled(w)
  PROVE  UNCHANGED Abstract!vars
<1>1. lease' = lease /\ clock' = clock
  BY DEF Start, StartRefreshNow, BeginAcquire, AcquireMisses, RefreshNowBlocked, SendHeartbeat,
         HeartbeatRejected, HeartbeatErrors, PassSucceeds, PassFails, PassStopsCancelled
<1>2. {u \in Workers : phase[u] \in Holding}' = {u \in Workers : phase[u] \in Holding}
  BY DEF Start, StartRefreshNow, BeginAcquire, AcquireMisses, RefreshNowBlocked, SendHeartbeat,
         HeartbeatRejected, HeartbeatErrors, PassSucceeds, PassFails, PassStopsCancelled,
         Move, IInv, TypeOK, Holding
<1>3. QED
  BY <1>1, <1>2 DEF Abstract!vars

THEOREM Implementation == Spec => Contract
<1>1. IInv /\ [Next]_vars => [Abstract!Next]_(Abstract!vars)
  <2> SUFFICES ASSUME IInv, [Next]_vars PROVE [Abstract!Next]_(Abstract!vars)
    OBVIOUS
  <2>1. ASSUME NEW w \in Workers, Step(w) PROVE [Abstract!Next]_(Abstract!vars)
    BY <2>1, QuietRefines, GrantRefines, RenewRefines, EndRefines, RecoverRefines
       DEF Step, Abstract!Next
  <2>2. CASE Tick
    BY <2>2 DEF Tick, Abstract!Next, Abstract!Elapse
  <2>3. CASE UNCHANGED vars
    BY <2>3 DEF vars, Abstract!vars
  <2>4. QED
    BY <2>1, <2>2, <2>3 DEF Next
<1>2. QED
  BY <1>1, InitRefines, Invariance, PTL DEF Spec, Contract, Abstract!Spec
=============================================================================
