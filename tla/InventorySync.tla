---------------------------- MODULE InventorySync ----------------------------
(***************************************************************************)
(* The open pull request inventory of one repository: who writes it, who   *)
(* marks it, and when (internal/githubsync/change_sync.go and              *)
(* inventory_refresh.go; webhooks as far as they touch the inventory).     *)
(*                                                                         *)
(*   - a change sync worker (Servers) scans GitHub into a new generation   *)
(*     of inventory rows, and otherwise refreshes single pull requests,    *)
(*     asked for by webhooks (targeted) or missing an index (backfill);    *)
(*   - an operator's `refresh inventory` process (Operators) scans once;   *)
(*   - acceptors and the webhook processor mark the inventory dirty and    *)
(*     rows stale while all that goes on.                                  *)
(*                                                                         *)
(* A statement or a transaction of the code is one step, and what a        *)
(* process has read before it stays in its record until it is used.        *)
(* Leases are those of LeaseContract: `quiet` is its Silent.  Freshness    *)
(* has the three values counters tell apart: "missing" is the empty        *)
(* string, "stale" is each of stale_head_changed, stale_base_moved and     *)
(* failed.  `rev` is everything desiredFreshness compares (head, base SHA, *)
(* base ref); every pull request has the same base branch.                 *)
(*                                                                         *)
(* Time: the code compares one kind of reading, dirty_since, with one      *)
(* other, the start of a scan.  A reading of the clock is therefore kept   *)
(* as the set of the processes whose latest scan had started by then, and  *)
(* "t > start of w's scan" is w \in t.                                     *)
(***************************************************************************)
EXTENDS Integers, FiniteSets, Functions

CONSTANTS
  PRs,         \* pull request numbers
  Servers,     \* starts of the server process, each with one change sync worker
  Operators,   \* starts of the `refresh inventory` command
  NoOne,       \* no owner, no pull request, no event
  Overlap,     \* whether a server may start before the last one is gone
  Pausing,     \* the processes that can miss their heartbeats for staleAfter and live on
  LateCrash,   \* whether a process may die between the commit of a scan and its completion
  MaxRev,      \* bound: revisions of a pull request
  MaxGen,      \* bound: generations
  Deliveries   \* bound: webhook deliveries in flight, by slot

Scanners == Servers \cup Operators

ASSUME NamesAssumption ==
  /\ Servers \cap Operators = {}
  /\ NoOne \notin PRs \cup Scanners \cup Deliveries
  /\ Overlap \in BOOLEAN /\ Pausing \subseteq Scanners /\ LateCrash \in BOOLEAN
ASSUME BoundsAssumption ==
  /\ MaxRev \in Nat \ {0} /\ MaxGen \in Nat \ {0}

VARIABLES
  github,    \* the pull requests as GitHub has them
  snap,      \* pull_request_change_snapshots
  inv,       \* repo_open_pull_inventory, by generation
  state,     \* the repository's row of repo_change_sync_states
  lease,     \* its fetch and backfill lease columns
  wanted,    \* pull requests with a pending targeted refresh
  events,    \* the webhook deliveries in flight
  proc,      \* the webhook processor (one job at a time)
  scan,      \* the inventory scan of each process
  refresh,   \* the pull request refresh of each server
  started,   \* the processes that have started a scan: the clock reads as this set
  givenUp    \* history: the mark of a discarded delivery, until a scan that starts later commits

vars == <<github, snap, inv, state, lease, wanted, events, proc, scan, refresh, started, givenUp>>

NoGen == 0
Fresh == {"missing", "current", "stale"}
Row == [rev : 0..MaxRev, fresh : Fresh]
Rows == UNION {[S -> Row] : S \in SUBSET PRs}
NoRows == [p \in {} |-> NoOne]
NoSnapshot == [rev |-> 0, fresh |-> "missing"]
Kinds == {"fetch", "backfill"}
NoEvent == [kind |-> "none", pr |-> NoOne, stage |-> "none", seen |-> {}]

-----------------------------------------------------------------------------
(* Pure parts *)

\* Mutants of DesiredFreshness: a freshness the counters do not know, a revision that is
\* not compared, an index taken for current because the revisions are equal.
UnknownFreshness(snapshot, rev) ==
  IF snapshot = NoSnapshot THEN "unknown"
  ELSE IF snapshot.rev # rev THEN "stale" ELSE snapshot.fresh
FreshnessOfAnyRevision(snapshot, rev) ==
  IF snapshot = NoSnapshot THEN "missing" ELSE snapshot.fresh
SameRevisionIsCurrent(snapshot, rev) ==
  IF snapshot = NoSnapshot THEN "missing"
  ELSE IF snapshot.rev # rev THEN "stale" ELSE "current"

\* desiredFreshness, desiredInventoryFreshness
DesiredFreshness(snapshot, rev) ==
  IF snapshot = NoSnapshot THEN "missing"
  ELSE IF snapshot.rev # rev THEN "stale"
  ELSE snapshot.fresh

\* What updateRepoInventoryCountsTx and buildOpenPullInventoryRows count.
Counts(rows) ==
  LET With(f) == Cardinality({p \in DOMAIN rows : rows[p].fresh = f})
  IN  [total |-> Cardinality(DOMAIN rows), current |-> With("current"), stale |-> With("stale")]

\* adjustBackfillCounts: counters move by deltas and never below zero.
AdjustedCounts(counts, old, new) ==
  LET Delta(f) == (IF new = f THEN 1 ELSE 0) - (IF old = f THEN 1 ELSE 0)
      AtLeast0(n) == IF n < 0 THEN 0 ELSE n
  IN  [counts EXCEPT !.current = AtLeast0(@ + Delta("current")),
                     !.stale = AtLeast0(@ + Delta("stale"))]

\* The generation a scan builds: nextInventoryGeneration, unless the row it read
\* names one already.
BuildingGeneration(current, building) ==
  IF building > 0 THEN building ELSE current + 1

\* Mutant of RetainedDirty: a commit clears whatever mark there is.
ClearedDirty(st, w) == [st EXCEPT !.dirty = FALSE, !.since = {}]

\* retainedDirtyExpr and retainedDirtySinceExpr, for the scan of w
RetainedDirty(st, w) ==
  IF st.dirty /\ w \in st.since THEN st ELSE [st EXCEPT !.dirty = FALSE, !.since = {}]

\* A scan of w starts: every reading of the clock up to now is before it.
Earlier(t, w) == t \ {w}

Upsert(rows, p, r) == [q \in DOMAIN rows \cup {p} |-> IF q = p THEN r ELSE rows[q]]

-----------------------------------------------------------------------------
(* Leases (LeaseContract) *)

\* Mutant of Available: a lease has to be released.
AvailableWhenReleased(k) == lease[k].owner = NoOne

Available(k) == lease[k].owner = NoOne \/ lease[k].quiet
Held(w) == [owner |-> w, quiet |-> FALSE]
Free == [owner |-> NoOne, quiet |-> FALSE]
Released(k, w) == IF lease[k].owner = w THEN [lease EXCEPT ![k] = Free] ELSE lease

Alive(w) == scan[w].pc \notin {"new", "down"}

\* Time passes without a heartbeat of the holder.
FallQuiet(k) ==
  /\ lease[k].owner # NoOne
  /\ ~lease[k].quiet
  /\ lease[k].owner \in Pausing \/ ~Alive(lease[k].owner)
  /\ lease' = [lease EXCEPT ![k].quiet = TRUE]
  /\ UNCHANGED <<github, snap, inv, state, wanted, events, proc, scan, refresh, started, givenUp>>

\* The holder is back and its heartbeat found the row.
Heartbeat(k) ==
  /\ lease[k].quiet
  /\ lease[k].owner # NoOne
  /\ Alive(lease[k].owner)
  /\ lease' = [lease EXCEPT ![k].quiet = FALSE]
  /\ UNCHANGED <<github, snap, inv, state, wanted, events, proc, scan, refresh, started, givenUp>>

-----------------------------------------------------------------------------
(* GitHub and the webhooks *)

NewEvent(kind, p) ==
  \E e \in Deliveries :
    /\ events[e] = NoEvent
    /\ events' = [events EXCEPT ![e] =
                    [kind |-> kind, pr |-> p, seen |-> {},
                     stage |-> IF kind = "push" THEN "queued" ELSE "sent"]]

\* A pull request is opened, closed or reopened.
OpenOrClose(p) ==
  /\ github' = [github EXCEPT ![p].open = ~@]
  /\ NewEvent("membership", p)
  /\ UNCHANGED <<snap, inv, state, lease, wanted, proc, scan, refresh, started, givenUp>>

\* Commits are pushed to an open pull request.
PushHead(p) ==
  /\ github[p].open
  /\ github[p].rev < MaxRev
  /\ github' = [github EXCEPT ![p].rev = @ + 1]
  /\ NewEvent("content", p)
  /\ UNCHANGED <<snap, inv, state, lease, wanted, proc, scan, refresh, started, givenUp>>

\* Commits are pushed to the base branch; accepting that delivery only queues it.
PushBase ==
  /\ NewEvent("push", NoOne)
  /\ UNCHANGED <<github, snap, inv, state, lease, wanted, proc, scan, refresh, started, givenUp>>

Stage(e, from, to) ==
  /\ events[e].stage = from
  /\ events' = [events EXCEPT ![e].stage = to]

\* An acceptor's transaction reads the clock for its follow-up ...
BeginAccept(e) ==
  /\ events[e].stage = "sent"
  /\ events' = [events EXCEPT ![e].stage = "accepting", ![e].seen = started]
  /\ UNCHANGED <<github, snap, inv, state, lease, wanted, proc, scan, refresh, started, givenUp>>

\* MarkInventoryNeedsRefresh overwrites whatever was there.
MarkedDirty(seen) == [state EXCEPT !.dirty = TRUE, !.since = seen]

\* ... and commits it: the refresh is enqueued and, for a change of the open set,
\* the inventory marked.
FinishAccept(e) ==
  /\ events[e].stage = "accepting"
  /\ events' = [events EXCEPT ![e].stage = "queued", ![e].seen = {}]
  /\ wanted' = wanted \cup {events[e].pr}
  /\ state' = IF events[e].kind = "membership" THEN MarkedDirty(events[e].seen) ELSE state
  /\ UNCHANGED <<github, snap, inv, lease, proc, scan, refresh, started, givenUp>>

IdleProc == [pc |-> "idle", event |-> NoOne, seen |-> {}, gen |-> NoGen, failed |-> FALSE]

\* The processor takes a queued delivery, projects it and reads the clock.
BeginProcess(e) ==
  /\ proc.pc = "idle"
  /\ Stage(e, "queued", "processing")
  /\ proc' = [pc |-> IF events[e].kind = "push" THEN "stale snapshots" ELSE "enqueue",
              event |-> e, seen |-> started, gen |-> NoGen, failed |-> FALSE]
  /\ UNCHANGED <<github, snap, inv, state, lease, wanted, scan, refresh, started, givenUp>>

ProcMoves(from, to) == proc.pc = from /\ proc' = [proc EXCEPT !.pc = to]

ProcEnqueue ==
  /\ ProcMoves("enqueue", IF events[proc.event].kind = "membership" THEN "mark dirty" ELSE "done")
  /\ wanted' = wanted \cup {events[proc.event].pr}
  /\ UNCHANGED <<github, snap, inv, state, lease, events, scan, refresh, started, givenUp>>

\* gitindex MarkBaseRefStale. Its error is returned only after the rows have been marked.
ProcStaleSnapshots ==
  /\ proc.pc = "stale snapshots"
  /\ \E failed \in BOOLEAN :
       /\ proc' = [proc EXCEPT !.pc = "read state", !.failed = failed]
       /\ snap' = IF failed THEN snap
                  ELSE [p \in PRs |-> IF snap[p] = NoSnapshot THEN NoSnapshot
                                      ELSE [snap[p] EXCEPT !.fresh = "stale"]]
  /\ UNCHANGED <<github, inv, state, lease, wanted, events, scan, refresh, started, givenUp>>

\* markInventoryBaseRefStale reads the state before its transaction ...
ProcReadState ==
  /\ proc.pc = "read state"
  /\ proc' = [proc EXCEPT !.pc = IF state.current = NoGen THEN "mark dirty" ELSE "stale rows",
                          !.gen = state.current]
  /\ UNCHANGED <<github, snap, inv, state, lease, wanted, events, scan, refresh, started, givenUp>>

\* ... which marks the rows of the generation it read and recounts that generation.
ProcStaleRows ==
  /\ ProcMoves("stale rows", "mark dirty")
  /\ LET marked == [p \in DOMAIN inv[proc.gen] |-> [inv[proc.gen][p] EXCEPT !.fresh = "stale"]]
     IN  /\ inv' = [inv EXCEPT ![proc.gen] = marked]
         /\ state' = [state EXCEPT !.counts = Counts(marked)]
  /\ UNCHANGED <<github, snap, lease, wanted, events, scan, refresh, started, givenUp>>

ProcMarkDirty ==
  /\ ~proc.failed
  /\ ProcMoves("mark dirty", "done")
  /\ state' = MarkedDirty(proc.seen)
  /\ UNCHANGED <<github, snap, inv, lease, wanted, events, scan, refresh, started, givenUp>>

ProcDone ==
  /\ proc.pc = "done"
  /\ events' = [events EXCEPT ![proc.event] = NoEvent]
  /\ proc' = IdleProc
  /\ UNCHANGED <<github, snap, inv, state, lease, wanted, scan, refresh, started, givenUp>>

\* A statement fails, or the process dies: the job will be tried again ...
ProcFails ==
  /\ proc.pc # "idle"
  /\ Stage(proc.event, "processing", "queued")
  /\ proc' = IdleProc
  /\ UNCHANGED <<github, snap, inv, state, lease, wanted, scan, refresh, started, givenUp>>

\* ... unless that was its last attempt (any, here): River discards it.
ProcGivesUp ==
  /\ proc.pc # "idle"
  /\ events' = [events EXCEPT ![proc.event] = NoEvent]
  /\ proc' = IdleProc
  /\ givenUp' = IF events[proc.event].kind = "membership"
                THEN [dirty |-> TRUE, since |-> started] ELSE givenUp
  /\ UNCHANGED <<github, snap, inv, state, lease, wanted, scan, refresh, started>>

-----------------------------------------------------------------------------
(* Inventory scans *)

IdleScan == [pc |-> "idle", current |-> NoGen, building |-> NoGen,
             listing |-> NoRows, rows |-> NoRows, unwritten |-> {}, todo |-> {}]
IdleRefresh == [pc |-> "idle", lane |-> "none", pr |-> NoOne, rev |-> 0, open |-> FALSE,
                gen |-> NoGen, row |-> NoSnapshot]

Idle(w) == scan[w].pc = "idle" /\ (w \in Servers => refresh[w].pc = "idle")

ScanMoves(w, from, to) == scan[w].pc = from /\ scan' = [scan EXCEPT ![w].pc = to]

\* In these the fetch lease is the scan's own, or was.
Passing == {"listing", "reading snapshots", "preparing", "writing", "updating snapshots", "committing"}

BackfillWork == state.counts.current < state.counts.total \/ state.counts.stale > 0

\* A server starts. It recovers stale leases; every lease it may take is as good as free.
Start(w) ==
  /\ ScanMoves(w, "new", "idle")
  /\ w \in Servers /\ ~Overlap => \A v \in Servers : ~Alive(v)
  /\ lease' = IF w \in Servers
              THEN [k \in Kinds |-> IF lease[k].quiet THEN Free ELSE lease[k]] ELSE lease
  /\ UNCHANGED <<github, snap, inv, state, wanted, events, proc, refresh, started, givenUp>>

\* pickInventoryScanState, for a repository without inventory or with an aged one:
\* the worker keeps a copy of the row. nextRepoWork puts backfill before aged scans.
PickScan(w) ==
  /\ w \in Servers
  /\ Idle(w)
  /\ Available("fetch") /\ Available("backfill")
  /\ state.current = NoGen \/ ~BackfillWork
  /\ scan' = [scan EXCEPT ![w].pc = "acquiring", ![w].current = state.current,
                          ![w].building = state.building]
  /\ UNCHANGED <<github, snap, inv, state, lease, wanted, events, proc, refresh, started, givenUp>>

StartsScan(w) ==
  /\ started' = started \cup {w}
  /\ givenUp' = [dirty |-> givenUp.dirty, since |-> Earlier(givenUp.since, w)]
  /\ events' = [e \in Deliveries |-> [events[e] EXCEPT !.seen = Earlier(@, w)]]
  /\ proc' = [proc EXCEPT !.seen = Earlier(@, w)]

\* processInventoryScan takes the fetch lease ...
AcquireScan(w) ==
  /\ Available("fetch")
  /\ ScanMoves(w, "acquiring", "beginning")
  /\ lease' = [lease EXCEPT !["fetch"] = Held(w)]
  /\ StartsScan(w)
  /\ state' = [state EXCEPT !.since = Earlier(@, w)]
  /\ UNCHANGED <<github, snap, inv, wanted, refresh>>

AcquireScanMisses(w) ==
  /\ ~Available("fetch")
  /\ scan[w].pc = "acquiring"
  /\ scan' = [scan EXCEPT ![w] = IdleScan]
  /\ UNCHANGED <<github, snap, inv, state, lease, wanted, events, proc, refresh, started, givenUp>>

\* ... and names the generation it builds in a second statement, if it is still the owner.
BeginScan(w) ==
  LET gen == BuildingGeneration(scan[w].current, scan[w].building)
  IN  /\ scan[w].pc = "beginning"
      /\ gen <= MaxGen
      /\ scan' = [scan EXCEPT ![w].pc = "listing", ![w].building = gen]
      /\ state' = IF lease["fetch"].owner = w THEN [state EXCEPT !.building = gen] ELSE state
      /\ UNCHANGED <<github, snap, inv, lease, wanted, events, proc, refresh, started, givenUp>>

\* beginInventoryRefresh does all of that in one transaction that locks the row.
BeginRefreshNow(w) ==
  LET gen == BuildingGeneration(state.current, state.building)
  IN  /\ w \in Operators
      /\ Idle(w)
      /\ Available("fetch") /\ Available("backfill")
      /\ gen <= MaxGen
      /\ scan' = [scan EXCEPT ![w] = [IdleScan EXCEPT !.pc = "listing",
                                        !.current = state.current, !.building = gen]]
      /\ state' = [state EXCEPT !.building = gen, !.since = Earlier(@, w)]
      /\ lease' = [lease EXCEPT !["fetch"] = Held(w)]
      /\ StartsScan(w)
      /\ UNCHANGED <<github, snap, inv, wanted, refresh>>

RefreshNowBlocked(w) ==
  /\ w \in Operators
  /\ Idle(w)
  /\ ~(Available("fetch") /\ Available("backfill"))
  /\ scan' = [scan EXCEPT ![w].pc = "down"]
  /\ UNCHANGED <<github, snap, inv, state, lease, wanted, events, proc, refresh, started, givenUp>>

OpenPulls == {p \in PRs : github[p].open}

ListPulls(w) ==
  /\ scan[w].pc = "listing"
  /\ scan' = [scan EXCEPT ![w].pc = "reading snapshots",
                          ![w].listing = [p \in OpenPulls |-> github[p].rev]]
  /\ UNCHANGED <<github, snap, inv, state, lease, wanted, events, proc, refresh, started, givenUp>>

\* pullRequestSnapshotMap and buildOpenPullInventoryRows
BuildRows(w) ==
  LET listing == scan[w].listing
  IN  /\ scan[w].pc = "reading snapshots"
      /\ scan' = [scan EXCEPT ![w].pc = "preparing",
                    ![w].rows = [p \in DOMAIN listing |->
                        [rev |-> listing[p], fresh |-> DesiredFreshness(snap[p], listing[p])]],
                    ![w].unwritten = DOMAIN listing,
                    ![w].todo = {p \in DOMAIN listing :
                        snap[p].fresh # DesiredFreshness(snap[p], listing[p])}]
      /\ UNCHANGED <<github, snap, inv, state, lease, wanted, events, proc, refresh, started, givenUp>>

\* Mutant of PrepareGeneration: every other generation is pruned.
PruneAllGenerations(w) ==
  /\ ScanMoves(w, "preparing", "writing")
  /\ inv' = [g \in 1..MaxGen |-> NoRows]
  /\ UNCHANGED <<github, snap, state, lease, wanted, events, proc, refresh, started, givenUp>>

\* prepareInventoryGeneration empties the generation to build and prunes all others
\* but the one that was current when the scan was picked.
PrepareGeneration(w) ==
  /\ ScanMoves(w, "preparing", "writing")
  /\ inv' = [g \in 1..MaxGen |-> IF g = scan[w].current /\ g # scan[w].building
                                 THEN inv[g] ELSE NoRows]
  /\ UNCHANGED <<github, snap, state, lease, wanted, events, proc, refresh, started, givenUp>>

\* One batch of writeInventoryGeneration (here one row).
WriteBatch(w) ==
  /\ scan[w].pc = "writing"
  /\ \E p \in scan[w].unwritten :
       /\ inv' = [inv EXCEPT ![scan[w].building] = Upsert(@, p, scan[w].rows[p])]
       /\ scan' = [scan EXCEPT ![w].unwritten = @ \ {p}]
  /\ UNCHANGED <<github, snap, state, lease, wanted, events, proc, refresh, started, givenUp>>

EndWriting(w) ==
  /\ ScanMoves(w, "writing", "updating snapshots")
  /\ scan[w].unwritten = {}
  /\ UNCHANGED <<github, snap, inv, state, lease, wanted, events, proc, refresh, started, givenUp>>

\* applySnapshotFreshnessUpdates
UpdateSnapshots(w) ==
  /\ ScanMoves(w, "updating snapshots", "committing")
  /\ snap' = [p \in PRs |-> IF p \in scan[w].todo
                            THEN [snap[p] EXCEPT !.fresh = scan[w].rows[p].fresh] ELSE snap[p]]
  /\ UNCHANGED <<github, inv, state, lease, wanted, events, proc, refresh, started, givenUp>>

\* commitOpenPullInventoryState
CommitScan(w) ==
  /\ ScanMoves(w, "committing", "completing")
  /\ state' = [RetainedDirty(state, w) EXCEPT !.current = scan[w].building,
                                              !.counts = Counts(scan[w].rows)]
  /\ givenUp' = RetainedDirty(givenUp, w)
  /\ UNCHANGED <<github, snap, inv, lease, wanted, events, proc, refresh, started>>

ClearBuilding(w) == IF lease["fetch"].owner = w THEN [state EXCEPT !.building = NoGen] ELSE state

\* completeFetchPass; the operator's process then exits.
CompleteScan(w) ==
  /\ scan[w].pc = "completing"
  /\ scan' = [scan EXCEPT ![w] = [IdleScan EXCEPT !.pc = IF w \in Servers THEN "idle" ELSE "down"]]
  /\ state' = ClearBuilding(w)
  /\ lease' = Released("fetch", w)
  /\ UNCHANGED <<github, snap, inv, wanted, events, proc, refresh, started, givenUp>>

\* GitHub, the database or a heartbeat failed: finishFetchStateWithError. Its error
\* ends the process (RunOnce and Start return it).
FailScan(w) ==
  /\ scan[w].pc \in Passing
  /\ scan' = [scan EXCEPT ![w] = [IdleScan EXCEPT !.pc = "down"]]
  /\ state' = ClearBuilding(w)
  /\ lease' = Released("fetch", w)
  /\ UNCHANGED <<github, snap, inv, wanted, events, proc, refresh, started, givenUp>>

\* The process dies at any other moment too, and leaves everything as it is.
Crash(w) ==
  /\ Alive(w)
  /\ scan[w].pc = "completing" => LateCrash
  /\ scan' = [scan EXCEPT ![w] = [IdleScan EXCEPT !.pc = "down"]]
  /\ refresh' = IF w \in Servers THEN [refresh EXCEPT ![w] = IdleRefresh] ELSE refresh
  /\ UNCHANGED <<github, snap, inv, state, lease, wanted, events, proc, started, givenUp>>

-----------------------------------------------------------------------------
(* Refreshes of one pull request by a server's worker *)

RefreshMoves(w, from, to) == refresh[w].pc = from /\ refresh' = [refresh EXCEPT ![w].pc = to]

\* acquireNextTargetedRefresh (TargetedRefresh has its leases)
StartTargeted(w) ==
  /\ Idle(w)
  /\ \E p \in wanted : refresh' = [refresh EXCEPT ![w] =
       [IdleRefresh EXCEPT !.pc = "fetching", !.lane = "targeted", !.pr = p]]
  /\ UNCHANGED <<github, snap, inv, state, lease, wanted, events, proc, scan, started, givenUp>>

\* pickBackfillState keeps a copy of the row: the pass is for the generation current now ...
PickBackfill(w) ==
  /\ Idle(w)
  /\ state.current # NoGen
  /\ BackfillWork
  /\ Available("fetch") /\ Available("backfill")
  /\ refresh' = [refresh EXCEPT ![w] =
       [IdleRefresh EXCEPT !.pc = "acquiring", !.lane = "backfill", !.gen = state.current]]
  /\ UNCHANGED <<github, snap, inv, state, lease, wanted, events, proc, scan, started, givenUp>>

\* ... and processBackfillRepo takes the backfill lease, whoever has the fetch lease by now.
AcquireBackfill(w) ==
  /\ Available("backfill")
  /\ RefreshMoves(w, "acquiring", "choosing")
  /\ lease' = [lease EXCEPT !["backfill"] = Held(w)]
  /\ UNCHANGED <<github, snap, inv, state, wanted, events, proc, scan, started, givenUp>>

AcquireBackfillMisses(w) ==
  /\ ~Available("backfill")
  /\ refresh[w].pc = "acquiring"
  /\ refresh' = [refresh EXCEPT ![w] = IdleRefresh]
  /\ UNCHANGED <<github, snap, inv, state, lease, wanted, events, proc, scan, started, givenUp>>

Candidates(gen) == {p \in DOMAIN inv[gen] : inv[gen][p].fresh # "current"}

\* A pass of one candidate (backfillMaxPRsPerPass = 1), any one: the cursor only orders them.
ChooseCandidate(w) ==
  LET gen == refresh[w].gen
  IN  /\ refresh[w].pc = "choosing"
      /\ IF Candidates(gen) = {}
         THEN refresh' = [refresh EXCEPT ![w].pc = "finishing"]
         ELSE \E p \in Candidates(gen) : refresh' = [refresh EXCEPT ![w].pc = "fetching",
                ![w].pr = p, ![w].row = inv[gen][p]]
      /\ UNCHANGED <<github, snap, inv, state, lease, wanted, events, proc, scan, started, givenUp>>

\* syncPullRequestCore
FetchPull(w) ==
  /\ refresh[w].pc = "fetching"
  /\ refresh' = [refresh EXCEPT ![w].pc = "indexing",
       ![w].rev = github[refresh[w].pr].rev, ![w].open = github[refresh[w].pr].open]
  /\ UNCHANGED <<github, snap, inv, state, lease, wanted, events, proc, scan, started, givenUp>>

\* SyncPullRequestIndex indexes the stored pull request, which a webhook may have made
\* newer than the one just fetched and which never gets older; an index that cannot be
\* built is a failed snapshot and no error.
IndexPull(w) ==
  LET p == refresh[w].pr
  IN  /\ RefreshMoves(w, "indexing",
           IF refresh[w].lane = "targeted" THEN "reading state" ELSE "reconciling")
      /\ \E r \in refresh[w].rev..github[p].rev, f \in {"current", "stale"} :
           r >= snap[p].rev /\ snap' = [snap EXCEPT ![p] = [rev |-> r, fresh |-> f]]
      /\ UNCHANGED <<github, inv, state, lease, wanted, events, proc, scan, started, givenUp>>

\* GitHub or the database fails. A targeted refresh is rescheduled, or parked for
\* good after its last attempt; a backfill candidate is recorded as not current.
SyncPullFails(w) ==
  /\ refresh[w].pc \in {"fetching", "indexing"}
  /\ \/ /\ refresh[w].lane = "targeted"
        /\ wanted' \in {wanted, wanted \ {refresh[w].pr}}
        /\ refresh' = [refresh EXCEPT ![w] = IdleRefresh]
     \/ /\ refresh[w].lane = "backfill"
        /\ refresh' = [refresh EXCEPT ![w].pc = "advancing",
             ![w].row.fresh = IF @ = "missing" THEN "stale" ELSE @]
        /\ UNCHANGED wanted
  /\ UNCHANGED <<github, snap, inv, state, lease, events, proc, scan, started, givenUp>>

\* reconcileTargetedRefresh reads the state before its transaction ...
ReadState(w) ==
  /\ refresh[w].pc = "reading state"
  /\ refresh' = [refresh EXCEPT ![w].gen = state.current,
                                ![w].pc = IF state.current = NoGen THEN "finishing" ELSE "reconciling"]
  /\ UNCHANGED <<github, snap, inv, state, lease, wanted, events, proc, scan, started, givenUp>>

\* ... which adds, changes or deletes the pull request's row and recounts.
ReconcileTargeted(w) ==
  LET p == refresh[w].pr
      gen == refresh[w].gen
      fresh == DesiredFreshness(snap[p], refresh[w].rev)
      rows == IF refresh[w].open
              THEN Upsert(inv[gen], p, [rev |-> refresh[w].rev, fresh |-> fresh])
              ELSE Restrict(inv[gen], DOMAIN inv[gen] \ {p})
  IN  /\ refresh[w].lane = "targeted"
      /\ RefreshMoves(w, "reconciling", "finishing")
      /\ snap' = IF snap[p] = NoSnapshot THEN snap ELSE [snap EXCEPT ![p].fresh = fresh]
      /\ inv' = [inv EXCEPT ![gen] = rows]
      /\ state' = [state EXCEPT !.counts = Counts(rows)]
      /\ UNCHANGED <<github, lease, wanted, events, proc, scan, started, givenUp>>

\* finishTargetedRefresh: every request so far counts as served.
FinishTargeted(w) ==
  /\ refresh[w].lane = "targeted"
  /\ refresh[w].pc = "finishing"
  /\ wanted' = wanted \ {refresh[w].pr}
  /\ refresh' = [refresh EXCEPT ![w] = IdleRefresh]
  /\ UNCHANGED <<github, snap, inv, state, lease, events, proc, scan, started, givenUp>>

\* reconcileInventoryFreshness
ReconcileBackfill(w) ==
  LET p == refresh[w].pr
      fresh == DesiredFreshness(snap[p], refresh[w].rev)
  IN  /\ refresh[w].lane = "backfill"
      /\ refresh[w].pc = "reconciling"
      /\ snap' = [snap EXCEPT ![p].fresh = fresh]
      /\ refresh' = [refresh EXCEPT ![w].pc = "advancing",
                                        ![w].row = [rev |-> refresh[w].rev, fresh |-> fresh]]
      /\ UNCHANGED <<github, inv, state, lease, wanted, events, proc, scan, started, givenUp>>

\* advanceBackfillProgress; it fails when a scan has pruned the row.
AdvanceBackfill(w) ==
  LET p == refresh[w].pr
      gen == refresh[w].gen
  IN  /\ RefreshMoves(w, "advancing", "finishing")
      /\ p \in DOMAIN inv[gen]
      /\ inv' = [inv EXCEPT ![gen][p] = refresh[w].row]
      /\ state' = [state EXCEPT !.counts = AdjustedCounts(@, inv[gen][p].fresh, refresh[w].row.fresh)]
      /\ UNCHANGED <<github, snap, lease, wanted, events, proc, scan, started, givenUp>>

FinishBackfill(w) ==
  /\ refresh[w].lane = "backfill"
  /\ refresh[w].pc = "finishing"
  /\ lease' = Released("backfill", w)
  /\ refresh' = [refresh EXCEPT ![w] = IdleRefresh]
  /\ UNCHANGED <<github, snap, inv, state, wanted, events, proc, scan, started, givenUp>>

\* finishBackfillStateWithError ends the process.
FailBackfill(w) ==
  /\ refresh[w].lane = "backfill"
  /\ refresh[w].pc \notin {"idle", "acquiring"}
  /\ lease' = Released("backfill", w)
  /\ refresh' = [refresh EXCEPT ![w] = IdleRefresh]
  /\ scan' = [scan EXCEPT ![w].pc = "down"]
  /\ UNCHANGED <<github, snap, inv, state, wanted, events, proc, started, givenUp>>

-----------------------------------------------------------------------------
(* The repository has just been tracked, or has been scanned and indexed once. *)
Init ==
  /\ github \in [PRs -> [open : BOOLEAN, rev : {1}]]
  /\ \/ /\ snap = [p \in PRs |-> NoSnapshot]
        /\ inv = [g \in 1..MaxGen |-> NoRows]
        /\ state = [current |-> NoGen, building |-> NoGen, dirty |-> FALSE, since |-> {},
                    counts |-> Counts(NoRows)]
     \/ LET rows == [p \in OpenPulls |-> [rev |-> 1, fresh |-> "current"]]
        IN  /\ snap = [p \in PRs |-> IF p \in OpenPulls THEN rows[p] ELSE NoSnapshot]
            /\ inv = [g \in 1..MaxGen |-> IF g = 1 THEN rows ELSE NoRows]
            /\ state = [current |-> 1, building |-> NoGen, dirty |-> FALSE, since |-> {},
                        counts |-> Counts(rows)]
  /\ lease = [k \in Kinds |-> Free]
  /\ wanted = {}
  /\ events = [e \in Deliveries |-> NoEvent]
  /\ proc = IdleProc
  /\ scan = [w \in Scanners |-> [IdleScan EXCEPT !.pc = "new"]]
  /\ refresh = [w \in Servers |-> IdleRefresh]
  /\ started = {}
  /\ givenUp = [dirty |-> FALSE, since |-> {}]

Environment ==
  \/ \E p \in PRs : OpenOrClose(p) \/ PushHead(p)
  \/ PushBase
  \/ \E k \in Kinds : FallQuiet(k) \/ Heartbeat(k)

Webhooks ==
  \/ \E e \in Deliveries : BeginAccept(e) \/ FinishAccept(e) \/ BeginProcess(e)
  \/ ProcEnqueue \/ ProcStaleSnapshots \/ ProcReadState \/ ProcStaleRows
  \/ ProcMarkDirty \/ ProcDone \/ ProcFails \/ ProcGivesUp

ScanStep(w) ==
  \/ PickScan(w) \/ AcquireScan(w) \/ AcquireScanMisses(w) \/ BeginScan(w)
  \/ BeginRefreshNow(w) \/ RefreshNowBlocked(w)
  \/ ListPulls(w) \/ BuildRows(w) \/ PrepareGeneration(w)
  \/ WriteBatch(w) \/ EndWriting(w) \/ UpdateSnapshots(w)
  \/ CommitScan(w) \/ CompleteScan(w) \/ FailScan(w)

RefreshStep(w) ==
  \/ StartTargeted(w)
  \/ PickBackfill(w) \/ AcquireBackfill(w) \/ AcquireBackfillMisses(w) \/ ChooseCandidate(w)
  \/ FetchPull(w) \/ IndexPull(w) \/ SyncPullFails(w)
  \/ ReadState(w) \/ ReconcileTargeted(w) \/ FinishTargeted(w)
  \/ ReconcileBackfill(w) \/ AdvanceBackfill(w) \/ FinishBackfill(w) \/ FailBackfill(w)

Next ==
  \/ Environment
  \/ Webhooks
  \/ \E w \in Scanners : Start(w) \/ Crash(w) \/ ScanStep(w)
  \/ \E w \in Servers : RefreshStep(w)

Spec == Init /\ [][Next]_vars

(***************************************************************************)
(* A process that lives goes on with what it does, and GitHub answers it;  *)
(* time passes for the lease of a dead one.  RunOnce bounds the burst of   *)
(* targeted refreshes (50 of them, 30s) and then always looks for work on  *)
(* the inventory: webhooks cannot keep it from picking a scan for ever.    *)
(***************************************************************************)
FairSpec ==
  /\ Spec
  /\ \A w \in Scanners : WF_vars(ScanStep(w))
  /\ \A w \in Servers : WF_vars(RefreshStep(w)) /\ SF_vars(PickScan(w))
  /\ \A k \in Kinds : WF_vars(FallQuiet(k))

-----------------------------------------------------------------------------
(* Properties *)

Gens == 0..MaxGen

TypeOK ==
  /\ github \in [PRs -> [open : BOOLEAN, rev : 1..MaxRev]]
  /\ snap \in [PRs -> Row]
  /\ inv \in [1..MaxGen -> Rows]
  /\ state.current \in Gens /\ state.building \in Gens
  /\ state.dirty \in BOOLEAN /\ state.since \subseteq started
  /\ lease \in [Kinds -> [owner : Scanners \cup {NoOne}, quiet : BOOLEAN]]
  /\ wanted \subseteq PRs
  /\ proc.gen \in Gens
  /\ \A w \in Scanners : scan[w].building \in Gens /\ scan[w].rows \in Rows
  /\ \A w \in Servers : refresh[w].pr \in PRs \cup {NoOne} /\ refresh[w].gen \in Gens
  /\ started \subseteq Scanners

Members == IF state.current = NoGen THEN {} ELSE DOMAIN inv[state.current]

\* Readers of the inventory see whole generations only: it changes by the publication
\* of a complete listing, or pull request by pull request as those are refreshed.
Abstract == INSTANCE OpenPullInventory WITH
  open <- OpenPulls,
  generation <- state.current,
  members <- Members,
  listings <- [w \in Scanners |-> LET made == scan[w].pc \in Passing \ {"listing"} IN
                [made |-> made, pulls |-> IF made THEN DOMAIN scan[w].listing ELSE {}]],
  refreshing <- {refresh[w].pr : w \in {v \in Servers : refresh[v].pc = "reconciling"}}

Published == Abstract!Spec

\* A pull request opened or closed at GitHub is not forgotten: while the published
\* inventory has not got it, the inventory is marked dirty or a delivery that will mark
\* it is still to be processed, although scans clear the mark and handlers that read
\* the clock in another order overwrite each other's.  When River gives such a delivery
\* up, this may fail, but not past the commit of the next scan that starts.
NoLostChange ==
  \A p \in PRs :
    state.current # NoGen /\ (p \in Members) # github[p].open =>
      \/ state.dirty \/ givenUp.dirty
      \/ \E e \in Deliveries : events[e].kind = "membership"

\* A snapshot becomes current again only when its pull request is indexed, never
\* because a scan, a reconciliation or a webhook says so.
OnlyIndexingMakesCurrent ==
  [][\A p \in PRs : snap[p].fresh # "current" /\ snap'[p].fresh = "current" =>
       \E w \in Servers : refresh[w].pc = "indexing" /\ refresh[w].pr = p]_vars

\* A row that says current, published or under construction, is of a revision that has
\* been indexed: what a scan or a refresh read of a snapshot before it wrote the row may
\* be outdated, but never ahead of the index.
CurrentRowsIndexed ==
  \A g \in DOMAIN inv : \A p \in DOMAIN inv[g] :
    inv[g][p].fresh = "current" => inv[g][p].rev <= snap[p].rev

\* A server that stays up gets the repository its first inventory, whoever died or was
\* scanning before it: no lease and no half built generation blocks it.
FirstInventory ==
  \A w \in Servers : <>[]Alive(w) => <>(state.current # NoGen)

Quiet ==
  /\ proc.pc = "idle"
  /\ \A w \in Scanners : scan[w].pc \in {"new", "idle", "down"}
  /\ \A w \in Servers : refresh[w].pc = "idle"
  /\ \A e \in Deliveries : events[e] = NoEvent

\* The two below do not hold of this code (README, Known divergences); added to the
\* invariants of MCInventoryRevisions.cfg, either shows how.

\* Status counters describe the published generation.
CountersAgree == Quiet /\ state.current # NoGen => state.counts = Counts(inv[state.current])

\* A pull request counted as current in an inventory that is not dirty has a current index.
CurrentMeansIndexed ==
  Quiet /\ state.current # NoGen /\ ~state.dirty =>
    \A p \in Members : inv[state.current][p].fresh = "current" => snap[p].fresh = "current"
=============================================================================
