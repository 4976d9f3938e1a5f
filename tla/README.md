# A TLA+ model of ghreplica

ghreplica mirrors GitHub repositories into PostgreSQL, keeps an index of what every
open pull request changes, and searches both. This directory specifies the part of it
where processes meet: leases, inventories, queues, webhooks, names, the git mirror and
the search index. It
holds TLA+ modules written from the Go sources, TLC configurations that check them
on small instances, and proofs checked by TLAPS. All paths below are relative to the
root of the repository.

- [The system](#the-system)
- [The modules](#the-modules)
- [What the runs show](#what-the-runs-show)
- [Known divergences](#known-divergences)
- [What is proved](#what-is-proved)
- [What is only model-checked, and what is not modelled](#what-is-only-model-checked-and-what-is-not-modelled)
- [Plan](#plan)

## The system

`ghreplica serve` (`internal/app/serve.go`) runs an HTTP server, a River client for
webhook jobs, a refresh worker, a cleanup worker and one change sync worker in one
process. `ghreplica refresh ...` (`cmd/ghreplica/main.go`) is run by an operator
beside it. They share nothing but the database, the mirror directories and GitHub.

| Component | State | Operations | What makes it correct |
|---|---|---|---|
| Repository leases, `githubsync/change_sync_leases.go` | four groups of lease columns of `repo_change_sync_states` | acquire, heartbeat, release, recoverStale, leaseIsActive | one confirmed holder; a loser stops; a dead holder's lease can be taken |
| Open pull request inventory, `githubsync/change_sync.go`, `inventory_refresh.go` | `repo_open_pull_inventory` by generation; current and building generation, dirty mark and counters in `repo_change_sync_states`; freshness of `pull_request_change_snapshots` | scan, backfill pass, reconciliations, dirty and stale marks | readers see whole generations; no change of the open set is forgotten; what says current is indexed; counters describe what is published |
| Targeted refreshes, `githubsync/change_sync.go` | `repo_targeted_pull_refreshes`, `targeted_refresh_pending` | enqueue, acquire, finish | every pending refresh is settled and shown |
| Repair engine, `githubsync/repair_engine.go`, `change_sync.go` | recent and full-history repair columns, cursors, metrics | request, pass, completion | a repair that ends has covered what it promises, though GitHub's lists move; a request is not missed |
| Work scheduler, `change_sync.go` `RunOnce`, `nextRepoWork` | none of its own | picks a lane | no lane starves another that must run; every change the mode promises to find is found |
| Webhook acceptor and processor, `webhooks/` | `webhook_deliveries`, tracked repositories | accept, project, follow up | a delivery takes effect at least once, and twice, late or out of order is no harm |
| Webhook jobs, `webhookjobs/river.go` | River's job table | insert, work, retry, discard, clean up | every accepted delivery has a job until it is settled; eight attempts |
| Mirror projection, `githubsync/service.go` | issues, pull requests, comments, reviews | upserts, deletes | the newest version wins; what is deleted is gone |
| Repository identity, `githubsync/service.go`, `webhooks/repository.go`, `refresh/service.go` | `repositories`, `tracked_repositories` | claim and release a name, resolve and merge tracked rows | one live owner of a name; what an operator turned off stays off; jobs follow their repository |
| Git change index, `gitindex/` | mirror directories, snapshots, commit tables, refs | `IndexPullRequest`, `MarkBaseRefStale`, `withRepoLock` | a snapshot has all its commits; one writer per mirror; budgets hold; refs only advance |
| Bootstrap jobs, `refresh/service.go` | `repository_refresh_jobs`, `tracked_repositories` | enqueue, claim, succeed, fail, recover, merge of renamed rows | bounded attempts; no job stuck in processing |
| Search index, `searchindex/` | `search_documents`, `repo_text_search_states` | upsert, delete, rebuild, status | documents are those of the rows; the status does not promise more than there is |

The webhook acceptor stores a delivery, projects it, and enqueues its job in one
transaction; the job projects it again, updates the search index, and records the
follow-ups: dirty marks and stale base refs for the inventory, targeted refreshes for
single pull requests. The change sync worker takes up the follow-ups and the repository's
lanes, one at a time, under the leases; its refreshes write the same rows as the webhooks
and index pull requests in the git mirror. Operators' commands do the same from another
process.

What is hard in it:

- Every operation reads the clock (`now`) in Go before its SQL statement; statements
  of other processes run in between. Almost every decision compares such readings.
- The worker picks work with one statement, keeps a copy of the row, and uses the
  copy after it has acquired the lease with another statement.
- A lease says who may start a pass. Nothing but the heartbeat's error stops a pass
  that has lost it, and the writes of the pass are not fenced by it.
- Inventory scans, refreshes of single pull requests and webhooks write the same
  rows, in several transactions each.
- A process may die between any two statements. An error of a pass ends the process
  (`ChangeSyncWorker.Start` returns it, `startServeWorker` stops the server); an error
  of a targeted refresh is only logged.
- GitHub answers page by page while its lists move, sends deliveries late, twice, out of
  order or not at all, and its repositories take each other's names.
- Rows that several processes write are sometimes guarded (`updated_at`, a WHERE clause on
  the status), sometimes read, changed in memory and written back whole.
- Webhook follow-ups run twice: in the acceptor's transaction, and again, with a
  clock reading of its own, when the job processor handles the delivery. That the
  dirty mark is never lost (`NoLostChange`) rests on the second time.

## The modules

| Module | Models | State ↔ code |
|---|---|---|
| `LeaseContract` | abstract: what a lease promises | holder, its last sign of life, who acts as the holder |
| `RepoLease` | `change_sync_leases.go` and the operator's acquisition in `inventory_refresh.go` | `lease` is one kind's columns; `at[w]` the `now` a worker has read and not used yet; `phase` its place in `RunOnce` and `runWithLeaseHeartbeat`; `beat` is history |
| `RepoLease_proofs` | theorems about `RepoLease` | |
| `OpenPullInventory` | abstract: what readers of the inventory see | generation, its pull requests |
| `InventorySync` | inventory scans, backfill passes, the inventory side of targeted refreshes, webhook marks | `inv[g]` are the rows of generation g; `state` the repository's row; `scan[w]`, `refresh[w]`, `proc` what a process has read and carries to its next statement |
| `InventorySync_proofs` | theorems about `InventorySync` | |
| `TargetedRefresh` | the queue of targeted refreshes | `row` the queue's rows, `worker[w].attempts` the count copied at the pick |
| `TargetedRefresh_proofs` | theorems about `TargetedRefresh` | |
| `RefreshJobs` | the bootstrap jobs of one repository, `refresh/service.go` | `jobs` the rows, one for each command that inserted one; `runner[w]` the job a worker has claimed and the expired rows it has read |
| `MirrorRows` | the statements of the projector in `githubsync/service.go` | a row is a version `[n, at]`: GitHub's n-th change and the `updated_at` it carries |
| `WebhookIngest` | `webhooks/acceptor.go`, `processor.go`, `event_projection.go`, `cleanup.go`, `webhookjobs/river.go`, over `MirrorRows` | `delivery`, `job` and `rows` are tables; `worker[w].todo` what a job has left to do; `effects` the follow-ups recorded |
| `WebhookIngest_proofs` | theorems about `WebhookIngest` | |
| `RepositoryIdentity` | names and tracked rows: `webhooks/repository.go`, `githubsync/service.go`, `refresh/service.go` | `repo` the name each row of `repositories` claims, `tracked` the rows of `tracked_repositories`, `proc[a]` what a worker or the reader carries between statements |
| `RepositoryIdentity_proofs` | theorems about `RepositoryIdentity` | |
| `SearchIndex` | `searchindex/service.go`, `status.go` and their callers | `docs[o]` the version a document was built from, `state` the status row, `proc[w].old` the copy of it in memory |
| `SearchIndex_proofs` | theorems about `SearchIndex` | |
| `ChangeDetail` | the pure part of `gitindex/service.go`, `git.go`: which detail of a diff is kept and under which path | sequences of files, budgets as records |
| `GitIndex` | `IndexPullRequest`, the mirror and its lock, over `ChangeDetail` | `snapshot`, `commits`, `refs` are tables, `mirror` the directory, `indexer[i]` an indexing under way |
| `GitIndex_proofs` | theorems about `GitIndex` | |
| `WorkScheduler` | the choice of work in `change_sync.go` and the repair passes of `repair_engine.go` | `state` the repository's row, `worker[w]` a pass and the plan it has read, `gh.pulls` and `gh.issues` GitHub's lists |
| `ServerWork_proofs` | theorems about `RefreshJobs` and `WorkScheduler` | |
| `MC*` | instances for TLC | |

Decisions that hold for all of them:

- **One step** is one SQL statement, one transaction, or one call to GitHub or git.
  What happens inside a transaction (READ COMMITTED) is taken as atomic.
  Two transactions are taken apart, because another one may commit in the middle of
  them: `finishTargetedRefresh` updates its row and counts the rows that wait, and then
  writes the flag and commits, with only its own row locked in between; and
  `RequestRecentPRRepair` reads the clock before it writes.
- **Time.** `RepoLease` has a clock and keeps the arithmetic of the durations. The
  others keep only the comparisons the code makes: `quiet` says that a lease has run
  out, `due` that a backoff is over, `served` that `last_completed_at >= requested_at`,
  and a reading of the clock is the set of processes whose scan had started by then
  (`dirty_since > scan_started_at` is membership in that set).
- **Dying.** `Crash` (`ServerDies` in `RefreshJobs`) leaves the database as it is. An owner id
  belongs to one start of one process, so a dead member of `Servers` never returns; another one starts.
- **Overlap.** `Overlap = FALSE` lets servers follow each other, `Overlap = TRUE` lets a
  new one start while the last one still runs; an operator's command runs beside them.
- **Pausing.** A process in `Pausing` may miss its heartbeats until its lease can be
  taken, and still go on; the others keep it while they live.
- **Repeating.** What GitHub or a caller may do again is bounded by constants whose comment
  begins with "bound". History variables (`crossed`, `raced`, `orderly`, `steady`, `excused`, `givenUp`, `served`, `off`)
  record what a property speaks of or makes an exception for; no guard of the code's steps reads them.
- **Data.** A pull request's head, base SHA and base ref are one revision number.
  Freshness is missing, current or stale, the classes the counters tell apart.
  A backfill pass handles one candidate (`backfillMaxPRsPerPass = 1`), any one.

The interaction of leases with the work they protect is modelled twice on purpose:
in detail with time in `RepoLease`, and by their contract in the others, where a
lease is an owner and whether that owner has been silent too long. In the same way
`WorkScheduler` takes an inventory scan, a backfill pass and a targeted refresh as one
step; `InventorySync` and `TargetedRefresh` have their inside.

## What the runs show

| Run | Instance | What it shows |
|---|---|---|
| `repo_lease` | 2 workers, time up to 11 units of 200ms, the code's own interval and staleness bounds, lease time 6 units | exclusion (`OneConfirmedHolder`), agreement of the two tests (`TestsAgree`), the loser stops (`LostPassStops`), `LeaseContract` is implemented (`Contract`). 54,796 states |
| `inventory_restart` | 1 pull request, 2 servers one after the other, 2 generations, 1 delivery, whose job may be given up | `NoLostChange` and the refinement of `OpenPullInventory` (`Published`). 1.17 million states with symmetry, and without what readings of the clock say of processes that are gone (`Living`) |
| `inventory_revisions` | 1 pull request with 2 revisions, 1 server, crashes anywhere | `CurrentRowsIndexed`, `OnlyIndexingMakesCurrent`. 1,116,692 states |
| `inventory_first` | 2 servers that overlap and 1 operator; one server may pause past its lease, so scans and passes are taken from each other and two scans may write one generation | `FirstInventory`. 265,160 states |
| `targeted_refresh` | 1 pull request, 2 servers that may overlap, 2 attempts (the code: 5), 1 change, 1 delivery; repairs that fall due | the flag is not lost, however requests and the two statements of completions cross (`WorkIsShown`); a refresh that waits is settled (`Settled`). 66,462 states |
| `refresh_jobs` | 2 commands that may race, 2 servers one after the other, 3 attempts, a job of an earlier release or none | `AttemptsRemain`, `OutcomeStands`, `JobsEnd`. 13,575 states |
| `webhook_ingest` | 2 events among issues, comments, pull requests and pushes, 1 worker, 2 attempts (the code: 8), 1 crash, 1 object read by a sync, the first delivery old enough to be cleaned up | a stored delivery keeps a job (`JobForEachDelivery`), its follow-ups are recorded before it counts as processed (`FollowUpsRecorded`), guarded rows never fall behind what was accepted (`NeverBehind`), an orderly history ends in GitHub's state (`InOrderSettles`), deliveries settle (`DeliveriesSettle`). 657,755 states |
| `repository_identity` | 2 repositories, 3 names, 2 renames or operators' switches, 2 deliveries, 1 webhook worker and 1 reader with one refresh job or sync, 3 tracked rows | names settle on their owners (`NamesSettle`), turned off stays off until a bootstrap (`PolicyKept`), refresh jobs fetch the repository they were requested for (`JobsFollowRenames`). 2,054,857 states with symmetry |
| `search_index` | 1 issue with 1 comment, 2 versions, 2 deliveries, 2 workers, 1 rebuild, 1 failure or crash | `DocumentsFollowRows`, `CompleteCoversRows`, `NothingVanishes`. 290,415 states with symmetry |
| `git_index` | 2 pull requests that share a commit, one force-pushed, one with a merge commit; 2 indexers; 8 diffs; budgets scaled so that each of them is met and exceeded; 1 failure, timeout or crash | `SnapshotsHaveCommits`, `ServedIsShown`, `DetailWithinBudget`, `PatchesUnderTheirFiles`, `RefsAdvance`, `IndexingEnds`. 267,786 states |
| `work_scheduler` | 2 pull requests and a plain issue, one of the pull requests and the issue out of the recent window; 2 workers, pages of one entry, one page in a pass, 1 change or request, 1 failure; open-only and full-history repositories | what a repair says it has done it has done, over its passes, failures and lists that move (`RepairCovers`). 844,836 states with symmetry |
| `one_bad_pull` | the same with 1 worker and a pull request that GitHub lists and never returns | `RefreshesHappen` is violated, see [Known divergences](#known-divergences) |

All type invariants are proved. Those of `RepoLease`, `RefreshJobs` (`JobsTypeOK`), `GitIndex`
and `SearchIndex` are not checked again; those of the other modules are invariants of their
runs as well.

Further instances, each a configuration of its own that TLC finishes without an error:

| Configuration, module | Instance | What it shows |
|---|---|---|
| `MCInventoryMarks.cfg`, `MCInventorySync` | 1 server, 2 deliveries whose handlers cross | `NoLostChange`: a handler that read the clock earlier overwrites the mark of a later one, and no change is forgotten by it. 2,147,176 states |
| `MCRefreshShown.cfg`, `MCTargetedRefresh` | 2 pull requests, 2 servers that overlap, 1 delivery | `WorkIsShown` where the completion of one row counts another. 1.48 million states with symmetry |
| `MCWorkArrives.cfg`, `MCWorkScheduler` | 1 worker, 1 failure; all three modes that sync | `ChangesArrive`. 35,608 states |
| `MCWorkShared.cfg`, `MCWorkScheduler` | 2 workers, no plain issue; open-only and open-and-recent | `ChangesArrive` with a second worker beside. 69,396 states |

`ChangesArrive` says what each mode promises of a change whose webhook is lost: the
inventory finds heads that moved and pull requests that opened; closings and edits only a
repair finds, the recent one within its window, the full history everywhere.

**Bounds.**

- *Inventory and refreshes.* One pull request suffices for the properties that speak of
  one row: rows of different pull requests meet only in the counters and in
  `targeted_refresh_pending`, which the proofs cover for every set of pull requests. Two
  generations suffice because a scan looks at two, the one it builds and the one current
  at its pick. One delivery, whose acceptor and processor read the clock each, is enough
  for a mark that crosses a scan; the two that overwrite each other's are in
  `MCInventoryMarks.cfg`. A job is tried any number of times before it is given up. `LateCrash = FALSE` in
  `inventory_restart` leaves out the one crash that is known to break `Published`.
- *Leases.* `MaxClock = 11` lets a lease be taken, renewed, run out and be taken over, with
  a whole staleness period to spare.
- *Bootstrap jobs.* Two suffice for a race of two commands and for a worker that chooses.
- *Webhooks.* Two events are what can be out of order; one object of each kind, since rows
  of different objects meet only through their parent; two attempts, since the third to
  eighth repeat the second. One worker works the jobs off in every order and is
  interrupted by the acceptor, the sync and the crash between any two statements.
- *Names.* Two repositories and three names let a name be swapped, be taken over and be
  free in between; three rows leave one to be merged away. An operator's switch counts as one of the renames,
  so that it meets one on either side. A name taken back needs more renames,
  which the proofs cover.
- *Search.* An issue and its comment are the one cascade there is. Two workers and a
  rebuild are every pair of writers that can cross.
- *Git.* One path element before the name suffices for the prefixes `a/` and `b/`; the diffs
  are chosen so that each budget decides once, before and after a rename.
- *Scheduler.* Pages of one entry make every step of GitHub's list cross a page boundary;
  one change moves one entry from any page to the first. A repair that has been due may be
  due again before the work is done only as often as there are changes.

**Deadlock** is not checked: every process may have died, or GitHub may have nothing more
to say and all work be done, which are states the system may really stop in.

**Fairness.** Nothing is assumed of crashes, GitHub's changes, its answers or its
deliveries, operators' commands, cleanup or pauses.

- `RepoLease`: heartbeats are sent and their answers read, and a cancelled pass returns
  (all its calls take the context).
- `InventorySync` and `TargetedRefresh`: a live process continues (calls to GitHub and the
  database have timeouts, so they answer or fail), time passes, and picking is strongly
  fair: `RunOnce` ends a burst of targeted refreshes after 50 of them or 30s and then always
  looks for inventory work, and the picker prefers rows that were never attempted, of
  which there are finitely many.
- `RefreshJobs`: a live worker continues, its crawl of a finite repository ends, and time
  passes.
- `WebhookIngest`: a worker of River continues with its job, which has a timeout, and a
  retry that has been scheduled comes.
- `GitIndex`: some indexing that can go on does, be it with an error. No fairness between
  the two that wait for the lock is assumed: each ends, and then the other is alone.
- `WorkScheduler`: each worker goes round, its pass continues or fails, an inventory grows
  old, and a targeted refresh that is allowed again and again is done (strong fairness): every
  round of `RunOnce` begins with the refreshes. The repairs fall due again and again, once
  the workers have come to rest: their intervals, a day and more, are longer than the work.

## Known divergences

Where the code does other than a document of the repository says. The first is a run;
each of the others is a property or a setting of the models that is not among the runs'
and that TLC refutes in the way given. Where a configuration is named in brackets, it is
that one, as it stands, which TLC refutes.

- **One bad pull request holds back the others** (run `one_bad_pull`). A pull request that
  GitHub lists and fails to return makes every recent repair fail. A failed repair
  leaves `last_successful` as it was (`change_sync.go:1363`), so the repair stays due, goes
  before the other lanes, and no targeted refresh of the repository is picked while it is due
  (`change_sync.go:1403`). `docs/2026-04-15-gradual-index-fill-design.md:661` wants to "keep
  other PR work moving", line 662 "never leave a repo permanently blocked by one bad PR".
- **Counters of a generation that is gone** (`CountersAgree` as an invariant of
  `MCInventoryRevisions.cfg`). `markInventoryBaseRefStale` (`change_sync.go:2214`) reads the
  current generation, then, in its transaction, marks and recounts the rows of that
  generation. A scan committed in between keeps the counters of the old one.
  `docs/2026-04-18-three-lane-change-sync-plan.md:449` names "status counters remaining
  consistent while lanes alternate".
- **Current, though the base has moved** (`CurrentMeansIndexed`, likewise). Snapshots read
  before a base branch push and rows published after it say current, while the mark of the
  push is cleared: its clock reading precedes the scan, its marks do not.
  `docs/2026-04-15-gradual-index-fill-design.md:239`: "When inventory is stale or dirty,
  completeness counts must not pretend to be current."
- **A published generation is built again** (`LateCrash = TRUE` in `MCInventoryRestart.cfg`,
  which also loses a change; with `NoLostChange` removed, `Published`). Publishing a
  generation and clearing `inventory_generation_building` are two statements. A process that
  dies between them leaves the published generation as the one to build, and the next
  scan begins by emptying it. The three-lane plan wants to "never partially commit a
  building generation" (:128) and to "keep the previous committed generation active" (:129).
  `Published` is violated in the same way with `Overlap = TRUE`, by the reconciliation of a
  targeted refresh whose process picked its generation before.
- **A pending refresh that is not shown** (`PendingShown`, `MCRefreshUnshown.cfg`).
  `finishTargetedRefresh` asks whether any row still waits (`change_sync.go:1517`) and
  writes the answer to `targeted_refresh_pending`, under READ COMMITTED and without a lock on
  the flag. A request of another pull request that commits in between has its flag
  cleared. The row is still found by the picker, which does not read the flag. The three-lane
  plan has the status surface show "targeted refresh work pending", directly, as
  `targeted_refresh_pending` (`docs/2026-04-18-three-lane-change-sync-plan.md:386`, :394, :398).
- **Parked unheard** (`ParkedAfterAttempts`, `MCParkedUnheard.cfg`). A request resets the
  attempts of its row. The completion of an attempt that was running by then writes the count
  it copied at its pick, plus one (`change_sync.go:1500`): if it was the last, the new
  request is parked without an attempt of its own.
  `docs/2026-04-23-immediate-pr-webhook-ingest-plan.md:301`: "after `5` failed attempts, mark
  the row as parked"; :506: "fresh PRs are processed ahead of old repeatedly failing targeted
  refresh rows".
- **Current, and of an older head** (`CurrentIsLatest`, `MCGitStale.cfg`). A repair stores the
  row of a pull request and asks nobody to index it (`change_sync.go:693`), and an indexing
  that fails is given up after some attempts. If the push's webhook was lost, the snapshot
  stays at the older head, marked current, until the next inventory scan compares it.
  `docs/2026-04-15-git-ground-truth-implementation-plan.md:604`: "A PR snapshot is only current
  if all of these still match", among them the head SHA.
- **A request that is not heard** (`RequestIsHeard`, `MCRequestLate.cfg`).
  `RequestRecentPRRepair` reads the clock (`change_sync.go:231`) before it writes, and a
  request is pending while it is not older than the end of the last pass. A request whose
  reading precedes that end and whose write follows it is stored and not pending.
  `docs/2026-04-20-recent-pr-repair-mode.md:83` has the request start "an immediate repair run
  when stale PR state needs to be corrected now"; :173: operators "do not want to wait for the
  next daily run".
- **A switch that is written over** (`PolicyIsDurable`, `MCPolicyRaced.cfg`). The program never
  turns webhook projection off; an operator does, in the table. A sync writes back the
  policy it read (`internal/refresh/service.go:494`), a merge of two tracked rows the
  one it read (:575), so a switch made in between is undone.
  `docs/2026-04-21-sync-architecture-redesign.md:177`: "Repo policy should define durable
  intent", :179: "webhook ingestion enabled".
- **A change during its refresh** (`ChangesIndexed` as an invariant of
  `MCTargetedRefresh.cfg`, with `MaxChanges = 2`). A request that arrives while its pull request is being refreshed
  counts as served when that refresh ends, although its change came after the fetch. The
  three-lane plan (:76, :80): "refresh the exact PRs that changed", "This lane owns
  freshness for recently changed PRs". The next repair or scan brings it.
- **Rows without a guard go back** (`NoRollback` as a property of `MCWebhookIngest.cfg`).
  Comments, reviews and review comments are written whatever their stored version is.
  `docs/2026-04-23-immediate-pr-webhook-ingest-plan.md:259`: "older webhook payloads must not
  roll canonical state backward"; :399 says it of pull requests, for which it holds
  (`NeverBehind`).
- **A job and the repository that takes the name** (`JobsStayAttached` as an invariant of
  `MCRepositoryIdentity.cfg`). A job whose repository's rename is not yet known fetches
  whatever repository now has the name.
  `docs/2026-04-16-repository-rename-hardening-plan.md:227`: "refresh jobs stay attached to
  the same repo after rename". For the same reason a repository that takes the name of one
  that was turned off inherits its tracked row.

What the models show beside that, with no document against it:

- With two servers that both stay up, `Settled` promises nothing: each may take the other's
  row lease, which nobody renews, before the other one finishes. It holds from the
  moment one of them is left alone, which is how it is stated.
- With overlapping servers `AttemptsRemain` and `OutcomeStands` of `RefreshJobs` fail and
  `JobsEnd` holds: `markSucceeded` and `markFailed` select the job by its id alone, so a
  worker that needs longer than the five minutes of its lease overwrites what the one that
  took the job over has recorded. Two `ghreplica refresh repo` commands at once both insert
  a job.
- A delivery that the cleanup deleted and GitHub sends again while River still remembers
  its job is stored and never processed (`cleaned` in `JobForEachDelivery`).
  A push whose repository row could not be written counts as processed (`degraded`).
- The documents of comments whose issue was deleted stay (`orphans`); a rebuild replaces a
  document by one of an older row when a webhook crosses it, and the status of a failed
  rebuild is overwritten by any upsert (`raced`). Comment documents keep the issue number
  and state of the time they were indexed.
- A `git init` that was killed leaves a directory that no later indexing repairs; an
  indexing that has waited long for the lock overwrites a newer snapshot (`crossed`), until
  the next one; a file removed below a top-level directory `b` may lose its patch to another
  path. An indexing that ran out of time before its transaction marks nothing.
- With two webhook workers (`WEBHOOK_JOB_QUEUE_CONCURRENCY`, which is 1 unless it is set,
  `config.go:89`) TLC refutes `InOrderSettles` and `NamesSettle`: two deliveries of one
  object are then worked off in either order, statement by statement. `PolicyKept`,
  `JobsFollowRenames` and the other properties of `WebhookIngest` are proved for any number.
- A request for a recent repair that arrives while a pass runs is cleared by the end of that
  pass, or taken for finished when the pass fails; it also makes a repair that has more
  passes to go begin again at the first page, and one that is not pending (above) drops
  them. A request between the pick of a pass and its start is answered by a pass that begins
  at the page the earlier one had reached.
- In open-only mode a closing or an edit of title or labels whose webhook was lost is never
  found: the scan lists open pull requests and compares heads and bases
  (`change_sync.go:1844`, :1808). A pull request that cannot be indexed keeps the backfill
  lane available, and that goes before the scan of an aged inventory: with one in `Bad`,
  TLC refutes `ChangesArrive`, for the others too.
- A webhook job that fails eight times is discarded, and the dirty mark it had to make is
  lost (`givenUp` in `NoLostChange`) until the next scan that starts afterwards.

## What is proved

TLC checks small instances; the theorems hold for every value of the constants that
satisfies the assumptions in the modules: any set of workers, any positive lease time and bounds
on the heartbeat interval (`RepoLease`); any sets of pull requests, servers and
deliveries, overlapping servers included, and any positive number of attempts
(`TargetedRefresh`); any number of commands, servers that follow each other and any positive
number of attempts (`RefreshJobs`); any pull requests, histories of commits, indexers, budgets,
diffs and failures (`GitIndex`); any issues, comments, versions, workers, rebuilders and
failures (`SearchIndex`); any pull requests, revisions, servers, operators, deliveries and
generations (`InventorySync`); any number of changes, workers, attempts, crashes and syncs
(`WebhookIngest`); any repositories, names, webhook workers, renames, jobs and syncs
(`RepositoryIdentity`); any lists of pull requests and issues, page sizes, recent windows,
workers, changes, requests and failures (`WorkScheduler`).

`RepoLease_proofs`:

| Theorem | Statement |
|---|---|
| `TypeCorrect` | `Spec => []TypeOK` |
| `Exclusion` | `Spec => []OneConfirmedHolder` |
| `TestsAlwaysAgree` | `Spec => []TestsAgree` |
| `Implementation` | `Spec => Contract`, that is `LeaseContract!Spec` under the refinement mapping |

None of these is inductive. The invariant is `IInv`: a clock reading a worker carries
is in the past and not older than its last heartbeat (`ClocksOK`); heartbeat and
expiry columns move together, exactly one lease time apart (`ColumnsOK`); and, the
heart of it, a worker in a pass either is the owner and the row shows its last
heartbeat, or has been silent for `Patience` (`HoldersOK`). A step that takes the lease
away needs the row to be reclaimable at a time in the past, hence silent now
(`TakenIsSilent`), which is why reading the clock early is harmless. `TestsAgree` is
`ColumnsOK` and the arithmetic of the two tests (`GoTestIsSqlTest`): the Go test
rederives the lease time as `until - heartbeat`, which is the lease time only because
the columns move together. `Implementation` maps `Acquire` and `AcquireRefreshNow` to
`Grant`, a landing heartbeat to `Renew`, `Release` to `Yield`, `Crash` to `Die` (or a stutter, if the process held nothing),
`RecoverStale` to `Evict` or a stutter and time to `Elapse`; everything else stutters.

`TargetedRefresh_proofs`: `TypeCorrect` and `PendingIsShown` (`[]WorkIsShown`). The invariants
strengthen each other: a worker's copied count is below the maximum because a row with
spent attempts is parked and not eligible (`SpentAreParked`), and so an outcome's count never
exceeds it. For the flag it is `CountsOK` that is needed: from the count to the commit of a
completion that has counted none, no row waits but the one it holds, which will not wait
once the update is visible, unless the two have crossed. What makes another row wait in that
window, a request that commits, is what `crossed` records.

`ServerWork_proofs` has two parts. The first, about `RefreshJobs`, has `Overlap = FALSE` as a
hypothesis throughout: `JobsTypeCorrect`, `WaitingJobsHaveAttempts` (`[]AttemptsRemain`) and
`OutcomesStand` (`OutcomeStands`). The completions are not guarded by the row's status, so what
makes them harmless has to be an invariant: at most one runner is alive, the job it works on is
still in processing, the expired rows it read are still as it read them (`RunnersOK`), and a
command that has yet to insert its job has no row (`CommandsOK`). `OutcomeStands` follows step
by step (`FinalRowsStand`).

The second part is about `WorkScheduler`: `SchedulerTypeCorrect` (`[]TypeOK`) and `RepairsCover`
(`RepairCovers`). Their invariant is `RepairInv`. A repair goes
through two lists that GitHub reorders while it walks, so its cursor says less than it seems
to. What it does say is `Walked`: what stands before
the cursor's page in the list of pull requests is stored as GitHub has it, and likewise for
issues, or it was changed since the repair began. This survives a change because a changed
entry moves to the front and all others keep their order (`UpdatedList`), so the first k entries
are afterwards the changed one and some of the first k before; entries pushed beyond the cursor
are read twice, none is skipped. `CursorsOK` says the same of the cursors in the row, with which the
next pass begins, whether the last one ended or failed. `Planned` says that what is stored and
what the worker has read of pull requests covers the page it is at, and
`Finished`, which holds when the pass is done, that the whole window is covered. A pass is done
when the pages of both lists are empty or, for the recent window, have an entry that is too old:
old entries come last, so everything in the window is before it (`DoneIsBehind`).
`SchedulerAssumption` asks of GitHub's lists that they hold every pull request
and issue once, in one order, those out of the window last.

`GitIndex_proofs`: `TypeCorrect`, `SnapshotsComplete` (`[]SnapshotsHaveCommits`), `ServedStaysShown`
(`[]ServedIsShown`), `RefsNeverGoBack` (`RefsAdvance`), `BudgetsHold` (`[]DetailWithinBudget`) and
`PatchesAreUnderFiles` (`[]PatchesUnderTheirFiles`). The invariant `IInv` says of every
indexing (`IndexerOK`) that it is of the row stored last, unless another was stored
meanwhile, and that the head it fetched is no older than the ref that is stored. The second
part is what makes refs advance, and it rests on the lock: `TypeOK` has it that whoever is past
waiting holds the lock, so no ref moves between an indexer's fetch and its update.
`SnapshotsHaveCommits` is preserved because `shouldRewriteCommitBundle` writes a commit again
that is stored without the rows of all its parents.

`ServedIsShown` is about two indexings that wait for one lock and rows that are stored between
and during them: it survives because an indexing that was overtaken is of a pull request in
`crossed`, and no other can write an older head over a newer one.

The last two are about every diff and all budgets: those of the code, and any others where the
limits for paths are not below those for full detail (`BudgetsAssumption`). A diff is any
sequence of files as git names them (`DiffFiles`: names without slashes, paths without blanks at
their ends, which `normalizePatchPath` would trim; only a file that is still there was renamed).
`Made` says that all that is stored is made of the diff, the rows of a commit with the
budget of its kind (merge or not); what the making guarantees are lemmas about `ChangeDetail`
(`ParentWithin`, `PullUnderPaths`). Its operators fold: patches are applied one after the
other, bytes and lines are added up. A property of a fold needs induction, which the
library offers only for operators. It is stated here for sets: `NatSet` and `SubsetsOneByOne`
follow from the least element of a set (`LeastOf`), `FoldExists` has the function a fold is defined
by, and `PatchesPreserve` and `SumIsNat` are the two instances the operators need.

`InventorySync_proofs`:

| Theorem | Statement | Hypothesis |
|---|---|---|
| `TypeCorrect` | `[]TypeOK` | none |
| `CurrentRowsAreIndexed` | `[]CurrentRowsIndexed` | none |
| `CurrentByIndexing` | `OnlyIndexingMakesCurrent` | none |
| `ChangesAreAnnounced` | `[]NoLostChange`, for deliveries that are not given up | `OneByOne` |
| `InventoryIsPublished` | `Published`, that is `OpenPullInventory!Spec` | `OneByOne` |

The first three hold however processes overlap, pause and die. Their invariant `IInv` follows
rows out of the tables: a row says "current" only of a revision that has been indexed, be it
stored, in the hands of a scan that has built it and not written it, or in those of a
refresh; snapshots never go back, so a copy does not become wrong by growing old.

The last two need an orderly history. `OneByOne` says that servers follow each other, no
operator's command runs beside them, and none dies between the two statements that publish a
generation and clear the one under construction. It is the instance of `inventory_restart`;
without the first or the last of the three TLC refutes a conclusion (see
[Known divergences](#known-divergences)), the second keeps "at most one scanner" an
invariant. The strengthening, `Orderly`, has two parts. `Owned` and `NextGeneration` tie what a scan carries to
the repository's row: the generation it builds is the next one, its rows so far are those
of its listing, and the owner of the lease is the one that is alive. `ListingOK` and
`FetchedOK` say of what was read at GitHub that it is true, or that a change is announced by
a mark that this scan will not clear: dirty with a reading of the clock taken after the scan
began, and no processor about to overwrite it with an older one; or by a delivery that is
still to make such a mark. That is the point of comparing `dirty_since` with the start of the
scan and not with its end. `InventoryIsPublished` maps `CommitScan` to the publication
of a listing, the writes of refreshes to amendments, and all else to stutters.

`WebhookIngest_proofs`: `TypeCorrect`, `DeliveriesHaveJobs` (`[]JobForEachDelivery`),
`FollowUpsAreRecorded` (`[]FollowUpsRecorded`) and `RowsNeverBehind` (`[]NeverBehind`).
`TodoOK` is what makes them inductive: what a worker has left to do ends with the mark that
sets the delivery to processed, and it contains every follow-up that is not recorded yet, so a
worker that reaches the mark has recorded them all, however often the job was tried before.
A queued job is available and queued once, and a job that is running is on one worker
(`QueueOK`, `WorkersOK`); this is what redelivery, retries, rescue and discarding preserve.
`NeverBehind` is preserved by every statement of the projector because the guarded ones
keep the newer version and the others write no gated row. The acceptor projects a delivery
with a fold over its statements; there are at most three of them (`ObjectStatementsShape`),
so the proof unrolls the fold and needs no induction.

`OrderSettles` (`[]InOrderSettles`) assumes `SingleWorker`: River works on one job at a time,
as it does unless the operator sets another number. Its invariant, `OInv`, has three parts.
`Line`: in an orderly history (none arrives late, no job fails) deliveries are
accepted, queued and worked on in the order of the changes, and none is left behind. `Families`, `Seconds` and `LastTold`: GitHub's state of an
object is what the last payload that changes it says, also when two changes fall into one
second. `Covered`: a row that is not as GitHub is will be written again, by a statement the
worker still has to execute or by a delivery that waits behind it. When nothing is left to
do, nothing is covered, and so every row is as GitHub is. The hypothesis is needed: with two
workers a later delivery may be written before an earlier one, and the unguarded rows then keep
the older state.

`SearchIndex_proofs`: `TypeCorrect`, `DocumentsFollow` (`[]DocumentsFollowRows`),
`CompleteCovers` (`[]CompleteCoversRows`) and `NothingIsLost` (`NothingVanishes`). The
invariant, `OInv`, has three layers. `IInv` follows the types of what writers carry from one
statement to the next: the copy of the status row, the image of a rebuild, a delivery of a
comment that always brings its issue along. `Known` holds whoever crosses: a row, a document,
a value read back or an image that has an object GitHub has not deleted goes on having it, and
a job that deletes is of an object that is gone. `Ordered` holds until two writers cross
(`raced`): workers that are busy touch different objects; each document, each value read back
and each image loaded is that of its row, or the object is an orphan, or it is still *due*, that
is, a job for it waits or a worker is on its way to write it. What is due is sharper than what
the properties call pending, as a job touches the comments of its issue and indexes none of
them. A rebuild may load its two tables at different times because a row that changes
makes its object due, and stays so until an index write that the rebuild notices
(`disturbed`).

`RepositoryIdentity_proofs`:

| Theorem | Statement | Hypothesis in the property |
|---|---|---|
| `TypeCorrect` | `[]TypeOK`: types, unique names, and jobs that point to a row that is there | none |
| `JobsFollowed` | `[]JobsFollowRenames` | `~crossed` |
| `PolicyStays` | `[]PolicyKept` | `~crossed` |
| `NamesAreSettled` | `[]NamesSettle`, for one webhook worker (`SingleWorker`) | steady: no failure, no reader between |

`off` are the repositories that an operator turned off while nobody was at work on them, until
a bootstrap succeeds, which turns them on (`markSucceeded`, `internal/refresh/service.go:337`).
The hypothesis `~crossed` is that nobody has taken a name that is still known as another's;
without it TLC refutes both (see [Known divergences](#known-divergences)). It is about what GitHub
does and not about the schedule: workers, the reader and the acceptor interleave as they like.
Three invariants serve the first three theorems, which say nothing of the order or the number of
the webhook workers. `IInv` needs no hypothesis: it has the unique names and the foreign keys of
the tables, and `ProcOK`, what an actor may carry from one statement to the next. `FollowInv` is
the meaning of `~crossed`. `Knows(n, g)` collects every place that keeps a name as that of a
repository (GitHub, both tables, jobs, deliveries, what actors carry); `OneOwner` says that no
two repositories are known by one name, and every step other than a rename learns nothing new
(`NothingLearnt`). From this follow `ProcFollows` and `JobsFollow`: an actor and a job
are at a row of their own repository, or at one without a repository under one of its names, so a
merge only moves jobs between rows of one owner. `OffInv` adds what an operator chose: a
repository that is turned off has exactly one row and no row without a repository has one of its
names, so that no merge ever concerns it; and what actors carry on their way to it (the policy
a sync has read, the row a delivery has found) was read after the switch and does not turn it on.

`NamesAreSettled` does need the order: it speaks of names that are taken over, and what decides
is which delivery is worked off last. Its invariant is `NInv`. As long as the history is
steady (and not excused: a repository that was turned off may be in the way of one that takes its
name), no repository has two rows (`RowsTidy`), what the worker carries is what the tables
say, and the row it is at is the only one of its repository (`WorkersTidy`). Every repository that
has sent a delivery since it took its name is accounted for (`Told`): either a delivery with its
name waits, and none behind it concerns the repository or the name (`Announced`); or none that waits
does (`Clear`), and the worker is handling such a delivery (`Handled`) or is at another
repository's rows (`Aside`) while the repository's own is as it should be (`SettledAs`). When
nothing waits and nobody works, only the last is left, which is the property. An earlier form of
`NamesSettle`, which asked only whether the name a repository has now was ever told, did not get
through this proof, and TLC refutes it with four renames: a repository may take a name back
without a word. `told` is therefore reset by a rename.

## What is only model-checked, and what is not modelled

Liveness (`LostPassStops`, `FirstInventory`, `Settled`, `JobsEnd`, `DeliveriesSettle`,
`IndexingEnds`, `ChangesArrive` of the further instances, and `RefreshesHappen`, which fails) stays with TLC: the prover
has no support for fairness and ENABLED. Every invariant and every action property that a run
checks is proved, some of them with the hypotheses named above. The refinement mappings are proved
(`Contract`, and `Published` under `OneByOne`). What the theorems do not speak of is what the
models leave out:

- *No state of their own.* The HTTP API, the command line client, the public reader package,
  configuration, migrations and the database connector: they read, format or connect. The
  GitHub client is an environment that answers or fails. Searches (ast-grep, the ranking and
  matching of text queries) only read.
- *Left out of modelled parts.* Signatures and the parsing of payloads; users; the columns of
  rows beyond their version; parsing of git's output byte by byte; statement order
  inside a transaction, but where said above; indexing again a row that did not change; the columns `targeted_refresh_lease_*` (shown to users, read by
  nothing); error texts, metrics and logs.
- *Times.* River's backoff and the 24 hours after which it gives a job up, lock files that a
  killed git leaves behind, the backoff of failed lanes, repairs that take longer than the
  interval between them, the fairness between repositories.
- *Sharing.* The authorization header that indexings rewrite without a lock (a data race on a
  string that all set to a token of the same installation). Mirror and lock are kept for an
  owner and a name, so a renamed repository gets another mirror.

## Plan

Done: `LeaseContract`, `RepoLease`, `OpenPullInventory`, `InventorySync`, `TargetedRefresh`,
`RefreshJobs`, `WorkScheduler`, `MirrorRows`, `WebhookIngest`, `RepositoryIdentity`,
`ChangeDetail`, `GitIndex`, `SearchIndex`, all with proofs of their invariants and action
properties.

Theorems worth proving next: `OrderSettles` and `NamesAreSettled` for histories in which a job
fails and is retried in time; `ChangesAreAnnounced` beside an operator's command, once at most
one scanner at a time can be stated of the two leases.

To model next: several repositories in `WorkScheduler` (the order in which they are picked and
the backoff of failed lanes), and the refreshes of `WorkScheduler` shown to implement those of
`TargetedRefresh`.
