-------------------------- MODULE RepositoryIdentity --------------------------
(***************************************************************************)
(* Which row stands for which repository while repositories are renamed.   *)
(*                                                                         *)
(* `repositories` is keyed by GitHub's id and claims a full name;          *)
(* `tracked_repositories` holds what is known and wanted of a repository   *)
(* and is found by repository or by name; refresh jobs point to a tracked  *)
(* row.  The acceptor claims names as deliveries arrive, the webhook       *)
(* workers resolve, merge and update tracked rows delivery by delivery,    *)
(* and a reader does so with what GitHub answers: it is the bootstrap      *)
(* worker with a refresh job, or an operator's sync of one object.         *)
(***************************************************************************)
EXTENDS Naturals, Sequences

CONSTANTS
    Repos,      \* GitHub ids
    Names,      \* full names
    Workers,    \* webhook workers
    Reader,     \* bootstrap worker or operator's command
    NoOne,      \* no repository, no name, no job
    MaxRows,    \* bound: tracked rows ever created
    MaxEvents,  \* bound: deliveries GitHub sends
    MaxReads,   \* bound: refresh jobs and syncs
    MaxRenames  \* bound: renames, and switches of an operator while the program runs

RowIds == 1 .. MaxRows
Released == [released : Repos, was : Names]
Completeness == {"empty", "sparse", "backfilled"}
Rank == [c \in Completeness |-> CASE c = "empty" -> 1 [] c = "sparse" -> 2 [] OTHER -> 3]

ASSUME ConstantsAssumption ==
    /\ NoOne \notin Repos \cup Names \cup Released /\ Names \cap Released = {}
    /\ Reader \notin Workers
    /\ MaxRows \in Nat /\ MaxEvents \in Nat /\ MaxReads \in Nat /\ MaxRenames \in Nat

VARIABLES
    name,     \* GitHub: the name of each repository
    sent,     \* bound: how many deliveries there were
    renamed,  \* bound: how many renames and switches
    told,     \* repositories that have sent a delivery since they took their name (history)
    reads,    \* bound: how many refresh jobs and syncs
    inbox,    \* accepted deliveries in the order of their jobs
    repo,     \* repositories: the full name each claims
    tracked,  \* tracked_repositories
    nextRow,
    jobs,     \* waiting refresh jobs: whom an operator meant, and what they point to
    proc,     \* the workers and the reader
    off,      \* repositories an operator has turned off while nobody was at work on them (history)
    served,   \* whom a job was meant for and whom it fetched (history)
    crossed,  \* a name was taken that was still known as another's (history)
    steady    \* webhook jobs did not fail and nothing was read or switched (history)

vars == <<name, sent, renamed, told, reads, inbox, repo, tracked, nextRow, jobs, proc, off,
          served, crossed, steady>>
outside == <<name, sent, renamed, told, crossed>>
history == <<off, served, steady>>
rows == <<tracked, nextRow, jobs>>

Absent == [name |-> NoOne, repo |-> NoOne, enabled |-> FALSE, done |-> "empty"]
Idle == [pc |-> "idle", g |-> NoOne, n |-> NoOne, event |-> "issues", known |-> NoOne, then |-> "idle",
         row |-> 0, copy |-> Absent, nameId |-> 0, byName |-> Absent, policy |-> TRUE, job |-> NoOne]
Actors == Workers \cup {Reader}
Live == {t \in RowIds : tracked[t] # Absent}

(* Any of the repositories may be tracked already; an operator may have    *)
(* turned some of these off: `enabled` is webhook_projection_enabled.      *)
Init ==
    /\ name \in [Repos -> Names] /\ \A g, h \in Repos : name[g] = name[h] => g = h
    /\ sent = 0 /\ renamed = 0 /\ told = {} /\ reads = 0 /\ inbox = <<>> /\ jobs = {}
    /\ \E f \in [Repos -> {0} \cup RowIds], k \in {0} \cup RowIds :
         LET known == {g \in Repos : f[g] # 0} IN
         /\ {f[g] : g \in known} = 1 .. k /\ \A g, h \in known : f[g] = f[h] => g = h
         /\ off \in SUBSET known
         /\ repo = [g \in Repos |-> IF g \in known THEN name[g] ELSE NoOne]
         /\ tracked = [t \in RowIds |->
                IF \E g \in known : f[g] = t
                THEN LET g == CHOOSE h \in known : f[h] = t
                     IN  [name |-> name[g], repo |-> g, enabled |-> g \notin off, done |-> "sparse"]
                ELSE Absent]
         /\ nextRow = k + 1
    /\ proc = [a \in Actors |-> Idle]
    /\ served = {} /\ crossed = FALSE /\ steady = TRUE
-----------------------------------------------------------------------------
(* Repository rows.                                                        *)

(* Mutant of Claimed: the other repository keeps the name too.             *)
ClaimedAlso(g, n) == [repo EXCEPT ![g] = n]

(* upsertRepositoryModel, one transaction: a row of another repository     *)
(* that holds the name gives its full name up (its owner and name columns  *)
(* stay), then the row found by GitHub's id is written or created.         *)
Claimed(g, n) ==
    [h \in Repos |-> IF h = g THEN n
                     ELSE IF repo[h] = n THEN [released |-> h, was |-> n] ELSE repo[h]]

Holders(n) == {h \in Repos : repo[h] = n}
Locator(g) == IF repo[g] \in Names THEN repo[g] ELSE repo[g].was

(* Mutant of Lookup: the name decides.                                     *)
LookupByName(g, n) ==
    IF Holders(n) # {} THEN CHOOSE h \in Holders(n) : TRUE ELSE IF repo[g] # NoOne THEN g ELSE NoOne

(* repositoryIDByRef: by GitHub's id, else by name.                        *)
Lookup(g, n) ==
    IF repo[g] # NoOne THEN g ELSE IF Holders(n) # {} THEN CHOOSE h \in Holders(n) : TRUE ELSE NoOne

(* Tracked rows.                                                           *)
First(S) == IF S = {} THEN 0 ELSE CHOOSE t \in S : \A u \in S : t <= u
RowByRepo(g) == First({t \in Live : g # NoOne /\ tracked[t].repo = g})

(* Mutant of RowByName: any row will do.                                   *)
RowByAnyName(n) == First(Live)

RowByName(n) == First({t \in Live : tracked[t].name = n})
Row(t) == IF t = 0 THEN Absent ELSE tracked[t]
Present(t) == t \in Live

(* The unique index on full_name lets row t have name n.                   *)
NameFree(t, n) == \A u \in Live \ {t} : tracked[u].name # n

(* mergeTrackedRepositoryRows: the row found by name has the current name, *)
(* the row found by repository the policy; the higher completeness wins.   *)
MergedRow(stable, current) ==
    [name    |-> current.name,
     repo    |-> stable.repo,
     enabled |-> stable.enabled,
     done    |-> IF Rank[current.done] > Rank[stable.done] THEN current.done ELSE stable.done]

(* mergeTrackedRepositoryMatches, one transaction with what was read       *)
(* before it: the jobs move, the row found by name goes, the other one is  *)
(* written (if it is still there), and with it its jobs.                   *)
Moved(p) ==
    {IF j.row \in {p.nameId, p.row}
     THEN [j EXCEPT !.row = p.row, !.repo = p.copy.repo, !.name = p.byName.name]
     ELSE j : j \in jobs}

(* Foreign keys and the unique name let it through.                        *)
CanMerge(p) ==
    /\ Present(p.row) \/ \A j \in jobs : j.row # p.nameId
    /\ \A u \in Live \ {p.row, p.nameId} : tracked[u].name # p.byName.name
-----------------------------------------------------------------------------
(* GitHub and the acceptor.                                                *)

(* The name is still kept somewhere as that of another repository.         *)
StillKnown(n, g) ==
    \/ \E h \in Repos \ {g} : repo[h] = n
    \/ \E t \in Live : tracked[t].name = n /\ tracked[t].repo # g
    \/ \E j \in jobs : j.name = n /\ j.for # g
    \/ \E i \in DOMAIN inbox : inbox[i].n = n /\ inbox[i].g # g
    \/ \E a \in Actors : \/ proc[a].n = n /\ proc[a].g # g
                         \/ proc[a].job # NoOne /\ proc[a].job.name = n /\ proc[a].job.for # g

(* A repository takes a name that is free.                                 *)
Rename(g, n) ==
    /\ renamed < MaxRenames /\ renamed' = renamed + 1
    /\ \A h \in Repos : name[h] # n
    /\ name' = [name EXCEPT ![g] = n]
    /\ told' = told \ {g}
    /\ crossed' = (crossed \/ StillKnown(n, g))
    /\ UNCHANGED <<sent, reads, inbox, repo, rows, proc, history>>

(* A delivery carries the repository as it is.  For an issue, pull         *)
(* request, comment or review the acceptor claims the name at once; a      *)
(* push or repository event is left to the worker.                         *)
HandleWebhook(g, event) ==
    /\ sent < MaxEvents
    /\ sent' = sent + 1 /\ told' = told \cup {g}
    /\ repo' = IF event = "issues" THEN Claimed(g, name[g]) ELSE repo
    /\ inbox' = Append(inbox, [g |-> g, n |-> name[g], event |-> event])
    /\ UNCHANGED <<name, renamed, crossed, reads, rows, proc, history>>

(* EnqueueRepositoryRefresh for a repository by its name: the job is for   *)
(* the row and the repository found by it, unless one waits for these.     *)
EnqueueRepositoryRefresh(g) ==
    LET n == name[g]
        t == RowByName(n)
        r == IF Holders(n) # {} THEN CHOOSE h \in Holders(n) : TRUE ELSE Row(t).repo
    IN
    /\ reads < MaxReads
    /\ r # NoOne /\ \A j \in jobs : j.repo # r /\ (t = 0 \/ j.row # t)
    /\ jobs' = jobs \cup {[for |-> g, row |-> t, repo |-> r, name |-> n]}
    /\ reads' = reads + 1 /\ steady' = FALSE
    /\ UNCHANGED <<outside, off, served, inbox, repo, tracked, nextRow, proc>>

(* Someone has read what there is of the repository, or may take a row for *)
(* its own.                                                                *)
AtWork(g) ==
    LET mine == {t \in Live : tracked[t].repo = g} IN
    \/ \E a \in Actors : proc[a].g = g
    \/ \E t \in Live : tracked[t].repo = NoOne
    \/ \E t, u \in mine : t # u

(* An operator turns a repository off in the table: the program never      *)
(* does, it only reads and rewrites the switch.                            *)
TurnOff(g) ==
    /\ renamed < MaxRenames /\ renamed' = renamed + 1
    /\ \E t \in Live : tracked[t].repo = g /\ tracked[t].enabled
    /\ tracked' = [t \in RowIds |-> IF t \in Live /\ tracked[t].repo = g
                                    THEN [tracked[t] EXCEPT !.enabled = FALSE] ELSE tracked[t]]
    /\ off' = IF AtWork(g) THEN off ELSE off \cup {g}
    /\ steady' = FALSE
    /\ UNCHANGED <<name, sent, told, crossed, reads, inbox, repo, nextRow, jobs, proc, served>>
-----------------------------------------------------------------------------
(* Tracked rows are resolved by every actor.                               *)
Goes(a, p) == proc' = [proc EXCEPT ![a] = p]

Resolving(p, g, n, then) == [p EXCEPT !.pc = "resolve", !.known = g, !.n = n, !.then = then]

(* ResolveTrackedRepository reads both matches.                            *)
ResolveTrackedRepository(a) ==
    LET p == proc[a]
        s == RowByRepo(p.known)
        t == RowByName(p.n)
    IN
    /\ p.pc = "resolve"
    /\ LET q == [p EXCEPT !.row = IF s # 0 THEN s ELSE t, !.copy = IF s # 0 THEN Row(s) ELSE Row(t)]
       IN  Goes(a, IF s # 0 /\ t # 0 /\ s # t
                   THEN [q EXCEPT !.pc = "merge", !.nameId = t, !.byName = Row(t)]
                   ELSE [q EXCEPT !.pc = p.then])
    /\ UNCHANGED <<outside, reads, inbox, repo, rows, history>>

(* The merge commits, and the row is read again: it may be gone.           *)
MergeTrackedRepositoryMatches(a) ==
    LET p == proc[a] IN
    /\ p.pc = "merge" /\ CanMerge(p)
    /\ jobs' = Moved(p)
    /\ tracked' = [tracked EXCEPT
           ![p.nameId] = Absent,
           ![p.row] = IF Present(p.row) THEN MergedRow(p.copy, p.byName) ELSE Absent]
    /\ Goes(a, [p EXCEPT !.pc = IF Present(p.row) THEN p.then ELSE "gone", !.copy = tracked'[p.row],
                         !.nameId = 0, !.byName = Absent])
    /\ UNCHANGED <<outside, reads, inbox, repo, nextRow, history>>
-----------------------------------------------------------------------------
(* The webhook workers: ProcessWebhookDelivery.                            *)
ProcessWebhookDelivery(w) ==
    /\ proc[w] = Idle /\ inbox # <<>>
    /\ LET d == Head(inbox)
       IN  Goes(w, Resolving([Idle EXCEPT !.g = d.g, !.event = d.event], Lookup(d.g, d.n), d.n, "upsert"))
    /\ inbox' = Tail(inbox)
    /\ UNCHANGED <<outside, reads, repo, rows, history>>

Named(r, n, g) == [r EXCEPT !.name = n, !.repo = IF g = NoOne THEN r.repo ELSE g]

(* UpsertTrackedRepositoryForWebhook writes names and repository to the    *)
(* row it found, and reads it back.  Without one it inserts a row; one     *)
(* that has taken the name meanwhile is updated instead.                   *)
UpsertTracked(w) ==
    LET p == proc[w]
        t == IF p.row # 0 THEN p.row ELSE RowByName(p.n)
    IN
    /\ p.pc = "upsert" /\ w \in Workers
    /\ Present(t) /\ NameFree(t, p.n)
    /\ tracked' = [tracked EXCEPT ![t] = Named(tracked[t], p.n, p.known)]
    /\ Goes(w, [p EXCEPT !.pc = "project", !.row = t, !.copy = tracked'[t]])
    /\ UNCHANGED <<outside, reads, inbox, repo, nextRow, jobs, history>>

InsertTracked(w) ==
    LET p == proc[w] IN
    /\ p.pc = "upsert" /\ w \in Workers
    /\ p.row = 0 /\ RowByName(p.n) = 0 /\ nextRow \in RowIds
    /\ tracked' = [tracked EXCEPT ![nextRow] = [name |-> p.n, repo |-> p.known, enabled |-> TRUE, done |-> "empty"]]
    /\ nextRow' = nextRow + 1
    /\ Goes(w, [p EXCEPT !.pc = "project", !.row = nextRow, !.copy = tracked'[nextRow]])
    /\ UNCHANGED <<outside, reads, inbox, repo, jobs, history>>

(* The projection claims the name; a repository that is turned off is left *)
(* alone.                                                                  *)
ProjectRepository(w) ==
    LET p == proc[w] IN
    /\ p.pc = "project"
    /\ IF p.copy.enabled
       THEN repo' = Claimed(p.g, p.n) /\ Goes(w, [p EXCEPT !.pc = "state"])
       ELSE repo' = repo /\ Goes(w, Idle)
    /\ UNCHANGED <<outside, reads, inbox, rows, history>>

(* updateTrackedRepositoryProjectionState: names and repository again, and *)
(* an issue event makes sparse what was empty when it was read.  Nothing   *)
(* is updated when the row is gone.                                        *)
StateWritten(p) ==
    [tracked[p.row] EXCEPT
        !.name = p.n,
        !.repo = IF p.copy.repo # p.g THEN p.g ELSE @,
        !.done = IF p.event = "issues" /\ p.copy.done = "empty" THEN "sparse" ELSE @]

UpdateProjectionState(w) ==
    LET p == proc[w] IN
    /\ p.pc = "state" /\ w \in Workers
    /\ Present(p.row) => NameFree(p.row, p.n)
    /\ tracked' = IF Present(p.row) THEN [tracked EXCEPT ![p.row] = StateWritten(p)] ELSE tracked
    /\ Goes(w, Idle)
    /\ UNCHANGED <<outside, reads, inbox, repo, nextRow, jobs, history>>

(* A statement fails: the row to write is gone or its name taken.          *)
Blocked(p) ==
    \/ p.pc = "gone"
    \/ p.pc = "merge" /\ ~CanMerge(p)
    \/ p.pc = "upsert" /\ p.row # 0 /\ ~Present(p.row)
    \/ p.pc \in {"upsert", "state"} /\ Present(p.row) /\ ~NameFree(p.row, p.n)

(* River runs the job again, after those that are available.               *)
DeliveryFails(w) ==
    /\ w \in Workers /\ Blocked(proc[w])
    /\ Goes(w, Idle)
    /\ inbox' = Append(inbox, [g |-> proc[w].g, n |-> proc[w].n, event |-> proc[w].event])
    /\ steady' = FALSE
    /\ UNCHANGED <<outside, reads, repo, rows, off, served>>
-----------------------------------------------------------------------------
(* The reader.                                                             *)

(* resolveRepositoryForJob: the repository that has the job's name, else   *)
(* the one the job points to.                                              *)
RepositoryForJob(j) == IF Holders(j.name) # {} THEN CHOOSE h \in Holders(j.name) : TRUE ELSE j.repo

(* GetRepository: GitHub leads from an old name to the repository that had *)
(* it, unless another one has it now.                                      *)
Fetched(g) ==
    LET n == Locator(g)
    IN  IF \E h \in Repos : name[h] = n THEN CHOOSE h \in Repos : name[h] = n ELSE g

StartJob(j) ==
    LET g == Fetched(RepositoryForJob(j)) IN
    /\ proc[Reader] = Idle /\ j \in jobs
    /\ jobs' = jobs \ {j}
    /\ served' = served \cup {[for |-> j.for, fetched |-> g]}
    /\ Goes(Reader, [Idle EXCEPT !.pc = "claim", !.g = g, !.n = name[g], !.job = j])
    /\ UNCHANGED <<outside, reads, inbox, repo, tracked, nextRow, off, steady>>

StartSync(g) ==
    /\ proc[Reader] = Idle /\ reads < MaxReads
    /\ reads' = reads + 1 /\ steady' = FALSE
    /\ Goes(Reader, [Idle EXCEPT !.pc = "claim", !.g = g, !.n = name[g]])
    /\ UNCHANGED <<outside, inbox, repo, rows, off, served>>

UpsertRepository ==
    LET p == proc[Reader] IN
    /\ p.pc = "claim"
    /\ repo' = Claimed(p.g, p.n)
    /\ Goes(Reader, Resolving(p, p.g, p.n, "policy"))
    /\ UNCHANGED <<outside, reads, inbox, rows, history>>

(* Mutant of KeptPolicy: every sync turns the repository on.               *)
AlwaysOn(p) == TRUE

KeptPolicy(p) == p.job # NoOne \/ p.row = 0 \/ p.copy.enabled

(* existingSyncMode, and the policy that updateTrackedRepositoryAfter-     *)
(* TargetedSync keeps; upsertTrackedRepository resolves once more.         *)
KeepPolicy ==
    LET p == proc[Reader] IN
    /\ p.pc = "policy"
    /\ Goes(Reader, Resolving([p EXCEPT !.policy = KeptPolicy(p)], p.g, p.n, "upsert"))
    /\ UNCHANGED <<outside, reads, inbox, repo, rows, history>>

(* A bootstrap announces everything as backfilled and turns the repository *)
(* on, a sync leaves sparse; an update of a row that is gone changes       *)
(* nothing, and a row that took the name meanwhile is updated.             *)
UpsertTrackedRepository ==
    LET p == proc[Reader]
        t == IF p.row # 0 THEN p.row ELSE RowByName(p.n)
        r == [name |-> p.n, repo |-> p.g, enabled |-> p.policy,
              done |-> IF p.job # NoOne THEN "backfilled" ELSE "sparse"]
    IN
    /\ p.pc = "upsert"
    /\ \/ Present(t) /\ NameFree(t, p.n) /\ tracked' = [tracked EXCEPT ![t] = r] /\ UNCHANGED nextRow
       \/ t # 0 /\ ~Present(t) /\ UNCHANGED <<tracked, nextRow>>
       \/ t = 0 /\ nextRow \in RowIds /\ tracked' = [tracked EXCEPT ![nextRow] = r] /\ nextRow' = nextRow + 1
    /\ off' = IF p.job # NoOne THEN off \ {p.g} ELSE off
    /\ Goes(Reader, IF p.job # NoOne THEN [p EXCEPT !.pc = "succeed"] ELSE Idle)
    /\ UNCHANGED <<outside, reads, served, steady, inbox, repo, jobs>>

(* markSucceeded resolves the job's repository again, and its tracked row, *)
(* which becomes backfilled and is turned on once more.                    *)
MarkJobSucceeded ==
    LET p == proc[Reader]
        g == RepositoryForJob(p.job)
    IN
    /\ p.pc = "succeed"
    /\ Goes(Reader, Resolving([p EXCEPT !.g = g], g, repo[g], "state"))
    /\ UNCHANGED <<outside, reads, inbox, repo, rows, history>>

MarkBackfilled ==
    LET p == proc[Reader] IN
    /\ p.pc = "state"
    /\ Present(p.row) => NameFree(p.row, p.n)
    /\ tracked' = IF Present(p.row)
                  THEN [tracked EXCEPT ![p.row] = [name |-> p.n, repo |-> p.g, enabled |-> TRUE, done |-> "backfilled"]]
                  ELSE tracked
    /\ off' = off \ {p.g}
    /\ Goes(Reader, Idle)
    /\ UNCHANGED <<outside, reads, inbox, repo, nextRow, jobs, served, steady>>

ReadFails ==
    /\ Blocked(proc[Reader])
    /\ Goes(Reader, Idle)
    /\ UNCHANGED <<outside, reads, inbox, repo, rows, history>>
-----------------------------------------------------------------------------
Next ==
    \/ \E g \in Repos : \/ \E n \in Names : Rename(g, n)
                        \/ \E event \in {"issues", "push"} : HandleWebhook(g, event)
                        \/ EnqueueRepositoryRefresh(g) \/ StartSync(g) \/ TurnOff(g)
    \/ \E a \in Actors : ResolveTrackedRepository(a) \/ MergeTrackedRepositoryMatches(a)
    \/ \E w \in Workers : \/ ProcessWebhookDelivery(w) \/ UpsertTracked(w) \/ InsertTracked(w)
                          \/ ProjectRepository(w) \/ UpdateProjectionState(w) \/ DeliveryFails(w)
    \/ (\E j \in jobs : StartJob(j)) \/ UpsertRepository \/ KeepPolicy \/ UpsertTrackedRepository
    \/ MarkJobSucceeded \/ MarkBackfilled \/ ReadFails

Spec == Init /\ [][Next]_vars
-----------------------------------------------------------------------------
Quiet == inbox = <<>> /\ \A a \in Actors : proc[a] = Idle

TypeOK ==
    /\ name \in [Repos -> Names]
    /\ repo \in [Repos -> Names \cup Released \cup {NoOne}]
    /\ tracked \in [RowIds -> [name : Names \cup Released \cup {NoOne}, repo : Repos \cup {NoOne},
                               enabled : BOOLEAN, done : Completeness]]
    /\ nextRow \in 1 .. MaxRows + 1
    /\ \A j \in jobs : j.for \in Repos /\ j.repo \in Repos /\ j.name \in Names \cup Released /\ j.row \in {0} \cup Live
    /\ \A g, h \in Repos : repo[g] = repo[h] /\ repo[g] # NoOne => g = h
    /\ \A t, u \in Live : tracked[t].name = tracked[u].name => t = u

(* When the deliveries are worked off without a failure and without a      *)
(* reader in between, a repository that has sent a delivery since it took  *)
(* its name has exactly one tracked row, under that name, and it holds the *)
(* name unless it is turned off; whoever had the name before, if nobody is *)
(* turned off.                                                             *)
NamesSettle ==
    Quiet /\ steady /\ (crossed => off = {}) => \A g \in told :
        \E t \in Live :
            /\ tracked[t].name = name[g] /\ tracked[t].repo = g
            /\ tracked[t].enabled => repo[g] = name[g]
            /\ \A u \in Live : tracked[u].repo = g => u = t

(* A repository that an operator turned off while nobody was at work on it *)
(* stays off until a bootstrap that was asked for turns it on: no          *)
(* delivery, rename or merge, and no sync, which writes back what it read, *)
(* turns it on, as long as nobody takes a name that is still known as      *)
(* another's.                                                              *)
PolicyKept ==
    ~crossed => \A t \in Live : tracked[t].repo \in off => ~tracked[t].enabled

(* Only a bootstrap turns a repository on, whenever the operator's switch  *)
(* came.  Does not hold: a sync or a merge that read the row before the    *)
(* switch writes the whole policy back.                                    *)
PolicyIsDurable ==
    [][~crossed' => \A t \in Live :
           ~tracked[t].enabled /\ tracked'[t].enabled => proc[Reader].job # NoOne]_vars

(* A refresh job fetches the repository it was requested for, however      *)
(* often that was renamed, as long as nobody takes a name that is still    *)
(* known as another's.                                                     *)
JobsFollowRenames ==
    ~crossed => /\ \A s \in served : s.fetched = s.for
                /\ \A j \in jobs : j.repo = j.for

(* JobsFollowRenames without its exception, as the docs state it.  This    *)
(* does not hold of this code (README, Known divergences): added to the    *)
(* invariants of MCRepositoryIdentity.cfg, it shows how.                   *)
JobsStayAttached == \A s \in served : s.fetched = s.for
=============================================================================
