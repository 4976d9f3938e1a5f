---------------------------- MODULE WebhookIngest ----------------------------
(***************************************************************************)
(* Webhook deliveries from GitHub to the mirror.  The acceptor stores a    *)
(* delivery, projects it and enqueues its job in one transaction; a River  *)
(* worker projects it again, statement by statement, and marks it          *)
(* processed; a cleanup deletes processed deliveries.  A syncer (a         *)
(* targeted refresh, a bootstrap or a sync command) reads objects from the *)
(* API and stores them later.                                              *)
(*                                                                         *)
(* GitHub numbers its changes; the n-th sends delivery n, which may be     *)
(* lost, arrive late, out of order, or more than once.                     *)
(***************************************************************************)
EXTENDS MirrorRows, FiniteSets

CONSTANTS
    Events,       \* the kinds of events of this instance, among EventKinds
    MaxEvents,    \* bound: how many changes GitHub makes
    Workers,      \* the workers of River's queue
    MaxAttempts,  \* attempts of a job before it is discarded (8)
    MaxCrashes,   \* bound: how often the server dies
    MaxSyncs,     \* bound: how many objects the syncer reads
    Aging         \* bound: the deliveries that live to see the cleanup

EventKinds == Kinds \cup {"push", "repository", "ping"}
Ids == 1 .. MaxEvents
Versions == [n : 0 .. MaxEvents + 1, at : 0 .. MaxEvents + 1]
JobStates == {"none", "available", "running", "retryable", "completed", "discarded"}

ASSUME ConstantsAssumption ==
    /\ Events \subseteq EventKinds
    /\ MaxEvents \in Nat /\ MaxAttempts \in Nat \ {0}
    /\ MaxCrashes \in Nat /\ MaxSyncs \in Nat /\ Aging \subseteq Ids

VARIABLES
    github,     \* GitHub's objects
    payloads,   \* the deliveries GitHub has made, in order
    projecting, \* tracked_repositories: enabled and webhook_projection_enabled
    delivery,   \* webhook_deliveries
    cleaned,    \* ids whose delivery the cleanup deleted (history)
    job,        \* river_job, by delivery id
    queue,      \* the available jobs in the order River fetches them
    rows,       \* the mirror's rows
    effects,    \* the follow-ups recorded, as <<delivery, follow-up>>
    worker,     \* what each worker is doing
    sync,       \* what the syncer has read and not yet stored
    crashes, syncs,  \* for the bounds
    orderly     \* no delivery arrived late and no job was interrupted (history)

vars == <<github, payloads, projecting, delivery, cleaned, job, queue, rows, effects, worker,
          sync, crashes, syncs, orderly>>
ghVars == <<github, payloads, projecting>>
jobVars == <<job, queue, worker>>
envVars == <<crashes, orderly>>
syncVars == <<sync, syncs>>

Idle == [id |-> 0, todo |-> <<>>, fallback |-> FALSE]
NoRead == [kind |-> "none", v |-> Absent]

(* GitHub has an issue and a pull request, and the mirror knows them.      *)
First == [n |-> 1, at |-> 1]

Init ==
    /\ github = [k \in Kinds |-> IF Parent[k] = k THEN First ELSE Absent]
    /\ payloads = <<>>
    /\ projecting \in BOOLEAN
    /\ delivery = [d \in Ids |-> "none"]
    /\ cleaned = {}
    /\ job = [d \in Ids |-> [state |-> "none", attempts |-> 0]]
    /\ queue = <<>>
    /\ rows = [r \in Rows |-> IF r \in Gated THEN First ELSE Absent]
    /\ effects = {}
    /\ worker = [w \in Workers |-> Idle]
    /\ sync = NoRead
    /\ crashes = 0 /\ syncs = 0
    /\ orderly = TRUE
-----------------------------------------------------------------------------
(* The second of GitHub's last change; the next may fall into the same.    *)
Second == IF payloads = <<>> THEN 1 ELSE payloads[Len(payloads)].v.at
NextSeconds == IF payloads = <<>> THEN {2} ELSE {Second, Second + 1}

(* What a delivery carries: the event, the action, the object's version    *)
(* and its parent's.                                                       *)
Payload(k, action, at) ==
    LET v == [n |-> Len(payloads) + 2, at |-> at]
    IN  [kind |-> k, action |-> action, v |-> v,
         parent |-> IF k \in Kinds /\ Parent[k] # k THEN github[Parent[k]] ELSE v]

(* The webhook event policies: the statements each event is projected by,  *)
(* in order, with the follow-ups it asks for.  A pull request's inventory  *)
(* mark is asked for when the action opens, closes or moves it.            *)
ParentUpserts(p) ==
    IF Parent[p.kind] = p.kind THEN <<>> ELSE ObjectUpserts(Parent[p.kind], p.parent)

ObjectStatements(p) ==
    ParentUpserts(p) \o
    IF p.action = "deleted" THEN << <<"delete", p.kind, p.v>> >> ELSE ObjectUpserts(p.kind, p.v)

FollowUps(p) ==
    CASE p.kind = "pull_request" -> <<"note", "enqueue">> \o IF p.action = "changed" THEN <<"dirty">> ELSE <<>>
      [] p.kind = "push"         -> <<"stale", "dirty">>
      [] p.kind \in {"repository", "ping"} -> <<"note">>
      [] OTHER -> <<>>

Effect(f) == <<"effect", f, Absent>>
Repository == <<"repository", "repository", Absent>>
Mark == <<"mark", "processed", Absent>>
Statements(p) ==
    (CASE p.kind \in Kinds -> ObjectStatements(p)
       [] p.kind \in {"push", "repository"} -> <<Repository>>
       [] OTHER -> <<>>)
    \o [i \in DOMAIN FollowUps(p) |-> Effect(FollowUps(p)[i])]

(* Only the object events are projected when they are accepted; the        *)
(* acceptor has a recorder but nothing that marks base refs stale.         *)
Immediate(p) == p.kind \in Kinds
AcceptorDoes(f) == f # "stale"

(* The rows after a list of upserts and deletions, none of which misses    *)
(* its parent.                                                             *)
Applied(rs, s) ==
    CASE s[1] = "upsert" -> Upserted(rs, s[2], s[3])
      [] s[1] = "delete" -> Deleted(rs, s[2])
      [] OTHER -> rs

AppliedAll(rs, stmts) ==
    LET After[i \in 0 .. Len(stmts)] == IF i = 0 THEN rs ELSE Applied(After[i - 1], stmts[i])
    IN  After[Len(stmts)]
-----------------------------------------------------------------------------
(* GitHub.                                                                 *)

(* GitHub changes an object (its parent exists) and sends a delivery; the  *)
(* next change may fall into the same second.  "touched" stands for the    *)
(* pull request actions that do not move the open set.                     *)
Change(k, action, at) ==
    /\ k \in Kinds \cap Events /\ Len(payloads) < MaxEvents
    /\ action = "touched" => k = "pull_request"
    /\ at \in NextSeconds
    /\ Parent[k] = k \/ github[Parent[k]] # Absent
    /\ github' = [github EXCEPT ![k] = [n |-> Len(payloads) + 2, at |-> at]]
    /\ payloads' = Append(payloads, Payload(k, action, at))
    /\ UNCHANGED <<projecting, delivery, cleaned, rows, effects, jobVars, envVars, syncVars>>

(* GitHub deletes an object, and with an issue its comments.               *)
Remove(k, at) ==
    /\ k \in Deletable \cap Events /\ Len(payloads) < MaxEvents
    /\ at \in NextSeconds
    /\ github[k] # Absent
    /\ github' = [g \in Kinds |-> IF g = k \/ Parent[g] = k THEN Absent ELSE github[g]]
    /\ payloads' = Append(payloads, Payload(k, "deleted", at))
    /\ UNCHANGED <<projecting, delivery, cleaned, rows, effects, jobVars, envVars, syncVars>>

(* A push, a repository event or a ping.                                   *)
Announce(k) ==
    /\ k \in Events \ Kinds /\ Len(payloads) < MaxEvents
    /\ payloads' = Append(payloads, Payload(k, "changed", Second))
    /\ UNCHANGED <<github, projecting, delivery, cleaned, rows, effects, jobVars, envVars, syncVars>>
-----------------------------------------------------------------------------
(* The acceptor.                                                           *)
Earliest(d) == \A e \in Ids : e < d => delivery[e] # "none" \/ e \in cleaned

(* River's uniqueness: a job with the same arguments in the last seven     *)
(* days, in whatever state but discarded, keeps another from being inserted. *)
Insertable(d) == job[d].state \in {"none", "discarded"}

(* Mutants of Enqueue: nothing is enqueued for what was projected at once; *)
(* the newest job goes first.                                              *)
EnqueueDeferred(d) == IF Immediate(payloads[d]) THEN queue ELSE Append(queue, d)
EnqueueFirst(d) == <<d>> \o queue
Enqueue(d) == Append(queue, d)

(* HandleWebhook: one transaction.  A delivery already stored changes      *)
(* nothing; any error rolls everything back, which changes nothing either. *)
HandleWebhook(d) ==
    /\ d \in DOMAIN payloads /\ delivery[d] = "none"
    /\ delivery' = [delivery EXCEPT ![d] = "stored"]
    /\ LET p == payloads[d] IN
         IF Immediate(p)
         THEN /\ rows' = AppliedAll(rows, ObjectStatements(p))
              /\ effects' = effects \cup {<<d, f>> : f \in {g \in {FollowUps(p)[i] : i \in DOMAIN FollowUps(p)} : AcceptorDoes(g)}}
         ELSE UNCHANGED <<rows, effects>>
    /\ IF Insertable(d)
       THEN /\ job' = [job EXCEPT ![d] = [state |-> "available", attempts |-> 0]]
            /\ queue' = Enqueue(d)
       ELSE UNCHANGED <<job, queue>>
    /\ orderly' = (orderly /\ Earliest(d) /\ d \notin cleaned)
    /\ UNCHANGED <<ghVars, cleaned, worker, crashes, syncVars>>
-----------------------------------------------------------------------------
(* River's workers and the processor.                                      *)

(* A worker fetches the first available job and loads its delivery; of a   *)
(* repository whose projection is off only the delivery is updated.        *)
StartJob(w) ==
    /\ worker[w] = Idle /\ queue # <<>> /\ delivery[Head(queue)] = "stored"
    /\ LET d == Head(queue) IN
         /\ queue' = Tail(queue)
         /\ job' = [job EXCEPT ![d] = [state |-> "running", attempts |-> job[d].attempts + 1]]
         /\ worker' = [worker EXCEPT ![w] =
                [id |-> d, fallback |-> FALSE,
                 todo |-> (IF projecting THEN Statements(payloads[d]) ELSE <<>>) \o <<Mark>>]]
    /\ UNCHANGED <<ghVars, delivery, cleaned, rows, effects, envVars, syncVars>>

(* There is nothing to do for a delivery that is gone or processed (of a   *)
(* server that died after it marked it, say).                              *)
SkipJob(w) ==
    /\ worker[w] = Idle /\ queue # <<>> /\ delivery[Head(queue)] # "stored"
    /\ queue' = Tail(queue)
    /\ job' = [job EXCEPT ![Head(queue)] = [state |-> "completed", attempts |-> @.attempts + 1]]
    /\ UNCHANGED <<ghVars, delivery, cleaned, rows, effects, worker, envVars, syncVars>>


(* Mutant of AfterFailure: a job is never given up.                        *)
NeverDiscarded(d) == "retryable"
AfterFailure(d) == IF job[d].attempts < MaxAttempts THEN "retryable" ELSE "discarded"
Statement(w) == Head(worker[w].todo)
Advance(w) == worker' = [worker EXCEPT ![w].todo = Tail(worker[w].todo)]

(* An upsert or a deletion of the projector.                               *)
Project(w) ==
    /\ worker[w] # Idle
    /\ \/ Statement(w)[1] = "upsert" /\ ~MissesParent(rows, Statement(w)[2])
       \/ Statement(w)[1] \in {"delete", "repository"}
    /\ rows' = Applied(rows, Statement(w))
    /\ Advance(w)
    /\ UNCHANGED <<ghVars, delivery, cleaned, job, queue, effects, envVars, syncVars>>

(* A follow-up: note the webhook, enqueue the pull request's refresh, mark *)
(* the base ref's snapshots stale, mark the inventory dirty.               *)
FollowUp(w) ==
    /\ worker[w] # Idle /\ Statement(w)[1] = "effect"
    /\ effects' = effects \cup {<<worker[w].id, Statement(w)[2]>>}
    /\ Advance(w)
    /\ UNCHANGED <<ghVars, delivery, cleaned, job, queue, rows, envVars, syncVars>>

(* Of a push, a repository upsert that fails is not an error: the          *)
(* repository is looked up and the webhook noted, and that is all.         *)
PushFallsBack(w) ==
    /\ worker[w] # Idle /\ Statement(w)[1] = "repository"
    /\ payloads[worker[w].id].kind = "push"
    /\ worker' = [worker EXCEPT ![w] =
           [worker[w] EXCEPT !.todo = << Effect("note"), Mark >>,
                             !.fallback = TRUE]]
    /\ UNCHANGED <<ghVars, delivery, cleaned, job, queue, rows, effects, envVars, syncVars>>

(* The delivery is marked, and River completes the job; if the server dies *)
(* in between, the job is run again.                                       *)
MarkProcessed(w) ==
    /\ worker[w] # Idle /\ Statement(w) = Mark
    /\ LET d == worker[w].id IN
         /\ delivery' = [delivery EXCEPT ![d] = IF @ = "stored" THEN "processed" ELSE @]
         /\ effects' = IF worker[w].fallback THEN effects \cup {<<d, "degraded">>} ELSE effects
         /\ \/ job' = [job EXCEPT ![d].state = "completed"] /\ UNCHANGED crashes
            \/ /\ job' = [job EXCEPT ![d].state = AfterFailure(d)]
               /\ crashes < MaxCrashes /\ crashes' = crashes + 1
    /\ worker' = [worker EXCEPT ![w] = Idle]
    /\ UNCHANGED <<ghVars, cleaned, queue, rows, orderly, syncVars>>

(* Mutant of FailJob: a follow-up that fails is skipped.                   *)
FailJobQuietly(w) ==
    /\ worker[w] # Idle
    /\ IF Statement(w)[1] = "effect" THEN Advance(w) /\ UNCHANGED job
       ELSE /\ job' = [job EXCEPT ![worker[w].id].state = AfterFailure(worker[w].id)]
            /\ worker' = [worker EXCEPT ![w] = Idle]
    /\ orderly' = FALSE
    /\ UNCHANGED <<ghVars, delivery, cleaned, queue, rows, effects, crashes, syncVars>>

(* Any statement may fail (a missing parent does, an error of the database *)
(* or the job's timeout may), and the job is retried until its attempts    *)
(* are used up.                                                            *)
FailJob(w) ==
    /\ worker[w] # Idle
    /\ job' = [job EXCEPT ![worker[w].id].state = AfterFailure(worker[w].id)]
    /\ worker' = [worker EXCEPT ![w] = Idle]
    /\ orderly' = FALSE
    /\ UNCHANGED <<ghVars, delivery, cleaned, queue, rows, effects, crashes, syncVars>>

(* The retry falls due.                                                    *)
RetryJob(d) ==
    /\ job[d].state = "retryable"
    /\ job' = [job EXCEPT ![d].state = "available"]
    /\ queue' = Enqueue(d)
    /\ UNCHANGED <<ghVars, delivery, cleaned, rows, effects, worker, envVars, syncVars>>

(* DeliveryCleanupWorker.RunOnce deletes processed deliveries once they    *)
(* are old enough, oldest first and in batches.                            *)
CleanUp(d) ==
    /\ d \in Aging /\ delivery[d] = "processed"
    /\ delivery' = [delivery EXCEPT ![d] = "none"]
    /\ cleaned' = cleaned \cup {d}
    /\ UNCHANGED <<ghVars, rows, effects, jobVars, envVars, syncVars>>
-----------------------------------------------------------------------------
(* The other writer of the mirror, and the server.                         *)

(* Mutant of Rescued: River forgets the jobs of a server that died.        *)
NoneRescued == job
Rescued == [d \in Ids |-> IF job[d].state = "running" THEN [job[d] EXCEPT !.state = AfterFailure(d)] ELSE job[d]]

(* The server dies with everything in its memory and is started again;     *)
(* River rescues the jobs it was running.                                  *)
Restart ==
    /\ crashes < MaxCrashes
    /\ crashes' = crashes + 1
    /\ worker' = [w \in Workers |-> Idle]
    /\ sync' = NoRead
    /\ job' = Rescued
    /\ orderly' = FALSE
    /\ UNCHANGED <<ghVars, delivery, cleaned, queue, rows, effects, syncs>>

(* GetIssue, GetPullRequest, ListIssueComments and the others.             *)
ReadGitHub(k) ==
    /\ sync = NoRead /\ syncs < MaxSyncs
    /\ github[k] # Absent
    /\ sync' = [kind |-> k, v |-> github[k]]
    /\ syncs' = syncs + 1
    /\ orderly' = FALSE
    /\ UNCHANGED <<ghVars, delivery, cleaned, rows, effects, jobVars, crashes>>

(* The upserts of what was read; a row whose parent is missing is not      *)
(* stored, and the pass ends with an error.                                *)
StoreRead ==
    /\ sync # NoRead
    /\ rows' = IF MissesParent(rows, sync.kind) THEN rows
               ELSE AppliedAll(rows, ObjectUpserts(sync.kind, sync.v))
    /\ sync' = NoRead
    /\ UNCHANGED <<ghVars, delivery, cleaned, effects, jobVars, envVars, syncs>>
-----------------------------------------------------------------------------
GitHub ==
    \/ \E k \in Kinds, action \in {"changed", "touched"}, at \in 1 .. MaxEvents + 1 : Change(k, action, at)
    \/ \E k \in Deletable, at \in 1 .. MaxEvents + 1 : Remove(k, at)
    \/ \E k \in EventKinds : Announce(k)

Job ==
    \E w \in Workers :
        \/ StartJob(w) \/ Project(w) \/ FollowUp(w) \/ PushFallsBack(w)
        \/ SkipJob(w) \/ MarkProcessed(w) \/ FailJob(w)

River == \E d \in Ids : RetryJob(d) \/ CleanUp(d)

Next ==
    \/ GitHub \/ Job \/ River
    \/ \E d \in Ids : HandleWebhook(d)
    \/ Restart \/ StoreRead
    \/ \E k \in Kinds \cap Events : ReadGitHub(k)

Spec == Init /\ [][Next]_vars

(* What runs by itself: the workers, River's timers, the server's restart  *)
(* by its supervisor.  GitHub owes no delivery, and cleanup owes nothing.  *)
Fairness ==
    /\ \A w \in Workers : WF_vars(StartJob(w) \/ Project(w) \/ FollowUp(w) \/ SkipJob(w) \/ MarkProcessed(w) \/ FailJob(w))
    /\ \A d \in Ids : WF_vars(RetryJob(d))
FairSpec == Spec /\ Fairness
-----------------------------------------------------------------------------
TypeOK ==
    /\ github \in [Kinds -> Versions] /\ rows \in [Rows -> Versions]
    /\ Len(payloads) <= MaxEvents
    /\ delivery \in [Ids -> {"none", "stored", "processed"}]
    /\ job \in [Ids -> [state : JobStates, attempts : 0 .. MaxAttempts]]
    /\ \A w \in Workers : worker[w].id \in 0 .. MaxEvents
    /\ sync.kind \in Kinds \cup {"none"}

Accepted(d) == delivery[d] # "none" \/ d \in cleaned
Pending(d) ==
    \/ job[d].state \in {"running", "retryable"}
    \/ job[d].state = "available" /\ \E i \in DOMAIN queue : queue[i] = d

(* A delivery that is stored and not processed has a job that will process *)
(* it, or was given up by River.  (Not one that the cleanup removed and    *)
(* GitHub sent again while River still remembers the first job.)           *)
JobForEachDelivery ==
    \A d \in Ids \ cleaned :
        delivery[d] = "stored" => Pending(d) \/ job[d].state = "discarded"

(* What follows from a delivery is recorded before the delivery is marked  *)
(* processed, whatever failed or died in between: targeted refreshes,      *)
(* dirty marks, stale base refs are never lost.  (But for a push whose     *)
(* repository could not be written.)                                       *)
FollowUpsRecorded ==
    \A d \in DOMAIN payloads :
        projecting /\ delivery[d] = "processed" /\ <<d, "degraded">> \notin effects =>
            \A i \in DOMAIN FollowUps(payloads[d]) : <<d, FollowUps(payloads[d])[i]>> \in effects

(* Rows that keep the newer version never fall behind what was accepted:   *)
(* not by a job that projects an older delivery again, not by one that     *)
(* arrives late, not by a syncer that read GitHub long ago.  Only a        *)
(* deletion removes them.                                                  *)
DeletionAccepted(r) ==
    \E d \in DOMAIN payloads : Accepted(d) /\ payloads[d].action = "deleted" /\ payloads[d].kind = r

NeverBehind ==
    \A d \in DOMAIN payloads : Accepted(d) /\ Immediate(payloads[d]) =>
        \A i \in DOMAIN ObjectStatements(payloads[d]) :
            LET s == ObjectStatements(payloads[d])[i] IN
            s[1] = "upsert" /\ s[2] \in Gated /\ ~DeletionAccepted(s[2]) => rows[s[2]].at >= s[3].at

(* When every delivery arrived in order and every job succeeded at its     *)
(* first attempt, the drained queue leaves the mirror as GitHub is: what   *)
(* was deleted is gone, and the newest of what overwrites is stored.       *)
InOrderSettles ==
    orderly /\ projecting /\ (\A d \in Ids : ~Pending(d)) /\ (\A d \in DOMAIN payloads : Accepted(d)) =>
        \A k \in Kinds : IF k \in Gated THEN rows[k].at = github[k].at ELSE rows[k] = github[k]

(* Every accepted delivery is eventually processed, or its job discarded.  *)
DeliveriesSettle ==
    \A d \in Ids : (delivery[d] = "stored" /\ d \notin cleaned)
                       ~> (delivery[d] # "stored" \/ job[d].state = "discarded")

(* Older webhook payloads do not roll back what a newer one wrote: a row   *)
(* is only replaced by a version that GitHub made later.  This does not    *)
(* hold of this code (README, Known divergences): added to the properties  *)
(* of MCWebhookIngest.cfg, it shows how.                                   *)
NoRollback == [][\A r \in Rows : Exists(rows, r) /\ Exists(rows', r) => rows'[r].n >= rows[r].n]_vars
=============================================================================
